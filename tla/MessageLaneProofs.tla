------------------------- MODULE MessageLaneProofs -------------------------
(***************************************************************************)
(* Proofs about the message lane, for every number of relayers, messages   *)
(* and kept headers and for every value of the lane's limits.              *)
(*                                                                         *)
(* The first part is about the nonces of the two ends.  The second is      *)
(* about the relayers queue and what is paid from it: the queue stays well *)
(* formed and bounded, every kept copy of it tells the truth about the     *)
(* dispatches, so the source accepts every true delivery proof and rewards *)
(* each delivery once; the lane implements the reliable channel.  The      *)
(* third is about the pallet's loops (LaneLoops): they compute what the    *)
(* closed forms of MessageLane say.                                        *)
(***************************************************************************)
EXTENDS LaneLoops, SumProofs, SequenceTheorems, TLAPS

-----------------------------------------------------------------------------
(* Facts about numbers and sequences. *)

\* A function on 1..n with values in S is a sequence over S, of length n.
LEMMA FunctionIsSeq ==
    ASSUME NEW S, NEW n \in Nat, NEW f \in [1..n -> S]
    PROVE  f \in Seq(S) /\ Len(f) = n
<1>1. f \in Seq(S)
  BY SeqDef
<1>2. DOMAIN f = 1..n
  OBVIOUS
<1>3. DOMAIN f = 1..Len(f) /\ Len(f) \in Nat
  BY <1>1, LenProperties
<1> QED
  BY <1>1, <1>2, <1>3

-----------------------------------------------------------------------------
(* The relayers queue. *)

\* The fields of an entry of the queue have their types.
LEMMA EntryType ==
    ASSUME NEW q \in Seq(UnrewardedRelayer), NEW i \in 1..Len(q)
    PROVE  /\ q[i] \in UnrewardedRelayer
           /\ q[i].relayer \in Relayers
           /\ q[i].begin \in Nat
           /\ q[i].end \in Nat
           /\ q[i].dispatch_results \in Seq(BOOLEAN)
<1>1. q[i] \in UnrewardedRelayer
  BY ElementOfSeq
<1> QED
  BY <1>1 DEF UnrewardedRelayer

\* FirstUnconfirmed returns an entry: those before it are confirmed, it is not.
LEMMA FirstUnconfirmedProperties ==
    ASSUME NEW q \in Seq(UnrewardedRelayer), NEW n \in Nat
    PROVE  LET i == FirstUnconfirmed(q, n)
           IN  /\ i \in 1..(Len(q) + 1)
               /\ \A j \in 1..(i - 1) : q[j].end <= n
               /\ i <= Len(q) => q[i].end > n
<1> DEFINE P(i) == /\ \A j \in 1..(i - 1) : q[j].end <= n
                   /\ i <= Len(q) => q[i].end > n
           later == {i \in 1..Len(q) : q[i].end > n}
<1>0. Len(q) \in Nat /\ \A i \in 1..Len(q) : q[i].end \in Nat
  <2>1. Len(q) \in Nat
    BY LenProperties
  <2>2. \A i \in 1..Len(q) : q[i].end \in Nat
    BY EntryType
  <2> QED
    BY <2>1, <2>2
<1>1. \E i \in 1..(Len(q) + 1) : P(i)
  <2>1. CASE later = {}
    <3>1. P(Len(q) + 1)
      BY <1>0, <2>1
    <3> QED
      BY <1>0, <3>1
  <2>2. CASE later # {}
    <3>1. PICK x \in later : \A y \in later : x <= y
      <4>1. later \in SUBSET Nat
        BY <1>0
      <4> HIDE DEF later
      <4> QED
        BY <2>2, <4>1, LeastNumber
    <3>2. P(x)
      BY <1>0, <3>1
    <3> QED
      BY <1>0, <3>1, <3>2
  <2> QED
    BY <2>1, <2>2
<1> QED
  BY <1>1 DEF FirstUnconfirmed

\* The last delivered nonce is a number.
LEMMA LastDeliveredType ==
    ASSUME NEW lane \in InboundLaneData
    PROVE  LastDelivered(lane) \in Nat
<1>1. lane.relayers \in Seq(UnrewardedRelayer) /\ lane.last_confirmed_nonce \in Nat
  BY DEF InboundLaneData
<1>2. CASE lane.relayers = <<>>
  BY <1>1, <1>2 DEF LastDelivered
<1>3. CASE lane.relayers # <<>>
  <2>1. Len(lane.relayers) \in 1..Len(lane.relayers)
    BY <1>1, <1>3, EmptySeq
  <2>2. lane.relayers[Len(lane.relayers)] \in UnrewardedRelayer
    BY <1>1, <2>1, ElementOfSeq
  <2> QED
    BY <1>3, <2>2 DEF LastDelivered, UnrewardedRelayer
<1> QED
  BY <1>2, <1>3

\* Trimming an entry keeps its last message.
LEMMA TrimEntryProperties ==
    ASSUME NEW e \in UnrewardedRelayer, NEW n \in Nat
    PROVE  TrimEntry(e, n) \in UnrewardedRelayer /\ TrimEntry(e, n).end = e.end
<1> DEFINE results == SubSeq(e.dispatch_results, n + 1 - e.begin + 1, Len(e.dispatch_results))
<1>1. /\ e.relayer \in Relayers /\ e.begin \in Nat /\ e.end \in Nat
      /\ e.dispatch_results \in Seq(BOOLEAN)
      /\ e = [relayer |-> e.relayer, begin |-> e.begin, end |-> e.end,
              dispatch_results |-> e.dispatch_results]
  BY DEF UnrewardedRelayer
<1>2. CASE e.begin < n
  <2>1. results \in Seq(BOOLEAN)
    <3>1. Len(e.dispatch_results) \in Nat
      BY <1>1, LenProperties
    <3>2. \A i \in (n + 1 - e.begin + 1)..Len(e.dispatch_results) :
             e.dispatch_results[i] \in BOOLEAN
      BY <1>1, <1>2, <3>1, ElementOfSeq
    <3> QED
      BY <1>1, <3>1, <3>2, SubSeqProperties
  <2>2. TrimEntry(e, n) = [relayer |-> e.relayer, begin |-> n + 1, end |-> e.end,
                           dispatch_results |-> results]
    BY <1>1, <1>2 DEF TrimEntry
  <2> HIDE DEF results
  <2> QED
    BY <1>1, <2>1, <2>2 DEF UnrewardedRelayer
<1>3. CASE ~(e.begin < n)
  BY <1>3 DEF TrimEntry
<1> QED
  BY <1>2, <1>3

\* Dropping the confirmed messages yields a queue again; unless it is empty, its
\* last entry ends where it ended before.
LEMMA DropConfirmedProperties ==
    ASSUME NEW q \in Seq(UnrewardedRelayer), NEW n \in Nat
    PROVE  /\ DropConfirmed(q, n) \in Seq(UnrewardedRelayer)
           /\ DropConfirmed(q, n) # <<>> =>
                /\ q # <<>>
                /\ DropConfirmed(q, n)[Len(DropConfirmed(q, n))].end = q[Len(q)].end
           /\ DropConfirmed(q, n) = <<>> =>
                \A j \in 1..Len(q) : q[j].end <= n
<1> DEFINE first == FirstUnconfirmed(q, n)
           len == Len(q) - first + 1
           entry(i) == IF i = 1 THEN TrimEntry(q[first], n) ELSE q[first + i - 1]
           d == [i \in 1..len |-> entry(i)]
<1>0. Len(q) \in Nat /\ \A i \in 1..Len(q) : q[i] \in UnrewardedRelayer
  BY LenProperties, ElementOfSeq
<1>1. /\ first \in 1..(Len(q) + 1)
      /\ \A j \in 1..(first - 1) : q[j].end <= n
  BY FirstUnconfirmedProperties
<1>2. DropConfirmed(q, n) = d
  BY DEF DropConfirmed
<1> HIDE DEF first
<1>3. len \in Nat
  BY <1>0, <1>1
<1>4. \A i \in 1..len : entry(i) \in UnrewardedRelayer
  <2> TAKE i \in 1..len
  <2>1. first + i - 1 \in 1..Len(q)
    BY <1>0, <1>1
  <2>2. q[first + i - 1] \in UnrewardedRelayer
    BY <1>0, <2>1
  <2>3. CASE i = 1
    <3>1. q[first] \in UnrewardedRelayer
      BY <1>1, <2>2, <2>3
    <3>2. TrimEntry(q[first], n) \in UnrewardedRelayer
      BY <3>1, TrimEntryProperties
    <3> QED
      BY <2>3, <3>2
  <2>4. CASE i # 1
    BY <2>2, <2>4
  <2> QED
    BY <2>3, <2>4
<1>5. d \in Seq(UnrewardedRelayer) /\ Len(d) = len
  <2>1. d \in [1..len -> UnrewardedRelayer]
    BY <1>4
  <2> QED
    BY <1>3, <2>1, FunctionIsSeq
<1>6. ASSUME d # <<>>
      PROVE  q # <<>> /\ d[Len(d)].end = q[Len(q)].end
  <2>1. len >= 1
    BY <1>3, <1>5, <1>6, EmptySeq
  <2>2. first <= Len(q) /\ Len(q) \in 1..Len(q) /\ first + len - 1 = Len(q)
    BY <1>0, <1>1, <2>1
  <2>3. q # <<>>
    BY <2>2, EmptySeq
  <2>4. d[Len(d)] = entry(len)
    BY <1>3, <1>5, <2>1
  <2>5. entry(len).end = q[Len(q)].end
    <3>1. CASE len = 1
      <4>1. first = Len(q)
        BY <1>0, <1>1, <3>1
      <4> QED
        BY <1>0, <2>2, <3>1, <4>1, TrimEntryProperties
    <3>2. CASE len # 1
      BY <2>2, <3>2
    <3> QED
      BY <3>1, <3>2
  <2> HIDE DEF d, entry, len
  <2> QED
    BY <2>3, <2>4, <2>5
<1>7. ASSUME d = <<>>
      PROVE  \A j \in 1..Len(q) : q[j].end <= n
  <2>1. len = 0
    BY <1>5, <1>7, EmptySeq
  <2> QED
    BY <1>0, <1>1, <2>1
<1> HIDE DEF d
<1> QED
  BY <1>2, <1>5, <1>6, <1>7

\* receive_state_update confirms, at most, the nonce it is given, and never changes
\* what was delivered.
LEMMA ReceiveStateUpdateProperties ==
    ASSUME NEW lane \in InboundLaneData, NEW n \in Nat
    PROVE  LET new == ReceiveStateUpdate(lane, n)
           IN  /\ new \in InboundLaneData
               /\ LastDelivered(new) = LastDelivered(lane)
               /\ new.last_confirmed_nonce >= lane.last_confirmed_nonce
               /\ new.last_confirmed_nonce \in {lane.last_confirmed_nonce, n}
<1> DEFINE q == lane.relayers
           d == DropConfirmed(q, n)
           updated == [relayers |-> d, last_confirmed_nonce |-> n]
<1>0. q \in Seq(UnrewardedRelayer) /\ lane.last_confirmed_nonce \in Nat
  BY DEF InboundLaneData
<1>1. CASE n > LastDelivered(lane) \/ n <= lane.last_confirmed_nonce
  BY <1>0, <1>1 DEF ReceiveStateUpdate
<1>2. CASE ~(n > LastDelivered(lane) \/ n <= lane.last_confirmed_nonce)
  <2>1. ReceiveStateUpdate(lane, n) = updated
    BY <1>2 DEF ReceiveStateUpdate
  <2>2. LastDelivered(lane) \in Nat
    BY LastDeliveredType
  <2>3. q # <<>>
    BY <1>0, <1>2, <2>2 DEF LastDelivered
  <2>4. n <= q[Len(q)].end /\ LastDelivered(lane) = q[Len(q)].end
    BY <1>2, <2>2, <2>3 DEF LastDelivered
  <2>5. Len(q) \in 1..Len(q)
    BY <1>0, <2>3, EmptySeq
  <2>6. d \in Seq(UnrewardedRelayer)
    BY <1>0, DropConfirmedProperties
  <2>7. LastDelivered(updated) = q[Len(q)].end
    <3>1. CASE d = <<>>
      <4>1. q[Len(q)].end <= n
        BY <1>0, <2>5, <3>1, DropConfirmedProperties
      <4>2. q[Len(q)].end = n
        BY <2>2, <2>4, <4>1
      <4> QED
        BY <3>1, <4>2 DEF LastDelivered
    <3>2. CASE d # <<>>
      <4>1. d[Len(d)].end = q[Len(q)].end
        BY <1>0, <3>2, DropConfirmedProperties
      <4> QED
        BY <3>2, <4>1 DEF LastDelivered
    <3> QED
      BY <3>1, <3>2
  <2>8. updated \in InboundLaneData
    BY <2>6 DEF InboundLaneData
  <2> HIDE DEF d
  <2> QED
    BY <1>0, <1>2, <2>1, <2>4, <2>7, <2>8
<1> QED
  BY <1>1, <1>2

\* receive_message accepts a batch right after the last delivered message, of
\* messages that were proved, within the limit of unconfirmed messages.
LEMMA AcceptedCountProperties ==
    ASSUME NEW lane \in InboundLaneData, NEW relayer, NEW start \in Nat, NEW processed \in Int
    PROVE  LET accepted == AcceptedCount(lane, relayer, start, processed)
           IN  /\ accepted \in Nat
               /\ accepted # 0 =>
                    /\ start <= LastDelivered(lane) + 1
                    /\ LastDelivered(lane) + accepted <= processed
                    /\ LastDelivered(lane) + accepted
                         <= lane.last_confirmed_nonce + MaxUnconfirmedMessages
                    /\ FirstNew(lane, start) = LastDelivered(lane) + 1
                    /\ Len(lane.relayers) < MaxUnrewardedRelayerEntries
<1>1. LastDelivered(lane) \in Nat /\ lane.last_confirmed_nonce \in Nat
  BY LastDeliveredType DEF InboundLaneData
<1>2. MaxUnconfirmedMessages \in Nat /\ MaxUnrewardedRelayerEntries \in Nat
  BY LaneAssumption
<1>3. Len(lane.relayers) \in Nat
  BY LenProperties DEF InboundLaneData
<1> DEFINE accepted == AcceptedCount(lane, relayer, start, processed)
<1>4. /\ accepted \in Nat
      /\ accepted # 0 =>
           /\ start <= LastDelivered(lane) + 1
           /\ LastDelivered(lane) + accepted <= processed
           /\ LastDelivered(lane) + accepted
                <= lane.last_confirmed_nonce + MaxUnconfirmedMessages
  BY <1>1, <1>2, SMTT(40) DEF AcceptedCount, Lesser
<1>5. Len(lane.relayers) >= MaxUnrewardedRelayerEntries => accepted = 0
  BY <1>1, <1>2 DEF AcceptedCount, Lesser
<1> HIDE DEF accepted
<1>6. accepted # 0 => FirstNew(lane, start) = LastDelivered(lane) + 1
  BY <1>1, <1>4 DEF FirstNew, Greater
<1> QED
  BY <1>2, <1>3, <1>4, <1>5, <1>6 DEF accepted

\* An extended entry keeps its relayer and its first message.
LEMMA ExtendedEntry ==
    ASSUME NEW e \in UnrewardedRelayer, NEW k, NEW r
    PROVE  [e EXCEPT !.end = @ + k, !.dispatch_results = @ \o r]
             = [relayer |-> e.relayer, begin |-> e.begin, end |-> e.end + k,
                dispatch_results |-> e.dispatch_results \o r]
<1> DEFINE longer == [e EXCEPT !.end = e.end + k]
           results == e.dispatch_results \o r
<1>1. longer = [relayer |-> e.relayer, begin |-> e.begin, end |-> e.end + k,
                dispatch_results |-> e.dispatch_results]
  BY DEF UnrewardedRelayer
<1>2. [e EXCEPT !.end = @ + k, !.dispatch_results = @ \o r]
        = [longer EXCEPT !.dispatch_results = results]
  BY Zenon
<1> HIDE DEF longer, results
<1>3. [longer EXCEPT !.dispatch_results = results]
        = [relayer |-> e.relayer, begin |-> e.begin, end |-> e.end + k,
           dispatch_results |-> results]
  BY <1>1
<1> QED
  BY <1>2, <1>3 DEF results

\* Noting the results of a batch moves the last delivered nonce by their number.
LEMMA NoteDispatchedProperties ==
    ASSUME NEW lane \in InboundLaneData, NEW relayer \in Relayers, NEW first \in Nat,
           NEW results \in Seq(BOOLEAN),
           results # <<>> => first = LastDelivered(lane) + 1
    PROVE  LET new == NoteDispatched(lane, relayer, first, results)
           IN  /\ new \in InboundLaneData
               /\ LastDelivered(new) = LastDelivered(lane) + Len(results)
               /\ new.last_confirmed_nonce = lane.last_confirmed_nonce
<1> DEFINE q == lane.relayers
           back == Len(q)
<1>0. /\ q \in Seq(UnrewardedRelayer) /\ lane.last_confirmed_nonce \in Nat
      /\ lane = [relayers |-> q, last_confirmed_nonce |-> lane.last_confirmed_nonce]
      /\ LastDelivered(lane) \in Nat
      /\ Len(results) \in Nat
  BY LastDeliveredType, LenProperties DEF InboundLaneData
<1>1. CASE results = <<>>
  BY <1>0, <1>1 DEF NoteDispatched
<1>2. CASE results # <<>> /\ ExtendsBack(lane, relayer)
  <2> DEFINE e == q[back]
             f == [e EXCEPT !.end = @ + Len(results), !.dispatch_results = @ \o results]
             p == [q EXCEPT ![back] = f]
  <2>1. q # <<>> /\ back \in 1..Len(q)
    BY <1>0, <1>2, EmptySeq DEF ExtendsBack
  <2>2. e \in UnrewardedRelayer
    BY <1>0, <2>1, ElementOfSeq
  <2>3. /\ e.end \in Nat /\ e.dispatch_results \in Seq(BOOLEAN)
        /\ e.relayer \in Relayers /\ e.begin \in Nat
        /\ e = [relayer |-> e.relayer, begin |-> e.begin, end |-> e.end,
                dispatch_results |-> e.dispatch_results]
    BY <2>2 DEF UnrewardedRelayer
  <2>4. e.dispatch_results \o results \in Seq(BOOLEAN)
    BY <2>3, ConcatProperties
  <2>5. f \in UnrewardedRelayer /\ f.end = e.end + Len(results)
    <3>1. f = [relayer |-> e.relayer, begin |-> e.begin, end |-> e.end + Len(results),
               dispatch_results |-> e.dispatch_results \o results]
      <4> HIDE DEF e
      <4> QED
        BY <2>2, ExtendedEntry
    <3>2. e.end + Len(results) \in Nat
      BY <1>0, <2>3
    <3> HIDE DEF e, f
    <3> QED
      BY <2>3, <2>4, <3>1, <3>2 DEF UnrewardedRelayer
  <2> HIDE DEF f
  <2>6. p \in Seq(UnrewardedRelayer) /\ Len(p) = Len(q) /\ p[back] = f
    BY <1>0, <2>1, <2>5, ExceptSeq
  <2>7. NoteDispatched(lane, relayer, first, results)
          = [relayers |-> p, last_confirmed_nonce |-> lane.last_confirmed_nonce]
    BY <1>0, <1>2, <2>1 DEF NoteDispatched, f
  <2>8. p # <<>>
    BY <2>1, <2>6, EmptySeq
  <2> HIDE DEF p
  <2>9. LastDelivered(lane) = e.end
    BY <2>1 DEF LastDelivered
  <2>10. NoteDispatched(lane, relayer, first, results) \in InboundLaneData
    BY <1>0, <2>6, <2>7 DEF InboundLaneData
  <2>11. LastDelivered(NoteDispatched(lane, relayer, first, results)) = f.end
    BY <2>6, <2>7, <2>8 DEF LastDelivered
  <2> QED
    BY <2>5, <2>7, <2>9, <2>10, <2>11
<1>3. CASE results # <<>> /\ ~ExtendsBack(lane, relayer)
  <2> DEFINE f == [relayer |-> relayer, begin |-> first,
                   end |-> first + Len(results) - 1, dispatch_results |-> results]
             p == Append(q, f)
  <2>1. Len(results) >= 1 /\ first = LastDelivered(lane) + 1
    BY <1>0, <1>3, EmptySeq
  <2>2. f \in UnrewardedRelayer
    BY <1>0, <2>1 DEF UnrewardedRelayer
  <2>3. f.end = LastDelivered(lane) + Len(results)
    BY <1>0, <2>1
  <2> HIDE DEF f
  <2>4. p \in Seq(UnrewardedRelayer) /\ p # <<>> /\ p[Len(p)] = f
    BY <1>0, <2>2, AppendProperties
  <2>5. NoteDispatched(lane, relayer, first, results)
          = [relayers |-> p, last_confirmed_nonce |-> lane.last_confirmed_nonce]
    BY <1>0, <1>3 DEF NoteDispatched, f
  <2> HIDE DEF p
  <2> QED
    BY <1>0, <2>3, <2>4, <2>5 DEF InboundLaneData, LastDelivered
<1> QED
  BY <1>1, <1>2, <1>3

-----------------------------------------------------------------------------
(* The relayers vec of a delivery proof. *)

\* A relayers vec that passes the checks of confirm_delivery has exactly the
\* messages to confirm in its entries, so every one has its relayer and result.
LEMMA DeliveryOfProperties ==
    ASSUME NEW lane \in InboundLaneData, NEW out \in OutboundLaneData,
           LastDelivered(lane) > out.latest_received_nonce,
           ConfirmsDelivery(out, lane.relayers, LastDelivered(lane)),
           NEW n \in (out.latest_received_nonce + 1)..LastDelivered(lane)
    PROVE  /\ DeliveryOf(lane.relayers, n) \in Delivery
           /\ \E i \in 1..Len(lane.relayers) :
                LET e == lane.relayers[i]
                IN  /\ e.begin <= n /\ n <= e.end
                    /\ DeliveryOf(lane.relayers, n)
                         = [nonce |-> n, relayer |-> e.relayer,
                            result |-> e.dispatch_results[n - e.begin + 1]]
<1> DEFINE q == lane.relayers
           has(j) == q[j].begin <= n /\ n <= q[j].end
           reached == {j \in 1..Len(q) : n <= q[j].end}
<1>0. /\ q \in Seq(UnrewardedRelayer)
      /\ Len(q) \in Nat
      /\ \A j \in 1..Len(q) : q[j] \in UnrewardedRelayer
      /\ LastDelivered(lane) \in Nat /\ out.latest_received_nonce \in Nat
  BY LastDeliveredType, LenProperties, ElementOfSeq DEF InboundLaneData, OutboundLaneData
<1>1. \A j \in 1..Len(q) : /\ q[j].begin \in Nat /\ q[j].end \in Nat
                            /\ q[j].relayer \in Relayers
                            /\ q[j].dispatch_results \in Seq(BOOLEAN)
  BY <1>0 DEF UnrewardedRelayer
<1>2. /\ LastDelivered(lane) - out.latest_received_nonce <= TotalUnrewardedMessages(q)
      /\ ValidEntries(q, LastDelivered(lane))
  BY DEF ConfirmsDelivery
<1>3. q # <<>>
  BY <1>0, <1>2 DEF TotalUnrewardedMessages
<1>4. 1 \in 1..Len(q) /\ Len(q) \in 1..Len(q)
  BY <1>0, <1>3, EmptySeq
<1>5. LastDelivered(lane) = q[Len(q)].end
  BY <1>3 DEF LastDelivered
<1>6. q[1].begin <= n
  <2> DEFINE total == TotalUnrewardedMessages(q)
  <2>1. total = 0 \/ total = q[Len(q)].end - q[1].begin + 1
    BY DEF TotalUnrewardedMessages
  <2>2. LastDelivered(lane) - out.latest_received_nonce <= total
    BY <1>2
  <2>3. q[1].begin \in Nat /\ q[Len(q)].end \in Nat
    BY <1>1, <1>4
  <2> HIDE DEF total, q
  <2> QED
    BY <1>0, <1>5, <2>1, <2>2, <2>3
<1>7. PICK x \in reached : \A y \in reached : x <= y
  <2>1. Len(q) \in reached
    BY <1>0, <1>4, <1>5
  <2>2. reached \in SUBSET Nat /\ reached # {}
    BY <2>1
  <2> HIDE DEF reached
  <2> QED
    BY <2>2, LeastNumber
<1>8. has(x)
  <2>1. CASE x = 1
    BY <1>6, <1>7, <2>1
  <2>2. CASE x # 1
    <3>0. x \in 1..Len(q) /\ x > 1
      BY <1>0, <1>7, <2>2
    <3>1. x - 1 \in 1..Len(q) /\ x - 1 \notin reached
      <4>1. x - 1 \in 1..Len(q) /\ ~(x <= x - 1)
        BY <1>0, <3>0
      <4> HIDE DEF reached
      <4> QED
        BY <1>7, <4>1
    <3>2. q[x - 1].end < n
      <4>1. ~(n <= q[x - 1].end)
        BY <3>1
      <4>2. q[x - 1].end \in Nat /\ n \in Nat
        BY <1>0, <1>1, <3>1, SMTT(40)
      <4> HIDE DEF q
      <4> QED
        BY <4>1, <4>2
    <3>3. q[x].begin = q[x - 1].end + 1
      <4> HIDE DEF q
      <4> QED
        BY <1>2, <3>0 DEF ValidEntries
    <3> QED
      <4>1. n <= q[x].end /\ q[x - 1].end \in Nat /\ n \in Nat
        BY <1>0, <1>1, <1>7, <3>1, SMTT(40)
      <4> HIDE DEF q
      <4> QED
        BY <3>2, <3>3, <4>1
  <2> QED
    BY <2>1, <2>2
<1> DEFINE i == CHOOSE j \in 1..Len(q) : has(j)
<1>9. i \in 1..Len(q) /\ has(i)
  BY <1>7, <1>8
<1>10. DeliveryOf(q, n) = [nonce |-> n, relayer |-> q[i].relayer,
                           result |-> q[i].dispatch_results[n - q[i].begin + 1]]
  BY DEF DeliveryOf
<1> HIDE DEF i
<1>11. q[i].dispatch_results[n - q[i].begin + 1] \in BOOLEAN
  <2>1. Len(q[i].dispatch_results) = q[i].end - q[i].begin + 1
    <3> HIDE DEF q
    <3> QED
      BY <1>2, <1>9 DEF ValidEntries
  <2>2. n - q[i].begin + 1 \in 1..Len(q[i].dispatch_results)
    <3>1. /\ q[i].begin \in Nat /\ q[i].end \in Nat /\ n \in Nat
          /\ q[i].begin <= n /\ n <= q[i].end
      BY <1>0, <1>1, <1>9, SMTT(40)
    <3> HIDE DEF q
    <3> QED
      BY <2>1, <3>1, SMTT(40)
  <2> QED
    BY <1>1, <1>9, <2>2, ElementOfSeq
<1>12. DeliveryOf(q, n) \in Delivery
  BY <1>0, <1>1, <1>9, <1>10, <1>11 DEF Delivery
<1> QED
  BY <1>9, <1>10, <1>12

-----------------------------------------------------------------------------
(* The steps, seen from outside. *)

\* A delivery transaction applies the proved lane state, notes a batch of results in
\* the relayers queue and appends the same batch to the dispatches.
LEMMA DeliveryBatch ==
    ASSUME TypeOK,
           NEW relayer \in Relayers, NEW header \in SourceState, NEW proveState \in BOOLEAN,
           NEW start \in Nat, NEW end \in Int, NEW processed \in Int,
           ReceiveMessagesProof(relayer, header, proveState, start, end, processed)
    PROVE  \E updated \in InboundLaneData, results \in Seq(BOOLEAN) :
             /\ updated = IF proveState
                          THEN ReceiveStateUpdate(inbound, header.lane.latest_received_nonce)
                          ELSE inbound
             /\ Len(results) = AcceptedCount(updated, relayer, start, processed)
             /\ inbound' = NoteDispatched(updated, relayer, FirstNew(updated, start), results)
             /\ dispatched' \in Seq(Delivery)
             /\ Len(dispatched') = Len(dispatched) + Len(results)
             /\ \A i \in 1..Len(dispatched) : dispatched'[i] = dispatched[i]
             /\ \A i \in 1..Len(results) :
                  dispatched'[Len(dispatched) + i]
                    = [nonce   |-> FirstNew(updated, start) + i - 1,
                       relayer |-> relayer,
                       result  |-> results[i]]
<1> DEFINE updated == IF proveState
                      THEN ReceiveStateUpdate(inbound, header.lane.latest_received_nonce)
                      ELSE inbound
           first == FirstNew(updated, start)
           accepted == AcceptedCount(updated, relayer, start, processed)
<1>0. inbound \in InboundLaneData /\ dispatched \in Seq(Delivery)
  BY DEF TypeOK
<1>1. header.lane.latest_received_nonce \in Nat
  BY DEF SourceState, OutboundLaneData
<1>2. updated \in InboundLaneData
  BY <1>0, <1>1, ReceiveStateUpdateProperties
<1>3. PICK results \in [1..accepted -> DispatchResults] :
        /\ inbound' = NoteDispatched(updated, relayer, first, results)
        /\ dispatched' = dispatched \o
             [i \in 1..accepted |-> [nonce   |-> first + i - 1,
                                     relayer |-> relayer,
                                     result  |-> results[i]]]
  BY DEF ReceiveMessagesProof
<1> HIDE DEF updated
<1>4. accepted \in Nat /\ LastDelivered(updated) \in Nat
  BY <1>2, AcceptedCountProperties, LastDeliveredType
<1>5. first \in Nat /\ first >= 1
  BY <1>4 DEF FirstNew, Greater
<1> HIDE DEF first, accepted
<1>6. results \in [1..accepted -> BOOLEAN]
  BY LaneAssumption
<1>7. results \in Seq(BOOLEAN) /\ Len(results) = accepted
  BY <1>4, <1>6, FunctionIsSeq
<1> DEFINE batch == [i \in 1..accepted |-> [nonce   |-> first + i - 1,
                                            relayer |-> relayer,
                                            result  |-> results[i]]]
<1>8. batch \in [1..accepted -> Delivery]
  BY <1>4, <1>5, <1>6 DEF Delivery
<1>9. batch \in Seq(Delivery) /\ Len(batch) = accepted
  BY <1>4, <1>8, FunctionIsSeq
<1>10. \A i \in 1..accepted : batch[i] = [nonce   |-> first + i - 1,
                                          relayer |-> relayer,
                                          result  |-> results[i]]
  OBVIOUS
<1>11. dispatched' = dispatched \o batch
  BY <1>3
<1> HIDE DEF batch
<1>12. /\ dispatched' \in Seq(Delivery)
       /\ Len(dispatched') = Len(dispatched) + accepted
       /\ \A i \in 1..(Len(dispatched) + accepted) :
            dispatched'[i] = IF i <= Len(dispatched) THEN dispatched[i]
                                                    ELSE batch[i - Len(dispatched)]
  BY <1>0, <1>9, <1>11, ConcatProperties
<1>13. Len(dispatched) \in Nat
  BY <1>0, LenProperties
<1>14. \A i \in 1..Len(dispatched) : dispatched'[i] = dispatched[i]
  BY <1>4, <1>12, <1>13
<1>15. \A i \in 1..accepted : dispatched'[Len(dispatched) + i] = batch[i]
  BY <1>4, <1>12, <1>13, SMTT(40)
<1>16. \A i \in 1..Len(results) :
         dispatched'[Len(dispatched) + i] = [nonce   |-> first + i - 1,
                                             relayer |-> relayer,
                                             result  |-> results[i]]
  BY <1>7, <1>10, <1>15
<1> results \in Seq(BOOLEAN) /\ updated \in InboundLaneData
  BY <1>2, <1>7
<1> WITNESS updated \in InboundLaneData, results \in Seq(BOOLEAN)
<1> QED
  BY <1>3, <1>7, <1>12, <1>14, <1>16 DEF updated, first, accepted

\* A delivery transaction confirms nothing but the nonce it proves, and appends a
\* batch of proved messages, from the first undelivered one, to the dispatches.
LEMMA DeliveryStep ==
    ASSUME TypeOK,
           NEW relayer \in Relayers, NEW header \in SourceState, NEW proveState \in BOOLEAN,
           NEW start \in Nat, NEW end \in Int, NEW processed \in Int,
           ReceiveMessagesProof(relayer, header, proveState, start, end, processed)
    PROVE  /\ inbound' \in InboundLaneData
           /\ inbound'.last_confirmed_nonce >= inbound.last_confirmed_nonce
           /\ inbound'.last_confirmed_nonce
                \in {inbound.last_confirmed_nonce, header.lane.latest_received_nonce}
           /\ dispatched' \in Seq(Delivery)
           /\ \E accepted \in Nat :
                /\ LastDelivered(inbound') = LastDelivered(inbound) + accepted
                /\ accepted # 0 => /\ start <= LastDelivered(inbound) + 1
                                   /\ LastDelivered(inbound) + accepted <= processed
                /\ Len(dispatched') = Len(dispatched) + accepted
                /\ \A i \in 1..Len(dispatched) : dispatched'[i] = dispatched[i]
                /\ \A i \in 1..accepted :
                     dispatched'[Len(dispatched) + i].nonce = LastDelivered(inbound) + i
<1>0. inbound \in InboundLaneData /\ header.lane.latest_received_nonce \in Nat
  BY DEF TypeOK, SourceState, OutboundLaneData
<1>1. PICK updated \in InboundLaneData, results \in Seq(BOOLEAN) :
             /\ updated = IF proveState
                          THEN ReceiveStateUpdate(inbound, header.lane.latest_received_nonce)
                          ELSE inbound
             /\ Len(results) = AcceptedCount(updated, relayer, start, processed)
             /\ inbound' = NoteDispatched(updated, relayer, FirstNew(updated, start), results)
             /\ dispatched' \in Seq(Delivery)
             /\ Len(dispatched') = Len(dispatched) + Len(results)
             /\ \A i \in 1..Len(dispatched) : dispatched'[i] = dispatched[i]
             /\ \A i \in 1..Len(results) :
                  dispatched'[Len(dispatched) + i]
                    = [nonce   |-> FirstNew(updated, start) + i - 1,
                       relayer |-> relayer,
                       result  |-> results[i]]
  BY DeliveryBatch, SMTT(40)
<1> DEFINE first == FirstNew(updated, start)
           accepted == Len(results)
<1>2. /\ LastDelivered(updated) = LastDelivered(inbound)
      /\ updated.last_confirmed_nonce >= inbound.last_confirmed_nonce
      /\ updated.last_confirmed_nonce
           \in {inbound.last_confirmed_nonce, header.lane.latest_received_nonce}
  <2>1. CASE proveState
    BY <1>0, <1>1, <2>1, ReceiveStateUpdateProperties
  <2>2. CASE ~proveState
    BY <1>0, <1>1, <2>2 DEF InboundLaneData
  <2> QED
    BY <2>1, <2>2
<1>3. /\ accepted \in Nat
      /\ accepted # 0 => /\ start <= LastDelivered(updated) + 1
                         /\ LastDelivered(updated) + accepted <= processed
                         /\ first = LastDelivered(updated) + 1
  BY <1>1, AcceptedCountProperties
<1>4. LastDelivered(updated) \in Nat
  BY LastDeliveredType
<1>5. first \in Nat
  BY <1>4 DEF FirstNew, Greater
<1> HIDE DEF first
<1>6. results # <<>> => first = LastDelivered(updated) + 1
  BY <1>3, EmptySeq
<1>7. /\ inbound' \in InboundLaneData
      /\ LastDelivered(inbound') = LastDelivered(updated) + accepted
      /\ inbound'.last_confirmed_nonce = updated.last_confirmed_nonce
  BY <1>1, <1>5, <1>6, NoteDispatchedProperties DEF first
<1>8. \A i \in 1..accepted :
         dispatched'[Len(dispatched) + i].nonce = LastDelivered(inbound) + i
  <2> TAKE i \in 1..accepted
  <2>1. dispatched'[Len(dispatched) + i].nonce = first + i - 1
    <3>1. dispatched'[Len(dispatched) + i] = [nonce   |-> first + i - 1,
                                              relayer |-> relayer,
                                              result  |-> results[i]]
      BY <1>1 DEF first
    <3> QED
      BY <3>1
  <2>2. first = LastDelivered(inbound) + 1
    BY <1>2, <1>3
  <2> QED
    BY <1>2, <1>4, <2>1, <2>2
<1> HIDE DEF accepted
<1>9. /\ LastDelivered(inbound') = LastDelivered(inbound) + accepted
      /\ accepted # 0 => /\ start <= LastDelivered(inbound) + 1
                         /\ LastDelivered(inbound) + accepted <= processed
      /\ Len(dispatched') = Len(dispatched) + accepted
  BY <1>1, <1>2, <1>3, <1>7 DEF accepted
<1> QED
  BY <1>1, <1>2, <1>3, <1>7, <1>8, <1>9

\* A confirmation transaction moves the received nonce to the proved delivered one
\* and appends one reward per message.
LEMMA ConfirmationStep ==
    ASSUME TypeOK, NEW lane \in InboundLaneData, ReceiveMessagesDeliveryProof(lane)
    PROVE  /\ outbound' = [outbound EXCEPT !.latest_received_nonce = LastDelivered(lane)]
           /\ outbound' \in OutboundLaneData
           /\ outbound.latest_received_nonce < LastDelivered(lane)
           /\ LastDelivered(lane) <= outbound.latest_generated_nonce
           /\ rewarded' \in Seq(Delivery)
           /\ Len(rewarded') = Len(rewarded)
                                + (LastDelivered(lane) - outbound.latest_received_nonce)
           /\ \A i \in 1..Len(rewarded) : rewarded'[i] = rewarded[i]
           /\ \A i \in 1..(LastDelivered(lane) - outbound.latest_received_nonce) :
                rewarded'[Len(rewarded) + i]
                  = DeliveryOf(lane.relayers, outbound.latest_received_nonce + i)
<1> DEFINE delivered == LastDelivered(lane)
           received == outbound.latest_received_nonce
           batch == [i \in 1..(delivered - received) |-> DeliveryOf(lane.relayers, received + i)]
<1>0. outbound \in OutboundLaneData /\ rewarded \in Seq(Delivery) /\ received \in Nat
  BY DEF TypeOK, OutboundLaneData
<1>1. delivered \in Nat
  BY LastDeliveredType
<1>2. /\ delivered > received
      /\ ConfirmsDelivery(outbound, lane.relayers, delivered)
      /\ outbound' = [outbound EXCEPT !.latest_received_nonce = delivered]
      /\ rewarded' = rewarded \o batch
  BY DEF ReceiveMessagesDeliveryProof
<1>3. \A i \in 1..(delivered - received) :
        DeliveryOf(lane.relayers, received + i) \in Delivery
  <2> TAKE i \in 1..(delivered - received)
  <2>1. received + i \in (received + 1)..delivered
    BY <1>0, <1>1, <1>2
  <2> QED
    BY <1>0, <1>2, <2>1, DeliveryOfProperties
<1>4. batch \in [1..(delivered - received) -> Delivery] /\ delivered - received \in Nat
  BY <1>0, <1>1, <1>2, <1>3
<1>5. /\ batch \in Seq(Delivery) /\ Len(batch) = delivered - received
      /\ \A i \in 1..(delivered - received) : batch[i] = DeliveryOf(lane.relayers, received + i)
  BY <1>4, FunctionIsSeq
<1> HIDE DEF batch
<1>6. /\ rewarded' \in Seq(Delivery)
      /\ Len(rewarded') = Len(rewarded) + (delivered - received)
      /\ \A i \in 1..Len(rewarded) : rewarded'[i] = rewarded[i]
      /\ \A i \in 1..(delivered - received) :
           rewarded'[Len(rewarded) + i] = DeliveryOf(lane.relayers, received + i)
  <2> DEFINE k == delivered - received
  <2>1. k \in Nat /\ Len(rewarded) \in Nat
    BY <1>0, <1>4, LenProperties
  <2>b. batch \in Seq(Delivery) /\ Len(batch) = k /\ rewarded' = rewarded \o batch
    BY <1>2, <1>5
  <2> HIDE DEF k
  <2>2. /\ rewarded' \in Seq(Delivery)
        /\ Len(rewarded') = Len(rewarded) + k
        /\ \A i \in 1..(Len(rewarded) + k) :
             rewarded'[i] = IF i <= Len(rewarded) THEN rewarded[i]
                                                  ELSE batch[i - Len(rewarded)]
    BY <1>0, <2>b, ConcatProperties
  <2>3. \A i \in 1..Len(rewarded) : rewarded'[i] = rewarded[i]
    BY <2>1, <2>2
  <2>4. \A i \in 1..k : rewarded'[Len(rewarded) + i] = batch[i]
    BY <2>1, <2>2
  <2> QED
    BY <1>5, <2>2, <2>3, <2>4 DEF k
<1>7. outbound' \in OutboundLaneData
  BY <1>0, <1>1, <1>2 DEF OutboundLaneData
<1>8. delivered <= outbound.latest_generated_nonce
  BY <1>2 DEF ConfirmsDelivery
<1> QED
  BY <1>0, <1>1, <1>2, <1>6, <1>7, <1>8

\* A new message gets the next nonce; pruning keeps the types.
LEMMA SendStep ==
    ASSUME TypeOK, SendMessage
    PROVE  /\ outbound' \in OutboundLaneData
           /\ outbound'.latest_generated_nonce = outbound.latest_generated_nonce + 1
           /\ outbound'.latest_received_nonce = outbound.latest_received_nonce
           /\ outbound'.oldest_unpruned_nonce = LastPruned(outbound) + 1
           /\ outboundMessages' \subseteq
                outboundMessages \cup {outbound.latest_generated_nonce + 1}
           /\ outboundMessages' \subseteq Nat
<1> DEFINE pruned == LastPruned(outbound)
<1>0. outbound \in OutboundLaneData /\ outboundMessages \subseteq Nat
  BY DEF TypeOK
<1>1. /\ outbound.oldest_unpruned_nonce \in Nat
      /\ outbound.latest_received_nonce \in Nat
      /\ outbound.latest_generated_nonce \in Nat
  BY <1>0 DEF OutboundLaneData
<1>2. pruned + 1 \in Nat
  BY <1>1, LaneAssumption DEF LastPruned, Lesser
<1> HIDE DEF pruned
<1>3. outbound' = [outbound EXCEPT
                     !.latest_generated_nonce = outbound.latest_generated_nonce + 1,
                     !.oldest_unpruned_nonce = pruned + 1]
  BY DEF SendMessage, pruned
<1>4. outboundMessages' \subseteq outboundMessages \cup {outbound.latest_generated_nonce + 1}
  BY DEF SendMessage
<1>5. outbound' = [oldest_unpruned_nonce  |-> pruned + 1,
                   latest_received_nonce  |-> outbound.latest_received_nonce,
                   latest_generated_nonce |-> outbound.latest_generated_nonce + 1]
  BY <1>0, <1>3 DEF OutboundLaneData
<1>6. outbound' \in OutboundLaneData
  BY <1>1, <1>2, <1>5 DEF OutboundLaneData
<1>7. /\ outbound'.latest_generated_nonce = outbound.latest_generated_nonce + 1
      /\ outbound'.latest_received_nonce = outbound.latest_received_nonce
      /\ outbound'.oldest_unpruned_nonce = pruned + 1
  BY <1>5
<1>8. outboundMessages' \subseteq Nat
  BY <1>0, <1>1, <1>4
<1> QED
  BY <1>4, <1>6, <1>7, <1>8 DEF pruned

-----------------------------------------------------------------------------
(* Type correctness. *)

\* Every variable has its type initially.
LEMMA InitTypeOK == Init => TypeOK
<1> SUFFICES ASSUME Init PROVE TypeOK
  OBVIOUS
<1>1. InitOutboundLane \in OutboundLaneData
  BY DEF InitOutboundLane, OutboundLaneData
<1>2. InitInboundLane \in InboundLaneData
  BY EmptySeq DEF InitInboundLane, InboundLaneData
<1>3. [lane |-> InitOutboundLane, messages |-> {}] \in SourceState
  BY <1>1 DEF SourceState
<1>4. <<>> \in Seq(Delivery)
  BY EmptySeq
<1> QED
  BY <1>1, <1>2, <1>3, <1>4 DEF Init, TypeOK

\* A light client keeps states of the other chain.
LEMMA ImportHeaderType ==
    ASSUME NEW S, NEW headers \in [Slots -> S], NEW state \in S
    PROVE  ImportHeader(headers, state) \in [Slots -> S]
<1>1. HeadersToKeep \in Nat \ {0}
  BY LaneAssumption
<1>2. \A i \in Slots : i # 1 => i - 1 \in Slots
  BY <1>1 DEF Slots
<1> QED
  BY <1>2 DEF ImportHeader

\* Every step preserves the types: a delivery proof that passes the checks of
\* confirm_delivery never reads outside the relayers vec.
LEMMA NextTypeOK == TypeOK /\ [Next]_vars => TypeOK'
<1> SUFFICES ASSUME TypeOK, [Next]_vars PROVE TypeOK'
  OBVIOUS
<1>1. CASE SendMessage
  BY <1>1, SendStep DEF TypeOK, SendMessage, targetVars
<1>2. CASE ReceiveSomeMessagesProof
  <2>0. PICK relayer \in Relayers, h \in Slots, proveState \in BOOLEAN,
             start \in 1..(MaxNonce + 2), end \in 1..(MaxNonce + 1) :
          \E processed \in (start - 1)..end :
            ReceiveMessagesProof(relayer, sourceHeaders[h], proveState, start, end, processed)
    BY <1>2 DEF ReceiveSomeMessagesProof
  <2>1. PICK processed \in (start - 1)..end :
          ReceiveMessagesProof(relayer, sourceHeaders[h], proveState, start, end, processed)
    BY <2>0
  <2>2. sourceHeaders[h] \in SourceState
    BY DEF TypeOK
  <2>3. start \in Nat /\ end \in Int /\ processed \in Int
    BY LaneAssumption
  <2>4. inbound' \in InboundLaneData /\ dispatched' \in Seq(Delivery)
    BY <2>1, <2>2, <2>3, DeliveryStep
  <2>5. UNCHANGED <<sourceVars, targetMode, sourceHeaders, targetHeaders, rewarded>>
    BY <2>1 DEF ReceiveMessagesProof
  <2> QED
    BY <2>4, <2>5 DEF TypeOK, sourceVars
<1>3. CASE ReceiveSomeDeliveryProof
  <2>1. PICK h \in Slots : ReceiveMessagesDeliveryProof(targetHeaders[h])
    BY <1>3 DEF ReceiveSomeDeliveryProof
  <2>2. targetHeaders[h] \in InboundLaneData
    BY DEF TypeOK
  <2>3. outbound' \in OutboundLaneData /\ rewarded' \in Seq(Delivery)
    BY <2>1, <2>2, ConfirmationStep
  <2>4. UNCHANGED <<targetVars, outboundMessages, sourceMode, sourceHeaders,
                    targetHeaders, dispatched>>
    BY <2>1 DEF ReceiveMessagesDeliveryProof
  <2> QED
    BY <2>3, <2>4 DEF TypeOK, targetVars
<1>4. CASE ImportSourceHeader
  <2>1. [lane |-> outbound, messages |-> outboundMessages] \in SourceState
    BY DEF TypeOK, SourceState
  <2>2. sourceHeaders' \in [Slots -> SourceState]
    BY <1>4, <2>1, ImportHeaderType DEF ImportSourceHeader, TypeOK
  <2> QED
    BY <1>4, <2>2 DEF TypeOK, ImportSourceHeader, sourceVars, targetVars
<1>5. CASE ImportTargetHeader
  <2>1. targetHeaders' \in [Slots -> InboundLaneData]
    BY <1>5, ImportHeaderType DEF ImportTargetHeader, TypeOK
  <2> QED
    BY <1>5, <2>1 DEF TypeOK, ImportTargetHeader, sourceVars, targetVars
<1>6. CASE \E mode \in Modes : SetSourceMode(mode)
  BY <1>6, LaneAssumption DEF TypeOK, SetSourceMode, targetVars
<1>7. CASE \E mode \in Modes : SetTargetMode(mode)
  BY <1>7, LaneAssumption DEF TypeOK, SetTargetMode, sourceVars
<1>8. CASE UNCHANGED vars
  BY <1>8 DEF TypeOK, vars
<1> QED
  BY <1>1, <1>2, <1>3, <1>4, <1>5, <1>6, <1>7, <1>8 DEF Next

\* Every variable of the lane has its type in every reachable state; in
\* particular every reward names a relayer and a dispatch result.
THEOREM TypeCorrectness == Spec => []TypeOK
<1> QED
  BY InitTypeOK, NextTypeOK, PTL DEF Spec

-----------------------------------------------------------------------------
(* The nonces of the lane. *)

\* The chains know nothing of each other initially.
LEMMA InitLaneInv == Init => LaneInv
<1> SUFFICES ASSUME Init PROVE LaneInv
  OBVIOUS
<1>1. TypeOK
  BY InitTypeOK
<1>2. LastDelivered(InitInboundLane) = 0
  BY DEF LastDelivered, InitInboundLane
<1>3. NonceOrder
  BY <1>2 DEF Init, NonceOrder, InitOutboundLane, InitInboundLane
<1>4. DispatchedInOrderOnce
  BY <1>2, EmptySeq DEF Init, DispatchedInOrderOnce
<1>5. HeadersBehind
  BY <1>2 DEF Init, HeadersBehind, InitOutboundLane
<1> QED
  BY <1>1, <1>3, <1>4, <1>5 DEF LaneInv

\* The nonces of well-typed lanes are numbers, those of the kept headers too.
LEMMA NonceTypes ==
    ASSUME TypeOK
    PROVE  /\ inbound.last_confirmed_nonce \in Nat
           /\ LastDelivered(inbound) \in Nat
           /\ outbound.oldest_unpruned_nonce \in Nat
           /\ outbound.latest_received_nonce \in Nat
           /\ outbound.latest_generated_nonce \in Nat
           /\ Len(dispatched) \in Nat
           /\ \A h \in Slots : /\ sourceHeaders[h].lane.latest_received_nonce \in Nat
                               /\ sourceHeaders[h].messages \subseteq Nat
                               /\ LastDelivered(targetHeaders[h]) \in Nat
<1>1. inbound.last_confirmed_nonce \in Nat /\ LastDelivered(inbound) \in Nat
  BY LastDeliveredType DEF TypeOK, InboundLaneData
<1>2. /\ outbound.oldest_unpruned_nonce \in Nat
      /\ outbound.latest_received_nonce \in Nat
      /\ outbound.latest_generated_nonce \in Nat
  BY DEF TypeOK, OutboundLaneData
<1>3. Len(dispatched) \in Nat
  BY LenProperties DEF TypeOK
<1>4. ASSUME NEW h \in Slots
      PROVE  /\ sourceHeaders[h].lane.latest_received_nonce \in Nat
             /\ sourceHeaders[h].messages \subseteq Nat
             /\ LastDelivered(targetHeaders[h]) \in Nat
  <2>1. sourceHeaders[h] \in SourceState /\ targetHeaders[h] \in InboundLaneData
    BY DEF TypeOK
  <2>2. LastDelivered(targetHeaders[h]) \in Nat
    BY <2>1, LastDeliveredType
  <2> QED
    BY <2>1, <2>2 DEF SourceState, OutboundLaneData
<1> QED
  BY <1>1, <1>2, <1>3, <1>4

\* The state kept for a header is an imported one or was kept before.
LEMMA ImportHeaderProperties ==
    ASSUME NEW headers, NEW state, NEW h \in Slots
    PROVE  \/ ImportHeader(headers, state)[h] = state
           \/ \E g \in Slots : ImportHeader(headers, state)[h] = headers[g]
<1>1. HeadersToKeep \in Nat \ {0}
  BY LaneAssumption
<1>2. h # 1 => h - 1 \in Slots
  BY <1>1 DEF Slots
<1>3. CASE h = 1
  BY <1>3 DEF ImportHeader
<1>4. CASE h # 1
  BY <1>2, <1>4 DEF ImportHeader
<1> QED
  BY <1>3, <1>4

\* A delivery transaction keeps the order of the nonces and of the dispatches: what
\* it dispatches was stored at the source, so it had been sent, and what it confirms
\* was received by the source at the header it proves.
LEMMA DeliveryKeepsLaneInv ==
    ASSUME LaneInv, ReceiveSomeMessagesProof
    PROVE  NonceOrder' /\ DispatchedInOrderOnce' /\ HeadersBehind'
<1>1. PICK relayer \in Relayers, h \in Slots, proveState \in BOOLEAN,
           start \in 1..(MaxNonce + 2), end \in 1..(MaxNonce + 1) :
        \E processed \in (start - 1)..end :
          ReceiveMessagesProof(relayer, sourceHeaders[h], proveState, start, end, processed)
  BY DEF ReceiveSomeMessagesProof
<1>2. PICK processed \in (start - 1)..end :
        ReceiveMessagesProof(relayer, sourceHeaders[h], proveState, start, end, processed)
  BY <1>1
<1>3. TypeOK /\ NonceOrder /\ DispatchedInOrderOnce /\ HeadersBehind
  BY DEF LaneInv
<1>4. sourceHeaders[h] \in SourceState
  BY <1>3 DEF TypeOK
<1>5. start \in Nat /\ end \in Int /\ processed \in Int /\ processed <= end
  BY LaneAssumption
<1>6. /\ inbound' \in InboundLaneData
      /\ inbound'.last_confirmed_nonce
           \in {inbound.last_confirmed_nonce, sourceHeaders[h].lane.latest_received_nonce}
      /\ \E accepted \in Nat :
           /\ LastDelivered(inbound') = LastDelivered(inbound) + accepted
           /\ accepted # 0 => /\ start <= LastDelivered(inbound) + 1
                              /\ LastDelivered(inbound) + accepted <= processed
           /\ Len(dispatched') = Len(dispatched) + accepted
           /\ \A i \in 1..Len(dispatched) : dispatched'[i] = dispatched[i]
           /\ \A i \in 1..accepted :
                dispatched'[Len(dispatched) + i].nonce = LastDelivered(inbound) + i
  BY <1>2, <1>3, <1>4, <1>5, DeliveryStep
<1>7. PICK accepted \in Nat :
           /\ LastDelivered(inbound') = LastDelivered(inbound) + accepted
           /\ accepted # 0 => /\ start <= LastDelivered(inbound) + 1
                              /\ LastDelivered(inbound) + accepted <= processed
           /\ Len(dispatched') = Len(dispatched) + accepted
           /\ \A i \in 1..Len(dispatched) : dispatched'[i] = dispatched[i]
           /\ \A i \in 1..accepted :
                dispatched'[Len(dispatched) + i].nonce = LastDelivered(inbound) + i
  BY <1>6
<1>8. /\ start..end \subseteq sourceHeaders[h].messages
      /\ UNCHANGED <<sourceVars, targetMode, sourceHeaders, targetHeaders, rewarded>>
  BY <1>2 DEF ReceiveMessagesProof, ProvesMessages
<1>9. /\ inbound.last_confirmed_nonce \in Nat
      /\ LastDelivered(inbound) \in Nat
      /\ outbound.latest_received_nonce \in Nat
      /\ outbound.latest_generated_nonce \in Nat
      /\ Len(dispatched) \in Nat
      /\ \A g \in Slots : /\ sourceHeaders[g].lane.latest_received_nonce \in Nat
                          /\ LastDelivered(targetHeaders[g]) \in Nat
  BY <1>3, NonceTypes
<1>10. LastDelivered(inbound) + accepted <= outbound.latest_generated_nonce
  <2>1. CASE accepted = 0
    BY <1>3, <1>9, <2>1 DEF NonceOrder
  <2>2. CASE accepted # 0
    <3>1. LastDelivered(inbound) + accepted \in start..end
      BY <1>5, <1>7, <1>9, <2>2, SMTT(40)
    <3>2. LastDelivered(inbound) + accepted \in sourceHeaders[h].messages
      BY <1>8, <3>1
    <3> QED
      BY <1>3, <3>2 DEF HeadersBehind
  <2> QED
    BY <2>1, <2>2
<1>11. /\ inbound'.last_confirmed_nonce <= outbound.latest_received_nonce
       /\ outbound' = outbound
  BY <1>3, <1>6, <1>8 DEF NonceOrder, HeadersBehind, sourceVars
<1>12. NonceOrder'
  BY <1>3, <1>7, <1>9, <1>10, <1>11 DEF NonceOrder
<1>13. DispatchedInOrderOnce'
  <2>1. Len(dispatched) = LastDelivered(inbound)
    BY <1>3 DEF DispatchedInOrderOnce
  <2>2. ASSUME NEW i \in 1..Len(dispatched') PROVE dispatched'[i].nonce = i
    <3>1. CASE i \in 1..Len(dispatched)
      BY <1>3, <1>7, <3>1 DEF DispatchedInOrderOnce
    <3>2. CASE i \notin 1..Len(dispatched)
      <4>1. /\ i - Len(dispatched) \in 1..accepted
            /\ Len(dispatched) + (i - Len(dispatched)) = i
        BY <1>7, <1>9, <3>2
      <4>2. dispatched'[Len(dispatched) + (i - Len(dispatched))].nonce
              = LastDelivered(inbound) + (i - Len(dispatched))
        BY <1>7, <4>1
      <4> QED
        BY <2>1, <4>1, <4>2
    <3> QED
      BY <3>1, <3>2
  <2> QED
    BY <1>7, <2>1, <2>2 DEF DispatchedInOrderOnce
<1>14. HeadersBehind'
  <2>1. LastDelivered(inbound) <= LastDelivered(inbound')
    BY <1>7, <1>9
  <2>2. \A g \in Slots : LastDelivered(targetHeaders[g]) <= LastDelivered(inbound')
    BY <1>3, <1>7, <1>9, <2>1 DEF HeadersBehind
  <2> QED
    BY <1>3, <1>8, <2>2 DEF HeadersBehind, sourceVars
<1> QED
  BY <1>12, <1>13, <1>14

\* A confirmation keeps the order of the nonces: the target state it proves is not
\* newer than the target.
LEMMA ConfirmationKeepsLaneInv ==
    ASSUME LaneInv, ReceiveSomeDeliveryProof
    PROVE  NonceOrder' /\ DispatchedInOrderOnce' /\ HeadersBehind'
<1>1. PICK h \in Slots : ReceiveMessagesDeliveryProof(targetHeaders[h])
  BY DEF ReceiveSomeDeliveryProof
<1>2. TypeOK /\ NonceOrder /\ DispatchedInOrderOnce /\ HeadersBehind
  BY DEF LaneInv
<1>3. targetHeaders[h] \in InboundLaneData
  BY <1>2 DEF TypeOK
<1>4. /\ outbound' = [outbound EXCEPT !.latest_received_nonce = LastDelivered(targetHeaders[h])]
      /\ outbound.latest_received_nonce < LastDelivered(targetHeaders[h])
  BY <1>1, <1>2, <1>3, ConfirmationStep
<1>5. /\ outbound'.latest_received_nonce = LastDelivered(targetHeaders[h])
      /\ outbound'.latest_generated_nonce = outbound.latest_generated_nonce
  BY <1>2, <1>4 DEF TypeOK, OutboundLaneData
<1>6. UNCHANGED <<inbound, outboundMessages, sourceHeaders, targetHeaders, dispatched>>
  BY <1>1 DEF ReceiveMessagesDeliveryProof, targetVars
<1>7. LastDelivered(targetHeaders[h]) <= LastDelivered(inbound)
  BY <1>2 DEF HeadersBehind
<1>8. /\ inbound.last_confirmed_nonce \in Nat
      /\ outbound.latest_received_nonce \in Nat
      /\ \A g \in Slots : /\ sourceHeaders[g].lane.latest_received_nonce \in Nat
                          /\ LastDelivered(targetHeaders[g]) \in Nat
  BY <1>2, NonceTypes
<1>9. NonceOrder'
  BY <1>2, <1>4, <1>5, <1>6, <1>7, <1>8 DEF NonceOrder
<1>10. DispatchedInOrderOnce'
  BY <1>2, <1>6 DEF DispatchedInOrderOnce
<1>11. HeadersBehind'
  BY <1>2, <1>4, <1>5, <1>6, <1>8 DEF HeadersBehind
<1> QED
  BY <1>9, <1>10, <1>11

\* Every step keeps the nonces of the two chains in order.
LEMMA NextLaneInv == LaneInv /\ [Next]_vars => LaneInv'
<1> SUFFICES ASSUME LaneInv, [Next]_vars PROVE LaneInv'
  OBVIOUS
<1>0. TypeOK /\ NonceOrder /\ DispatchedInOrderOnce /\ HeadersBehind
  BY DEF LaneInv
<1>t. TypeOK'
  BY <1>0, NextTypeOK
<1>n. /\ LastDelivered(inbound) \in Nat
      /\ outbound.latest_received_nonce \in Nat
      /\ outbound.latest_generated_nonce \in Nat
      /\ \A g \in Slots : sourceHeaders[g].messages \subseteq Nat
  BY <1>0, NonceTypes
<1>1. CASE SendMessage
  <2>1. /\ outbound'.latest_generated_nonce = outbound.latest_generated_nonce + 1
        /\ outbound'.latest_received_nonce = outbound.latest_received_nonce
        /\ outboundMessages' \subseteq
             outboundMessages \cup {outbound.latest_generated_nonce + 1}
    BY <1>0, <1>1, SendStep
  <2>2. UNCHANGED <<inbound, sourceHeaders, targetHeaders, dispatched>>
    BY <1>1 DEF SendMessage, targetVars
  <2>3. NonceOrder' /\ DispatchedInOrderOnce'
    BY <1>0, <1>n, <2>1, <2>2 DEF NonceOrder, DispatchedInOrderOnce
  <2>4. \A m \in outboundMessages' : m <= outbound'.latest_generated_nonce
    BY <1>0, <1>n, <2>1 DEF HeadersBehind, TypeOK
  <2>5. \A g \in Slots :
          \A m \in sourceHeaders[g].messages : m <= outbound'.latest_generated_nonce
    BY <1>0, <1>n, <2>1 DEF HeadersBehind
  <2>6. HeadersBehind'
    BY <1>0, <2>1, <2>2, <2>4, <2>5 DEF HeadersBehind
  <2> QED
    BY <1>t, <2>3, <2>6 DEF LaneInv
<1>2. CASE ReceiveSomeMessagesProof
  BY <1>2, <1>t, DeliveryKeepsLaneInv DEF LaneInv
<1>3. CASE ReceiveSomeDeliveryProof
  BY <1>3, <1>t, ConfirmationKeepsLaneInv DEF LaneInv
<1>4. CASE ImportSourceHeader
  <2> DEFINE state == [lane |-> outbound, messages |-> outboundMessages]
  <2>1. /\ sourceHeaders' = ImportHeader(sourceHeaders, state)
        /\ UNCHANGED <<outbound, outboundMessages, inbound, targetHeaders, dispatched>>
    BY <1>4 DEF ImportSourceHeader, sourceVars, targetVars
  <2>2. ASSUME NEW h \in Slots
        PROVE  /\ sourceHeaders'[h].lane.latest_received_nonce <= outbound.latest_received_nonce
               /\ \A m \in sourceHeaders'[h].messages : m <= outbound.latest_generated_nonce
    <3>1. CASE sourceHeaders'[h] = state
      BY <1>0, <1>n, <3>1 DEF HeadersBehind
    <3>2. CASE \E g \in Slots : sourceHeaders'[h] = sourceHeaders[g]
      BY <1>0, <3>2 DEF HeadersBehind
    <3> HIDE DEF state
    <3> QED
      BY <2>1, <3>1, <3>2, ImportHeaderProperties
  <2>3. HeadersBehind'
    BY <1>0, <2>1, <2>2 DEF HeadersBehind
  <2>4. NonceOrder' /\ DispatchedInOrderOnce'
    BY <1>0, <2>1 DEF NonceOrder, DispatchedInOrderOnce
  <2> QED
    BY <1>t, <2>3, <2>4 DEF LaneInv
<1>5. CASE ImportTargetHeader
  <2>1. /\ targetHeaders' = ImportHeader(targetHeaders, inbound)
        /\ UNCHANGED <<outbound, outboundMessages, inbound, sourceHeaders, dispatched>>
    BY <1>5 DEF ImportTargetHeader, sourceVars, targetVars
  <2>2. ASSUME NEW h \in Slots
        PROVE  LastDelivered(targetHeaders'[h]) <= LastDelivered(inbound)
    <3>1. CASE targetHeaders'[h] = inbound
      BY <1>n, <3>1
    <3>2. CASE \E g \in Slots : targetHeaders'[h] = targetHeaders[g]
      BY <1>0, <3>2 DEF HeadersBehind
    <3> QED
      BY <2>1, <3>1, <3>2, ImportHeaderProperties
  <2>3. HeadersBehind'
    BY <1>0, <2>1, <2>2 DEF HeadersBehind
  <2>4. NonceOrder' /\ DispatchedInOrderOnce'
    BY <1>0, <2>1 DEF NonceOrder, DispatchedInOrderOnce
  <2> QED
    BY <1>t, <2>3, <2>4 DEF LaneInv
<1>6. ASSUME UNCHANGED <<outbound, outboundMessages, inbound, sourceHeaders,
                         targetHeaders, dispatched>>
      PROVE  LaneInv'
  BY <1>0, <1>t, <1>6 DEF LaneInv, NonceOrder, DispatchedInOrderOnce, HeadersBehind
<1>7. CASE \E mode \in Modes : SetSourceMode(mode)
  BY <1>6, <1>7 DEF SetSourceMode, targetVars
<1>8. CASE \E mode \in Modes : SetTargetMode(mode)
  BY <1>6, <1>8 DEF SetTargetMode, sourceVars
<1>9. CASE UNCHANGED vars
  BY <1>6, <1>9 DEF vars
<1> QED
  BY <1>1, <1>2, <1>3, <1>4, <1>5, <1>7, <1>8, <1>9 DEF Next

\* The inductive invariant of the nonces holds in every reachable state.
LEMMA LaneInvariant == Spec => []LaneInv
<1> QED
  BY InitLaneInv, NextLaneInv, PTL DEF Spec

\* The chains agree on how far the lane is: confirmed <= received <= delivered <=
\* generated, whatever stale, repeated or reordered proofs are submitted.
THEOREM NoncesInOrder == Spec => []NonceOrder
<1>1. LaneInv => NonceOrder
  BY DEF LaneInv
<1> QED
  BY <1>1, LaneInvariant, PTL

\* The target dispatches every message once, in the order of nonces.
THEOREM ExactlyOnceDispatch == Spec => []DispatchedInOrderOnce
<1>1. LaneInv => DispatchedInOrderOnce
  BY DEF LaneInv
<1> QED
  BY <1>1, LaneInvariant, PTL

\* receive_state_update never takes its "should never happen" return: the lane state
\* of a kept source header confirms no more than was delivered.
THEOREM NoStateUpdateAhead == Spec => []StateUpdatesNeverAhead
<1>1. LaneInv => StateUpdatesNeverAhead
  <2> SUFFICES ASSUME LaneInv, NEW h \in Slots
               PROVE  sourceHeaders[h].lane.latest_received_nonce <= LastDelivered(inbound)
    BY DEF StateUpdatesNeverAhead
  <2>1. TypeOK /\ NonceOrder /\ HeadersBehind
    BY DEF LaneInv
  <2>2. /\ sourceHeaders[h].lane.latest_received_nonce \in Nat
        /\ outbound.latest_received_nonce \in Nat
        /\ LastDelivered(inbound) \in Nat
    BY <2>1, NonceTypes
  <2> QED
    BY <2>1, <2>2 DEF NonceOrder, HeadersBehind
<1> QED
  BY <1>1, LaneInvariant, PTL

-----------------------------------------------------------------------------
(* The stored and the pending messages of the source. *)

\* prune_messages stops at the received nonce and never goes back.
LEMMA LastPrunedProperties ==
    ASSUME NEW lane \in OutboundLaneData
    PROVE  /\ LastPruned(lane) \in Int
           /\ LastPruned(lane) + 1 >= lane.oldest_unpruned_nonce
           /\ lane.oldest_unpruned_nonce <= lane.latest_received_nonce + 1 =>
                LastPruned(lane) <= lane.latest_received_nonce
<1>1. /\ lane.oldest_unpruned_nonce \in Nat
      /\ lane.latest_received_nonce \in Nat
      /\ MaxMessagesToPruneAtOnce \in Nat
  BY LaneAssumption DEF OutboundLaneData
<1> QED
  BY <1>1 DEF LastPruned, Lesser

\* A step that sends nothing leaves the stored messages alone, and receives at most
\* what was generated.
LEMMA OtherSourceSteps ==
    ASSUME TypeOK, [Next]_vars, ~SendMessage
    PROVE  /\ outboundMessages' = outboundMessages
           /\ outbound'.oldest_unpruned_nonce = outbound.oldest_unpruned_nonce
           /\ outbound'.latest_generated_nonce = outbound.latest_generated_nonce
           /\ outbound'.latest_received_nonce \in Nat
           /\ outbound'.latest_received_nonce >= outbound.latest_received_nonce
<1>0. outbound \in OutboundLaneData
  BY DEF TypeOK
<1>1. CASE ReceiveSomeDeliveryProof
  <2>1. PICK h \in Slots : ReceiveMessagesDeliveryProof(targetHeaders[h])
    BY <1>1 DEF ReceiveSomeDeliveryProof
  <2>2. targetHeaders[h] \in InboundLaneData
    BY DEF TypeOK
  <2>3. /\ outbound' = [outbound EXCEPT !.latest_received_nonce = LastDelivered(targetHeaders[h])]
        /\ outbound.latest_received_nonce < LastDelivered(targetHeaders[h])
        /\ LastDelivered(targetHeaders[h]) \in Nat
    BY <2>1, <2>2, ConfirmationStep, LastDeliveredType
  <2>4. outboundMessages' = outboundMessages
    BY <2>1 DEF ReceiveMessagesDeliveryProof
  <2> QED
    BY <1>0, <2>3, <2>4 DEF OutboundLaneData
<1>2. CASE UNCHANGED <<outbound, outboundMessages>>
  BY <1>0, <1>2 DEF OutboundLaneData
<1>3. ASSUME ~ReceiveSomeDeliveryProof PROVE UNCHANGED <<outbound, outboundMessages>>
  <2>1. CASE ReceiveSomeMessagesProof
    BY <2>1 DEF ReceiveSomeMessagesProof, ReceiveMessagesProof, sourceVars
  <2>2. CASE ImportSourceHeader
    BY <2>2 DEF ImportSourceHeader, sourceVars
  <2>3. CASE ImportTargetHeader
    BY <2>3 DEF ImportTargetHeader, sourceVars
  <2>4. CASE \E mode \in Modes : SetSourceMode(mode)
    BY <2>4 DEF SetSourceMode
  <2>5. CASE \E mode \in Modes : SetTargetMode(mode)
    BY <2>5 DEF SetTargetMode, sourceVars
  <2>6. CASE UNCHANGED vars
    BY <2>6 DEF vars
  <2> QED
    BY <1>3, <2>1, <2>2, <2>3, <2>4, <2>5, <2>6 DEF Next
<1> QED
  BY <1>1, <1>2, <1>3

\* Sending and pruning keep exactly the unpruned messages, and confirmations only
\* widen what may be pruned.
LEMMA NextStoredMessages ==
    ASSUME LaneInv, StoredMessagesExact, [Next]_vars PROVE StoredMessagesExact'
<1>0. TypeOK /\ NonceOrder
  BY DEF LaneInv
<1>1. /\ outbound.oldest_unpruned_nonce \in Nat
      /\ outbound.latest_received_nonce \in Nat
      /\ outbound.latest_generated_nonce \in Nat
      /\ LastDelivered(inbound) \in Nat
  BY <1>0, NonceTypes
<1>2. CASE SendMessage
  <2> DEFINE oldest == outbound.oldest_unpruned_nonce
             generated == outbound.latest_generated_nonce
             pruned == LastPruned(outbound)
  <2>1. /\ outbound'.latest_generated_nonce = generated + 1
        /\ outbound'.latest_received_nonce = outbound.latest_received_nonce
        /\ outbound'.oldest_unpruned_nonce = pruned + 1
    BY <1>0, <1>2, SendStep
  <2>2. outboundMessages' = (outboundMessages \cup {generated + 1}) \ (oldest..pruned)
    BY <1>2 DEF SendMessage
  <2>3. /\ outboundMessages = oldest..generated
        /\ oldest <= outbound.latest_received_nonce + 1
    BY DEF StoredMessagesExact
  <2>4. /\ pruned \in Int /\ pruned + 1 >= oldest
        /\ pruned <= outbound.latest_received_nonce
    BY <1>0, <2>3, LastPrunedProperties DEF TypeOK
  <2>5. outbound.latest_received_nonce <= generated
    BY <1>0, <1>1 DEF NonceOrder
  <2> HIDE DEF pruned, oldest, generated
  <2>6. outboundMessages' = (pruned + 1)..(generated + 1)
    BY <1>1, <2>2, <2>3, <2>4, <2>5, SMTT(40) DEF oldest, generated
  <2> QED
    BY <1>1, <2>1, <2>4, <2>6 DEF StoredMessagesExact
<1>3. CASE ~SendMessage
  <2>1. /\ outboundMessages' = outboundMessages
        /\ outbound'.oldest_unpruned_nonce = outbound.oldest_unpruned_nonce
        /\ outbound'.latest_generated_nonce = outbound.latest_generated_nonce
        /\ outbound'.latest_received_nonce \in Nat
        /\ outbound'.latest_received_nonce >= outbound.latest_received_nonce
    BY <1>0, <1>3, OtherSourceSteps
  <2> QED
    BY <1>1, <2>1 DEF StoredMessagesExact
<1> QED
  BY <1>2, <1>3

\* No message that the target may still need is pruned, and none is left behind.
THEOREM PruningIsSafe == Spec => []StoredMessagesExact
<1>1. Init => StoredMessagesExact
  <2> SUFFICES ASSUME Init PROVE StoredMessagesExact
    OBVIOUS
  <2>1. 1..0 = {}
    OBVIOUS
  <2> QED
    BY <2>1 DEF Init, StoredMessagesExact, InitOutboundLane
<1>2. LaneInv /\ StoredMessagesExact /\ [Next]_vars => StoredMessagesExact'
  BY NextStoredMessages
<1> QED
  BY <1>1, <1>2, LaneInvariant, PTL DEF Spec

\* The number of undelivered messages stays within the verifier's limit plus one.
THEOREM PendingBounded == Spec => []PendingMessagesBounded
<1>1. Init => PendingMessagesBounded
  BY LaneAssumption DEF Init, PendingMessagesBounded, InitOutboundLane
<1>2. TypeOK /\ PendingMessagesBounded /\ [Next]_vars => PendingMessagesBounded'
  <2> SUFFICES ASSUME TypeOK, PendingMessagesBounded, [Next]_vars
               PROVE  PendingMessagesBounded'
    OBVIOUS
  <2>1. /\ outbound.latest_received_nonce \in Nat
        /\ outbound.latest_generated_nonce \in Nat
        /\ MaxPendingMessages \in Nat
    BY NonceTypes, LaneAssumption
  <2>2. CASE SendMessage
    <3>1. /\ outbound'.latest_generated_nonce = outbound.latest_generated_nonce + 1
          /\ outbound'.latest_received_nonce = outbound.latest_received_nonce
      BY <2>2, SendStep
    <3>2. outbound.latest_generated_nonce - outbound.latest_received_nonce <= MaxPendingMessages
      BY <2>2 DEF SendMessage, AcceptedByLaneVerifier
    <3> QED
      BY <2>1, <3>1, <3>2 DEF PendingMessagesBounded
  <2>3. CASE ~SendMessage
    <3>1. /\ outbound'.latest_generated_nonce = outbound.latest_generated_nonce
          /\ outbound'.latest_received_nonce \in Nat
          /\ outbound'.latest_received_nonce >= outbound.latest_received_nonce
      BY <2>3, OtherSourceSteps
    <3> QED
      BY <2>1, <3>1 DEF PendingMessagesBounded
  <2> QED
    BY <2>2, <2>3
<1> QED
  BY <1>1, <1>2, TypeCorrectness, PTL DEF Spec

-----------------------------------------------------------------------------
(* Stale proofs. *)

\* The nonces of the target move only with a delivery, and only forward.
LEMMA TargetSteps ==
    ASSUME TypeOK, [Next]_vars
    PROVE  /\ inbound'.last_confirmed_nonce >= inbound.last_confirmed_nonce
           /\ LastDelivered(inbound') >= LastDelivered(inbound)
<1>0. inbound.last_confirmed_nonce \in Nat /\ LastDelivered(inbound) \in Nat
  BY NonceTypes
<1>1. CASE ReceiveSomeMessagesProof
  <2>1. PICK relayer \in Relayers, h \in Slots, proveState \in BOOLEAN,
             start \in 1..(MaxNonce + 2), end \in 1..(MaxNonce + 1) :
          \E processed \in (start - 1)..end :
            ReceiveMessagesProof(relayer, sourceHeaders[h], proveState, start, end, processed)
    BY <1>1 DEF ReceiveSomeMessagesProof
  <2>2. PICK processed \in (start - 1)..end :
          ReceiveMessagesProof(relayer, sourceHeaders[h], proveState, start, end, processed)
    BY <2>1
  <2>3. sourceHeaders[h] \in SourceState
    BY DEF TypeOK
  <2>4. start \in Nat /\ end \in Int /\ processed \in Int
    BY LaneAssumption
  <2>5. /\ inbound'.last_confirmed_nonce >= inbound.last_confirmed_nonce
        /\ \E accepted \in Nat : LastDelivered(inbound') = LastDelivered(inbound) + accepted
    BY <2>2, <2>3, <2>4, DeliveryStep
  <2> QED
    BY <1>0, <2>5
<1>2. ASSUME ~ReceiveSomeMessagesProof PROVE inbound' = inbound
  <2>1. CASE SendMessage
    BY <2>1 DEF SendMessage, targetVars
  <2>2. CASE ReceiveSomeDeliveryProof
    BY <2>2 DEF ReceiveSomeDeliveryProof, ReceiveMessagesDeliveryProof, targetVars
  <2>3. CASE ImportSourceHeader
    BY <2>3 DEF ImportSourceHeader, targetVars
  <2>4. CASE ImportTargetHeader
    BY <2>4 DEF ImportTargetHeader, targetVars
  <2>5. CASE \E mode \in Modes : SetSourceMode(mode)
    BY <2>5 DEF SetSourceMode, targetVars
  <2>6. CASE \E mode \in Modes : SetTargetMode(mode)
    BY <2>6 DEF SetTargetMode
  <2>7. CASE UNCHANGED vars
    BY <2>7 DEF vars
  <2> QED
    BY <1>2, <2>1, <2>2, <2>3, <2>4, <2>5, <2>6, <2>7 DEF Next
<1>3. CASE inbound' = inbound
  BY <1>0, <1>3
<1> QED
  BY <1>1, <1>2, <1>3

\* No step, whatever stale proof it carries, moves a nonce of either chain back.
THEOREM NoRewind == Spec => LaneNeverRewinds
<1> DEFINE Forward == /\ inbound'.last_confirmed_nonce >= inbound.last_confirmed_nonce
                      /\ LastDelivered(inbound') >= LastDelivered(inbound)
                      /\ outbound'.latest_received_nonce >= outbound.latest_received_nonce
                      /\ outbound'.oldest_unpruned_nonce >= outbound.oldest_unpruned_nonce
<1>1. TypeOK /\ [Next]_vars => [Forward]_vars
  <2> SUFFICES ASSUME TypeOK, [Next]_vars PROVE Forward
    OBVIOUS
  <2>0. /\ outbound.oldest_unpruned_nonce \in Nat
        /\ outbound.latest_received_nonce \in Nat
    BY NonceTypes
  <2>1. CASE SendMessage
    <3>1. /\ outbound'.latest_received_nonce = outbound.latest_received_nonce
          /\ outbound'.oldest_unpruned_nonce = LastPruned(outbound) + 1
      BY <2>1, SendStep
    <3>2. LastPruned(outbound) + 1 >= outbound.oldest_unpruned_nonce
      BY LastPrunedProperties DEF TypeOK
    <3> QED
      BY <2>0, <3>1, <3>2, TargetSteps
  <2>2. CASE ~SendMessage
    <3>1. /\ outbound'.oldest_unpruned_nonce = outbound.oldest_unpruned_nonce
          /\ outbound'.latest_received_nonce >= outbound.latest_received_nonce
      BY <2>2, OtherSourceSteps
    <3> QED
      BY <2>0, <3>1, TargetSteps
  <2> QED
    BY <2>1, <2>2
<1> QED
  BY <1>1, TypeCorrectness, PTL DEF Spec, LaneNeverRewinds

-----------------------------------------------------------------------------
(* The operations of the inbound lane on its queue. *)

\* The entry that receive_state_update trims starts at the confirmed nonce or right
\* after it, and its results stay aligned with its messages.
LEMMA TrimEntryAligned ==
    ASSUME NEW e \in UnrewardedRelayer, NEW n \in Nat,
           e.begin <= e.end, e.end > n, e.begin <= n + 1,
           Len(e.dispatch_results) = e.end - e.begin + 1
    PROVE  LET t == TrimEntry(e, n)
           IN  /\ t \in UnrewardedRelayer
               /\ t.relayer = e.relayer
               /\ t.end = e.end
               /\ t.begin \in {n, n + 1}
               /\ t.begin >= e.begin
               /\ t.begin <= t.end
               /\ Len(t.dispatch_results) = t.end - t.begin + 1
               /\ \A m \in t.begin..t.end :
                    t.dispatch_results[m - t.begin + 1] = e.dispatch_results[m - e.begin + 1]
<1> DEFINE r == e.dispatch_results
           from == n + 1 - e.begin + 1
           results == SubSeq(r, from, Len(r))
<1>1. /\ e.relayer \in Relayers /\ e.begin \in Nat /\ e.end \in Nat
      /\ r \in Seq(BOOLEAN)
      /\ e = [relayer |-> e.relayer, begin |-> e.begin, end |-> e.end,
              dispatch_results |-> r]
  BY DEF UnrewardedRelayer
<1>2. TrimEntry(e, n) \in UnrewardedRelayer
  BY TrimEntryProperties
<1>3. CASE e.begin < n
  <2>1. TrimEntry(e, n) = [relayer |-> e.relayer, begin |-> n + 1, end |-> e.end,
                           dispatch_results |-> results]
    BY <1>1, <1>3 DEF TrimEntry
  <2>2. from \in Nat /\ from >= 1 /\ Len(r) \in Nat /\ from <= Len(r)
        /\ Len(r) - from + 1 = e.end - n
    BY <1>1, <1>3, SMTT(40)
  <2>3. \A i \in from..Len(r) : r[i] \in BOOLEAN
    BY <1>1, <2>2, ElementOfSeq, SMTT(40)
  <2>4. /\ Len(results) = e.end - n
        /\ \A i \in 1..(e.end - n) : results[i] = r[from + i - 1]
    <3> HIDE DEF from, r
    <3>1. /\ Len(results) = IF from <= Len(r) THEN Len(r) - from + 1 ELSE 0
          /\ \A i \in 1..(Len(r) - from + 1) : results[i] = r[from + i - 1]
      BY <2>2, <2>3, SubSeqProperties
    <3> HIDE DEF results
    <3> QED
      BY <2>2, <3>1
  <2> HIDE DEF results
  <2>5. Len(results) = e.end - (n + 1) + 1
    BY <1>1, <2>4
  <2>6. \A m \in (n + 1)..e.end : results[m - (n + 1) + 1] = r[m - e.begin + 1]
    <3> TAKE m \in (n + 1)..e.end
    <3>1. m - (n + 1) + 1 \in 1..(e.end - n)
      BY <1>1
    <3>2. from + (m - (n + 1) + 1) - 1 = m - e.begin + 1
      BY <1>1, SMTT(40)
    <3> HIDE DEF from, r
    <3> QED
      BY <2>4, <3>1, <3>2
  <2> HIDE DEF results, from, r
  <2>7. /\ TrimEntry(e, n).relayer = e.relayer
        /\ TrimEntry(e, n).begin = n + 1
        /\ TrimEntry(e, n).end = e.end
        /\ TrimEntry(e, n).dispatch_results = results
    BY <2>1
  <2>8. n + 1 >= e.begin /\ n + 1 <= e.end
    BY <1>1, <1>3
  <2> QED
    BY <1>2, <2>5, <2>6, <2>7, <2>8 DEF r
<1>4. CASE ~(e.begin < n)
  <2>1. TrimEntry(e, n) = e
    BY <1>4 DEF TrimEntry
  <2>2. e.begin \in {n, n + 1}
    BY <1>1, <1>4
  <2> QED
    BY <1>1, <1>2, <2>1, <2>2
<1> QED
  BY <1>3, <1>4

\* What the properties of a queue say of one entry of it.
LEMMA QueueEntry ==
    ASSUME NEW lane \in InboundLaneData, NEW log,
           QueueConsecutive(lane), QueueFaithful(lane, log), NEW i \in 1..Len(lane.relayers)
    PROVE  LET e == lane.relayers[i]
           IN  /\ e \in UnrewardedRelayer
               /\ e.begin \in Nat /\ e.end \in Nat
               /\ 1 <= e.begin /\ e.begin <= e.end /\ e.end <= LastDelivered(lane)
               /\ Len(e.dispatch_results) = e.end - e.begin + 1
               /\ \A n \in e.begin..e.end : /\ log[n].relayer = e.relayer
                                            /\ log[n].result = e.dispatch_results[n - e.begin + 1]
<1>1. lane.relayers \in Seq(UnrewardedRelayer)
  BY DEF InboundLaneData
<1>2. lane.relayers[i] \in UnrewardedRelayer /\ lane.relayers[i].begin \in Nat
        /\ lane.relayers[i].end \in Nat
  BY <1>1, EntryType
<1> QED
  BY <1>2 DEF QueueConsecutive, QueueFaithful

\* receive_state_update leaves a well-formed queue that tells the truth about the
\* same log, and adds no entry to it.
LEMMA ReceiveStateUpdateKeepsQueue ==
    ASSUME NEW lane \in InboundLaneData, NEW n \in Nat, NEW log,
           QueueConsecutive(lane), QueueFaithful(lane, log)
    PROVE  LET new == ReceiveStateUpdate(lane, n)
           IN  /\ QueueConsecutive(new)
               /\ QueueFaithful(new, log)
               /\ Len(new.relayers) <= Len(lane.relayers)
<1> DEFINE q == lane.relayers
           new == ReceiveStateUpdate(lane, n)
           first == FirstUnconfirmed(q, n)
           len == Len(q) - first + 1
           d == new.relayers
<1>0. /\ q \in Seq(UnrewardedRelayer) /\ lane.last_confirmed_nonce \in Nat
      /\ Len(q) \in Nat
  BY LenProperties DEF InboundLaneData
<1>1. CASE n > LastDelivered(lane) \/ n <= lane.last_confirmed_nonce
  BY <1>0, <1>1 DEF ReceiveStateUpdate
<1>2. CASE ~(n > LastDelivered(lane) \/ n <= lane.last_confirmed_nonce)
  <2>1. new = [relayers |-> DropConfirmed(q, n), last_confirmed_nonce |-> n]
    BY <1>2 DEF ReceiveStateUpdate
  <2>2. /\ first \in 1..(Len(q) + 1)
        /\ \A j \in 1..(first - 1) : q[j].end <= n
        /\ first <= Len(q) => q[first].end > n
    BY <1>0, FirstUnconfirmedProperties
  <2>3. /\ new \in InboundLaneData
        /\ LastDelivered(new) = LastDelivered(lane)
    BY ReceiveStateUpdateProperties
  <2>4. d = [i \in 1..len |-> IF i = 1 THEN TrimEntry(q[first], n) ELSE q[first + i - 1]]
    BY <2>1 DEF DropConfirmed
  <2>5. new.last_confirmed_nonce = n
    BY <2>1
  <2> HIDE DEF first, new, d
  <2>6. len \in Nat /\ len <= Len(q)
    BY <1>0, <2>2
  <2>7. d \in Seq(UnrewardedRelayer)
    BY <2>3 DEF InboundLaneData, d
  <2>8. Len(d) = len
    <3>1. DOMAIN d = 1..len /\ DOMAIN d = 1..Len(d) /\ Len(d) \in Nat
      BY <2>4, <2>7, LenProperties
    <3> QED
      BY <2>6, <3>1
  <2>9. \A i \in 1..len : i # 1 => d[i] = q[first + i - 1] /\ first + i - 1 \in 1..Len(q)
    BY <1>0, <2>2, <2>4
  <2>10. ASSUME len # 0
         PROVE  /\ first \in 1..Len(q)
                /\ d[1] = TrimEntry(q[first], n)
                /\ d[1].relayer = q[first].relayer
                /\ d[1].end = q[first].end
                /\ d[1].begin \in {n, n + 1}
                /\ d[1].begin \in Nat /\ d[1].end \in Nat
                /\ d[1].begin >= q[first].begin
                /\ d[1].begin <= d[1].end
                /\ d[1].end > n
                /\ Len(d[1].dispatch_results) = d[1].end - d[1].begin + 1
                /\ \A m \in d[1].begin..d[1].end :
                     d[1].dispatch_results[m - d[1].begin + 1]
                       = q[first].dispatch_results[m - q[first].begin + 1]
    <3>1. first \in 1..Len(q) /\ 1 \in 1..len
      BY <1>0, <2>2, <2>6, <2>10
    <3>2. d[1] = TrimEntry(q[first], n)
      BY <2>4, <3>1
    <3>3. /\ q[first] \in UnrewardedRelayer
          /\ q[first].begin \in Nat /\ q[first].end \in Nat
          /\ q[first].begin <= q[first].end
          /\ Len(q[first].dispatch_results) = q[first].end - q[first].begin + 1
      BY <3>1, QueueEntry
    <3>4. q[first].end > n
      BY <2>2, <3>1
    <3>5. q[first].begin <= n + 1
      <4>1. CASE first = 1
        <5>1. q # <<>>
          BY <1>0, <3>1, EmptySeq
        <5>2. q[1].begin \in {lane.last_confirmed_nonce, lane.last_confirmed_nonce + 1}
          BY <5>1 DEF QueueConsecutive
        <5> QED
          BY <1>0, <1>2, <4>1, <5>2
      <4>2. CASE first # 1
        <5>1. first - 1 \in 1..Len(q) /\ first - 1 \in 1..(first - 1) /\ first > 1
          BY <1>0, <3>1, <4>2
        <5>2. q[first].begin = q[first - 1].end + 1
          BY <3>1, <5>1 DEF QueueConsecutive
        <5>3. q[first - 1].end <= n /\ q[first - 1].end \in Nat
          BY <1>0, <2>2, <5>1, EntryType
        <5> QED
          BY <5>2, <5>3
      <4> QED
        BY <4>1, <4>2
    <3>6. LET t == TrimEntry(q[first], n)
          IN  /\ t \in UnrewardedRelayer
              /\ t.relayer = q[first].relayer
              /\ t.end = q[first].end
              /\ t.begin \in {n, n + 1}
              /\ t.begin >= q[first].begin
              /\ t.begin <= t.end
              /\ Len(t.dispatch_results) = t.end - t.begin + 1
              /\ \A m \in t.begin..t.end :
                   t.dispatch_results[m - t.begin + 1]
                     = q[first].dispatch_results[m - q[first].begin + 1]
      BY <3>3, <3>4, <3>5, TrimEntryAligned
    <3>7. d[1].begin \in Nat /\ d[1].end \in Nat
      BY <3>2, <3>3, <3>6
    <3> QED
      BY <3>1, <3>2, <3>4, <3>6, <3>7
  <2>11. QueueConsecutive(new)
    <3>1. ASSUME NEW i \in 1..Len(d)
          PROVE  /\ d[i].begin <= d[i].end
                 /\ Len(d[i].dispatch_results) = d[i].end - d[i].begin + 1
                 /\ i > 1 => d[i].begin = d[i - 1].end + 1
      <4>0. i \in 1..len /\ len # 0
        BY <2>6, <2>8
      <4>1. CASE i = 1
        BY <2>10, <4>0, <4>1
      <4>2. CASE i # 1
        <5> DEFINE k == first + i - 1
        <5>1. d[i] = q[k] /\ k \in 1..Len(q)
          BY <2>9, <4>0, <4>2
        <5>2. k > 1
          BY <2>2, <4>0, <4>2
        <5>3. d[i - 1].end = q[k - 1].end
          <6>1. CASE i = 2
            <7>1. i - 1 = 1 /\ k - 1 = first
              BY <2>2, <6>1
            <7> HIDE DEF k
            <7> QED
              BY <2>10, <4>0, <7>1
          <6>2. CASE i # 2
            <7>1. i - 1 \in 1..len /\ i - 1 # 1 /\ first + (i - 1) - 1 = k - 1
              BY <2>2, <2>6, <4>0, <4>2, <6>2
            <7>2. d[i - 1] = q[first + (i - 1) - 1]
              BY <2>9, <7>1
            <7> HIDE DEF k
            <7> QED
              BY <7>1, <7>2
          <6> QED
            BY <6>1, <6>2
        <5> HIDE DEF k
        <5>4. /\ q[k].begin <= q[k].end
              /\ Len(q[k].dispatch_results) = q[k].end - q[k].begin + 1
              /\ q[k].begin = q[k - 1].end + 1
          BY <5>1, <5>2 DEF QueueConsecutive
        <5> QED
          BY <5>1, <5>3, <5>4
      <4> QED
        BY <4>1, <4>2
    <3>2. d # <<>> => d[1].begin \in {n, n + 1} /\ d[1].end > n
      BY <2>6, <2>7, <2>8, <2>10, EmptySeq
    <3> QED
      BY <2>5, <3>1, <3>2 DEF QueueConsecutive, d
  <2>12. QueueFaithful(new, log)
    <3>1. ASSUME NEW i \in 1..Len(d)
          PROVE  /\ 1 <= d[i].begin
                 /\ d[i].end <= LastDelivered(new)
                 /\ \A m \in d[i].begin..d[i].end :
                      /\ log[m].relayer = d[i].relayer
                      /\ log[m].result = d[i].dispatch_results[m - d[i].begin + 1]
      <4>0. i \in 1..len /\ len # 0
        BY <2>6, <2>8
      <4>1. CASE i = 1
        <5>1. /\ q[first].begin \in Nat /\ q[first].end \in Nat
              /\ 1 <= q[first].begin
              /\ q[first].end <= LastDelivered(lane)
              /\ \A m \in q[first].begin..q[first].end :
                   /\ log[m].relayer = q[first].relayer
                   /\ log[m].result = q[first].dispatch_results[m - q[first].begin + 1]
          <6>1. first \in 1..Len(q)
            BY <2>10, <4>0
          <6> HIDE DEF q
          <6> QED
            BY <6>1, QueueEntry DEF q
        <5>2. 1 <= d[1].begin /\ d[1].end <= LastDelivered(new)
          <6>1. d[1].begin \in Nat /\ d[1].begin >= q[first].begin /\ d[1].end = q[first].end
            BY <2>10, <4>0
          <6>2. LastDelivered(new) = LastDelivered(lane)
            BY <2>3
          <6> HIDE DEF q
          <6> QED BY <5>1, <6>1, <6>2
        <5>3. ASSUME NEW m \in d[1].begin..d[1].end
              PROVE  /\ log[m].relayer = d[1].relayer
                     /\ log[m].result = d[1].dispatch_results[m - d[1].begin + 1]
          <6>1. /\ d[1].begin \in Nat /\ d[1].end = q[first].end
                /\ d[1].begin >= q[first].begin
            BY <2>10, <4>0
          <6>2. m \in q[first].begin..q[first].end
            BY <5>1, <6>1
          <6> QED
            BY <2>10, <4>0, <5>1, <6>2
        <5> QED
          BY <4>1, <5>2, <5>3
      <4>2. CASE i # 1
        <5> DEFINE k == first + i - 1
        <5>1. d[i] = q[k] /\ k \in 1..Len(q)
          BY <2>9, <4>0, <4>2
        <5> HIDE DEF k
        <5>2. /\ 1 <= q[k].begin
              /\ q[k].end <= LastDelivered(lane)
              /\ \A m \in q[k].begin..q[k].end :
                   /\ log[m].relayer = q[k].relayer
                   /\ log[m].result = q[k].dispatch_results[m - q[k].begin + 1]
          BY <5>1, QueueEntry
        <5> QED
          BY <2>3, <5>1, <5>2
      <4> QED
        BY <4>1, <4>2
    <3> QED
      BY <3>1 DEF QueueFaithful, d
  <2> QED
    BY <2>6, <2>8, <2>11, <2>12 DEF d, new
<1> QED
  BY <1>1, <1>2

\* The queue after a batch of the back entry's relayer was dispatched: the back
\* entry is longer, the others are left alone.
LEMMA NoteDispatchedExtends ==
    ASSUME NEW lane \in InboundLaneData, NEW relayer \in Relayers, NEW first \in Nat,
           NEW results \in Seq(BOOLEAN), results # <<>>, first = LastDelivered(lane) + 1,
           ExtendsBack(lane, relayer)
    PROVE  LET q == lane.relayers
               e == q[Len(q)]
               p == NoteDispatched(lane, relayer, first, results).relayers
           IN  /\ q # <<>>
               /\ Len(p) = Len(q)
               /\ \A j \in 1..(Len(q) - 1) : p[j] = q[j]
               /\ e.relayer = relayer
               /\ p[Len(q)] = [relayer |-> relayer, begin |-> e.begin,
                               end |-> e.end + Len(results),
                               dispatch_results |-> e.dispatch_results \o results]
<1> DEFINE q == lane.relayers
           back == Len(q)
           e == q[back]
           f == [e EXCEPT !.end = @ + Len(results), !.dispatch_results = @ \o results]
           p == NoteDispatched(lane, relayer, first, results).relayers
<1>0. /\ q \in Seq(UnrewardedRelayer) /\ Len(q) \in Nat
      /\ lane = [relayers |-> q, last_confirmed_nonce |-> lane.last_confirmed_nonce]
  BY LenProperties DEF InboundLaneData
<1>1. q # <<>> /\ back \in 1..Len(q) /\ e.relayer = relayer
  BY <1>0, EmptySeq DEF ExtendsBack
<1>2. e \in UnrewardedRelayer
  BY <1>0, <1>1, ElementOfSeq
<1>3. f = [relayer |-> relayer, begin |-> e.begin, end |-> e.end + Len(results),
           dispatch_results |-> e.dispatch_results \o results]
  <2> HIDE DEF e
  <2> QED
    BY <1>1, <1>2, ExtendedEntry
<1> HIDE DEF f
<1>4. p = [q EXCEPT ![back] = f]
  BY <1>0, <1>1 DEF NoteDispatched, f
<1>5. Len(p) = Len(q)
  <2>1. NoteDispatched(lane, relayer, first, results) \in InboundLaneData
    BY NoteDispatchedProperties
  <2>2. p \in Seq(UnrewardedRelayer)
    BY <2>1 DEF InboundLaneData
  <2> HIDE DEF p
  <2>3. DOMAIN p = 1..Len(p) /\ Len(p) \in Nat /\ DOMAIN p = DOMAIN q /\ DOMAIN q = 1..Len(q)
    BY <1>0, <1>4, <2>2, LenProperties
  <2> QED
    BY <1>0, <2>3
<1> HIDE DEF p, e
<1>6. DOMAIN q = 1..Len(q) /\ p[back] = f /\ \A j \in 1..(Len(q) - 1) : p[j] = q[j]
  BY <1>0, <1>1, <1>4
<1> QED
  BY <1>1, <1>3, <1>5, <1>6 DEF p, e

\* The queue after a batch of another relayer was dispatched has one more entry.
LEMMA NoteDispatchedAppends ==
    ASSUME NEW lane \in InboundLaneData, NEW relayer \in Relayers, NEW first \in Nat,
           NEW results \in Seq(BOOLEAN), results # <<>>, first = LastDelivered(lane) + 1,
           ~ExtendsBack(lane, relayer)
    PROVE  LET q == lane.relayers
               p == NoteDispatched(lane, relayer, first, results).relayers
           IN  /\ Len(p) = Len(q) + 1
               /\ \A j \in 1..Len(q) : p[j] = q[j]
               /\ p[Len(q) + 1] = [relayer |-> relayer, begin |-> first,
                                   end |-> first + Len(results) - 1,
                                   dispatch_results |-> results]
<1> DEFINE q == lane.relayers
           p == NoteDispatched(lane, relayer, first, results).relayers
           g == [relayer |-> relayer, begin |-> first,
                 end |-> first + Len(results) - 1, dispatch_results |-> results]
<1>0. /\ q \in Seq(UnrewardedRelayer) /\ Len(q) \in Nat
      /\ lane = [relayers |-> q, last_confirmed_nonce |-> lane.last_confirmed_nonce]
  BY LenProperties DEF InboundLaneData
<1>1. Len(results) \in Nat /\ Len(results) >= 1 /\ LastDelivered(lane) \in Nat
  BY EmptySeq, LenProperties, LastDeliveredType
<1>2. g \in UnrewardedRelayer
  BY <1>1 DEF UnrewardedRelayer
<1> HIDE DEF g
<1>3. p = Append(q, g)
  BY <1>0 DEF NoteDispatched, g
<1> HIDE DEF p
<1> QED
  BY <1>0, <1>2, <1>3, AppendProperties DEF p, g

\* A truthful queue stays truthful when the log of deliveries grows.
LEMMA LongerLog ==
    ASSUME NEW lane \in InboundLaneData, NEW log, NEW longer, NEW len \in Nat,
           QueueFaithful(lane, log), LastDelivered(lane) <= len,
           \A m \in 1..len : longer[m] = log[m]
    PROVE  QueueFaithful(lane, longer)
<1>1. LastDelivered(lane) \in Nat
  BY LastDeliveredType
<1>2. ASSUME NEW i \in 1..Len(lane.relayers)
      PROVE  LET e == lane.relayers[i]
             IN  /\ 1 <= e.begin
                 /\ e.end <= LastDelivered(lane)
                 /\ \A n \in e.begin..e.end :
                      /\ longer[n].relayer = e.relayer
                      /\ longer[n].result = e.dispatch_results[n - e.begin + 1]
  <2> DEFINE e == lane.relayers[i]
  <2>1. /\ e.begin \in Nat /\ e.end \in Nat
        /\ 1 <= e.begin /\ e.end <= LastDelivered(lane)
        /\ \A n \in e.begin..e.end : /\ log[n].relayer = e.relayer
                                     /\ log[n].result = e.dispatch_results[n - e.begin + 1]
    <3>1. lane.relayers \in Seq(UnrewardedRelayer)
      BY DEF InboundLaneData
    <3>2. e.begin \in Nat /\ e.end \in Nat
      BY <3>1, EntryType
    <3> QED
      BY <3>2 DEF QueueFaithful
  <2> HIDE DEF e
  <2>2. \A n \in e.begin..e.end : longer[n] = log[n]
    BY <1>1, <2>1
  <2>3. \A n \in e.begin..e.end : /\ longer[n].relayer = e.relayer
                                  /\ longer[n].result = e.dispatch_results[n - e.begin + 1]
    BY <2>1, <2>2
  <2> QED
    BY <2>1, <2>3 DEF e
<1> QED
  BY <1>2 DEF QueueFaithful

\* longer is a log of last deliveries with the dispatches of one batch after them.
AddsBatch(longer, log, last, relayer, results) ==
    /\ \A m \in 1..last : longer[m] = log[m]
    /\ \A i \in 1..Len(results) : /\ longer[last + i].relayer = relayer
                                  /\ longer[last + i].result = results[i]

\* Noting a batch of dispatches keeps the queue well formed, and truthful about the
\* log that the batch was added to.
LEMMA NoteDispatchedKeepsQueue ==
    ASSUME NEW lane \in InboundLaneData, NEW relayer \in Relayers, NEW first \in Nat,
           NEW results \in Seq(BOOLEAN), results # <<>>, first = LastDelivered(lane) + 1,
           NEW log, NEW longer,
           QueueConsecutive(lane), QueueFaithful(lane, log),
           AddsBatch(longer, log, LastDelivered(lane), relayer, results)
    PROVE  LET new == NoteDispatched(lane, relayer, first, results)
           IN  /\ QueueConsecutive(new)
               /\ QueueFaithful(new, longer)
               /\ Len(new.relayers) <= Len(lane.relayers) + 1
<1> DEFINE q == lane.relayers
           new == NoteDispatched(lane, relayer, first, results)
           p == new.relayers
           last == LastDelivered(lane)
           k == Len(results)
<1>0. /\ q \in Seq(UnrewardedRelayer) /\ Len(q) \in Nat
      /\ lane.last_confirmed_nonce \in Nat
      /\ last \in Nat /\ k \in Nat /\ k >= 1
  BY LenProperties, EmptySeq, LastDeliveredType DEF InboundLaneData
<1>1. /\ new \in InboundLaneData
      /\ LastDelivered(new) = last + k
      /\ new.last_confirmed_nonce = lane.last_confirmed_nonce
  BY NoteDispatchedProperties
<1>n. last \in Nat /\ k \in Nat /\ k >= 1
  BY <1>0
<1>2. p \in Seq(UnrewardedRelayer) /\ Len(p) \in Nat
  BY <1>1, LenProperties DEF InboundLaneData
<1>3. QueueFaithful(lane, longer)
  BY <1>0, LongerLog DEF AddsBatch
<1>4. \A j \in 1..Len(q) :
         /\ q[j].begin \in Nat /\ q[j].end \in Nat
         /\ 1 <= q[j].begin /\ q[j].begin <= q[j].end /\ q[j].end <= last
         /\ Len(q[j].dispatch_results) = q[j].end - q[j].begin + 1
         /\ q[j].dispatch_results \in Seq(BOOLEAN)
         /\ j > 1 => q[j].begin = q[j - 1].end + 1
         /\ \A m \in q[j].begin..q[j].end :
              /\ longer[m].relayer = q[j].relayer
              /\ longer[m].result = q[j].dispatch_results[m - q[j].begin + 1]
  <2> TAKE j \in 1..Len(q)
  <2>1. /\ q[j].begin \in Nat /\ q[j].end \in Nat
        /\ q[j].dispatch_results \in Seq(BOOLEAN)
    BY <1>0, EntryType
  <2> QED
    BY <1>3, <2>1 DEF QueueConsecutive, QueueFaithful
<1>5. q # <<>> => /\ Len(q) \in 1..Len(q) /\ last = q[Len(q)].end
                  /\ q[1].begin \in {lane.last_confirmed_nonce, lane.last_confirmed_nonce + 1}
                  /\ q[1].end > lane.last_confirmed_nonce
  BY <1>0, EmptySeq DEF LastDelivered, QueueConsecutive
<1>6. q = <<>> => Len(q) = 0 /\ last = lane.last_confirmed_nonce
  BY <1>0, EmptySeq DEF LastDelivered
<1> HIDE DEF last, k, p
<1> DEFINE Entry(e) ==
             /\ 1 <= e.begin /\ e.begin <= e.end /\ e.end <= last + k
             /\ Len(e.dispatch_results) = e.end - e.begin + 1
             /\ \A m \in e.begin..e.end :
                  /\ longer[m].relayer = e.relayer
                  /\ longer[m].result = e.dispatch_results[m - e.begin + 1]
           Front == p # <<>> =>
                      /\ p[1].begin \in {lane.last_confirmed_nonce,
                                         lane.last_confirmed_nonce + 1}
                      /\ p[1].end > lane.last_confirmed_nonce
           Chain == \A j \in 1..Len(p) : j > 1 => p[j].begin = p[j - 1].end + 1
<1>7. \A j \in 1..Len(q) : Entry(q[j])
  BY <1>0, <1>4, SMTT(40)
<1>8. ASSUME \A j \in 1..Len(p) : Entry(p[j]), Front, Chain
      PROVE  QueueConsecutive(new) /\ QueueFaithful(new, longer)
  BY <1>1, <1>8 DEF QueueConsecutive, QueueFaithful, p
<1>9. CASE ExtendsBack(lane, relayer)
  <2> DEFINE b == Len(q)
             e == q[b]
             r == e.dispatch_results
             f == [relayer |-> relayer, begin |-> e.begin, end |-> e.end + k,
                   dispatch_results |-> r \o results]
  <2>1. /\ q # <<>>
        /\ Len(p) = Len(q)
        /\ \A j \in 1..(Len(q) - 1) : p[j] = q[j]
        /\ e.relayer = relayer
        /\ p[b] = f
    BY <1>9, NoteDispatchedExtends DEF p, k
  <2>2. /\ b \in 1..Len(q) /\ last = e.end
        /\ e.begin \in Nat /\ e.end \in Nat /\ 1 <= e.begin /\ e.begin <= e.end
    BY <1>4, <1>5, <2>1
  <2>g. /\ r \in Seq(BOOLEAN)
        /\ \A m \in e.begin..e.end : /\ longer[m].relayer = relayer
                                     /\ longer[m].result = r[m - e.begin + 1]
    BY <1>4, <2>1, <2>2
  <2> DEFINE l == Len(r)
  <2>l. l = e.end - e.begin + 1
    BY <1>4, <2>2
  <2>3. /\ Len(r \o results) = l + k
        /\ \A i \in 1..(l + k) :
             (r \o results)[i] = IF i <= l THEN r[i] ELSE results[i - l]
    <3>1. r \in Seq(BOOLEAN)
      BY <2>g
    <3> HIDE DEF r
    <3> QED
      BY <3>1, ConcatProperties DEF k
  <2>4. /\ f.begin = e.begin /\ f.end = e.end + k /\ f.relayer = relayer
        /\ f.dispatch_results = r \o results
    OBVIOUS
  <2> HIDE DEF f, l, r, e
  <2>5. \A m \in f.begin..f.end :
          /\ longer[m].relayer = f.relayer
          /\ longer[m].result = f.dispatch_results[m - f.begin + 1]
    <3> TAKE m \in f.begin..f.end
    <3>0. m \in Nat /\ e.begin <= m /\ m <= e.end + k
      BY <1>n, <2>2, <2>4
    <3> DEFINE x == m - e.begin + 1
    <3>1. /\ x \in 1..(l + k)
          /\ m <= e.end => m \in e.begin..e.end /\ x <= l
          /\ m > e.end => ~(x <= l) /\ x - l = m - last
      <4>0. x \in Int /\ l \in Int /\ l - x = e.end - m
        BY <2>2, <2>l, <3>0, SMTT(40)
      <4>1. m <= e.end => m \in e.begin..e.end
        BY <2>2, <3>0
      <4>2. x >= 1
        BY <2>2, <3>0
      <4> HIDE DEF x
      <4> QED
        BY <1>n, <2>2, <3>0, <4>0, <4>1, <4>2, SMTT(40)
    <3>2. /\ f.dispatch_results[m - f.begin + 1] = (r \o results)[x]
          /\ m \in e.begin..e.end => longer[m].result = r[x]
      BY <2>g, <2>4
    <3> HIDE DEF x
    <3>3. (r \o results)[x] = IF x <= l THEN r[x] ELSE results[x - l]
      BY <2>3, <3>1
    <3>4. CASE m <= e.end
      BY <2>g, <2>4, <3>1, <3>2, <3>3, <3>4
    <3>5. CASE m > e.end
      <4>1. m - last \in 1..k /\ last + (m - last) = m
        BY <1>n, <2>2, <3>0, <3>5
      <4>2. /\ longer[last + (m - last)].relayer = relayer
            /\ longer[last + (m - last)].result = results[m - last]
        BY <4>1 DEF last, k, AddsBatch
      <4> QED
        BY <2>4, <3>1, <3>2, <3>3, <3>5, <4>1, <4>2
    <3> QED
      BY <2>2, <3>0, <3>4, <3>5
  <2>6. Entry(f)
    <3>1. 1 <= f.begin /\ f.begin <= f.end /\ f.end <= last + k
      BY <1>n, <2>2, <2>4
    <3>2. Len(f.dispatch_results) = f.end - f.begin + 1
      <4>1. l + k = (e.end + k) - e.begin + 1
        BY <1>n, <2>2, <2>l
      <4> QED
        BY <2>3, <2>4, <4>1
    <3> QED
      BY <2>5, <3>1, <3>2
  <2> HIDE DEF Entry
  <2>7. \A j \in 1..Len(p) : Entry(p[j])
    <3> TAKE j \in 1..Len(p)
    <3>1. CASE j = b
      BY <2>1, <2>6, <3>1
    <3>2. CASE j # b
      <4>1. j \in 1..(Len(q) - 1) /\ j \in 1..Len(q)
        BY <1>0, <2>1, <3>2
      <4> QED
        BY <1>7, <2>1, <4>1
    <3> QED
      BY <3>1, <3>2
  <2>8. \A j \in 1..Len(p) : p[j].begin = q[j].begin /\ (j # b => p[j] = q[j])
                               /\ p[j].end >= q[j].end
    <3> TAKE j \in 1..Len(p)
    <3>1. CASE j = b
      BY <1>0, <2>1, <2>2, <2>4, <3>1, SMTT(40) DEF e
    <3>2. CASE j # b
      <4>1. j \in 1..(Len(q) - 1) /\ j \in 1..Len(q)
        BY <1>0, <2>1, <3>2
      <4> QED
        BY <1>4, <2>1, <3>2, <4>1
    <3> QED
      BY <3>1, <3>2
  <2>9. Front
    <3>1. 1 \in 1..Len(p) /\ 1 \in 1..Len(q)
      BY <1>0, <2>1, <2>2
    <3>2. p[1].begin = q[1].begin /\ p[1].end >= q[1].end
      BY <2>8, <3>1
    <3>3. p[1].end \in Nat /\ q[1].end \in Nat
      BY <1>0, <1>2, <3>1, EntryType
    <3> QED
      BY <1>0, <1>5, <2>1, <3>2, <3>3
  <2>10. Chain
    <3> SUFFICES ASSUME NEW j \in 1..Len(p), j > 1
                 PROVE  p[j].begin = p[j - 1].end + 1
      OBVIOUS
    <3>1. j - 1 \in 1..Len(p) /\ j - 1 # b /\ j \in 1..Len(q)
      BY <1>0, <2>1
    <3>2. p[j].begin = q[j].begin /\ p[j - 1] = q[j - 1]
      BY <2>8, <3>1
    <3> QED
      BY <1>4, <3>1, <3>2
  <2> HIDE DEF Front, Chain
  <2> QED
    BY <1>0, <1>8, <2>1, <2>7, <2>9, <2>10 DEF p
<1>10. CASE ~ExtendsBack(lane, relayer)
  <2> DEFINE f == [relayer |-> relayer, begin |-> first, end |-> first + k - 1,
                   dispatch_results |-> results]
             b == Len(q) + 1
  <2>1. /\ Len(p) = b
        /\ \A j \in 1..Len(q) : p[j] = q[j]
        /\ p[b] = f
    BY <1>10, NoteDispatchedAppends DEF p, k
  <2>2. /\ f.begin = last + 1 /\ f.end = last + k /\ f.relayer = relayer
        /\ f.dispatch_results = results /\ Len(results) = k
    BY <1>0 DEF last, k
  <2> HIDE DEF f
  <2>3. \A m \in f.begin..f.end :
          /\ longer[m].relayer = f.relayer
          /\ longer[m].result = f.dispatch_results[m - f.begin + 1]
    <3> TAKE m \in f.begin..f.end
    <3>1. m - last \in 1..k /\ last + (m - last) = m /\ m - f.begin + 1 = m - last
      BY <1>0, <2>2
    <3>2. /\ longer[last + (m - last)].relayer = relayer
          /\ longer[last + (m - last)].result = results[m - last]
      BY <3>1 DEF last, k, AddsBatch
    <3> QED
      BY <2>2, <3>1, <3>2
  <2>4. Entry(f)
    BY <1>0, <2>2, <2>3
  <2> HIDE DEF Entry
  <2>5. \A j \in 1..Len(p) : Entry(p[j])
    <3> TAKE j \in 1..Len(p)
    <3>1. CASE j = b
      BY <2>1, <2>4, <3>1
    <3>2. CASE j # b
      <4>1. j \in 1..Len(q)
        BY <1>0, <2>1, <3>2
      <4> QED
        BY <1>7, <2>1, <4>1
    <3> QED
      BY <3>1, <3>2
  <2>6. Front
    <3>1. CASE q = <<>>
      <4>1. p[1] = f
        BY <1>6, <2>1, <3>1
      <4> QED
        BY <1>0, <1>6, <2>2, <3>1, <4>1
    <3>2. CASE q # <<>>
      <4>1. p[1] = q[1]
        BY <1>0, <1>5, <2>1, <3>2
      <4> QED
        BY <1>5, <3>2, <4>1
    <3> QED
      BY <3>1, <3>2
  <2>7. Chain
    <3> SUFFICES ASSUME NEW j \in 1..Len(p), j > 1
                 PROVE  p[j].begin = p[j - 1].end + 1
      OBVIOUS
    <3>0. j - 1 \in 1..Len(q)
      BY <1>0, <2>1
    <3>1. CASE j = b
      <4>1. j - 1 = Len(q) /\ q # <<>>
        BY <1>0, <1>6, <3>0, <3>1
      <4>2. p[j - 1] = q[Len(q)] /\ p[j] = f
        BY <2>1, <3>0, <3>1, <4>1
      <4> QED
        BY <1>5, <2>2, <4>1, <4>2
    <3>2. CASE j # b
      <4>1. j \in 1..Len(q)
        BY <1>0, <2>1, <3>2
      <4>2. p[j] = q[j] /\ p[j - 1] = q[j - 1]
        BY <2>1, <3>0, <4>1
      <4> QED
        BY <1>4, <4>1, <4>2
    <3> QED
      BY <3>1, <3>2
  <2> HIDE DEF Front, Chain
  <2> QED
    BY <1>0, <1>8, <2>1, <2>5, <2>6, <2>7 DEF p
<1> QED
  BY <1>9, <1>10

-----------------------------------------------------------------------------
(* The queue at the target, and the copies of it that the source keeps. *)

\* Neither chain has seen a message initially.
LEMMA InitQueueInv == Init => QueueInv
<1> SUFFICES ASSUME Init PROVE QueueInv
  OBVIOUS
<1>1. LaneInv
  BY InitLaneInv
<1>2. /\ InitInboundLane.relayers = <<>> /\ InitInboundLane.last_confirmed_nonce = 0
      /\ LastDelivered(InitInboundLane) = 0
      /\ Len(InitInboundLane.relayers) = 0
  BY EmptySeq DEF InitInboundLane, LastDelivered
<1>3. QueueConsecutive(InitInboundLane) /\ QueueFaithful(InitInboundLane, dispatched)
  BY <1>2 DEF QueueConsecutive, QueueFaithful
<1>4. QueuesFaithful
  BY <1>2, <1>3 DEF Init, QueuesFaithful, InitOutboundLane
<1>5. InboundLaneBounded
  BY <1>2, <1>3, LaneAssumption DEF Init, InboundLaneBounded
<1>6. RewardsMatchDispatches
  BY EmptySeq DEF Init, RewardsMatchDispatches, InitOutboundLane
<1> QED
  BY <1>1, <1>4, <1>5, <1>6 DEF QueueInv

\* A delivery keeps the queue well formed, truthful and within its limits, whatever
\* lane state it proves.
LEMMA DeliveryKeepsQueueInv ==
    ASSUME QueueInv, ReceiveSomeMessagesProof
    PROVE  QueuesFaithful' /\ InboundLaneBounded' /\ RewardsMatchDispatches'
<1>1. PICK relayer \in Relayers, h \in Slots, proveState \in BOOLEAN,
           start \in 1..(MaxNonce + 2), end \in 1..(MaxNonce + 1) :
        \E processed \in (start - 1)..end :
          ReceiveMessagesProof(relayer, sourceHeaders[h], proveState, start, end, processed)
  BY DEF ReceiveSomeMessagesProof
<1>2. PICK processed \in (start - 1)..end :
        ReceiveMessagesProof(relayer, sourceHeaders[h], proveState, start, end, processed)
  BY <1>1
<1>3. /\ TypeOK /\ DispatchedInOrderOnce /\ HeadersBehind /\ QueuesFaithful
      /\ InboundLaneBounded /\ RewardsMatchDispatches
  BY DEF QueueInv, LaneInv
<1>4. sourceHeaders[h] \in SourceState
  BY <1>3 DEF TypeOK
<1>5. start \in Nat /\ end \in Int /\ processed \in Int
  BY LaneAssumption
<1> DEFINE n == sourceHeaders[h].lane.latest_received_nonce
<1>6. PICK updated \in InboundLaneData, results \in Seq(BOOLEAN) :
             /\ updated = IF proveState THEN ReceiveStateUpdate(inbound, n) ELSE inbound
             /\ Len(results) = AcceptedCount(updated, relayer, start, processed)
             /\ inbound' = NoteDispatched(updated, relayer, FirstNew(updated, start), results)
             /\ dispatched' \in Seq(Delivery)
             /\ Len(dispatched') = Len(dispatched) + Len(results)
             /\ \A i \in 1..Len(dispatched) : dispatched'[i] = dispatched[i]
             /\ \A i \in 1..Len(results) :
                  dispatched'[Len(dispatched) + i]
                    = [nonce   |-> FirstNew(updated, start) + i - 1,
                       relayer |-> relayer,
                       result  |-> results[i]]
  BY <1>2, <1>3, <1>4, <1>5, DeliveryBatch, ZenonT(40)
<1>7. /\ outbound' = outbound /\ targetHeaders' = targetHeaders /\ rewarded' = rewarded
  BY <1>2 DEF ReceiveMessagesProof, sourceVars
<1>8. /\ inbound \in InboundLaneData /\ n \in Nat
      /\ inbound.last_confirmed_nonce \in Nat
      /\ LastDelivered(inbound) \in Nat /\ Len(dispatched) \in Nat
      /\ Len(dispatched) = LastDelivered(inbound)
  BY <1>3, NonceTypes DEF TypeOK, DispatchedInOrderOnce
<1> HIDE DEF n
<1>9. /\ QueueConsecutive(updated) /\ QueueFaithful(updated, dispatched)
      /\ LastDelivered(updated) = LastDelivered(inbound)
      /\ updated.last_confirmed_nonce >= inbound.last_confirmed_nonce
      /\ updated.last_confirmed_nonce \in Nat
      /\ Len(updated.relayers) \in Nat
      /\ Len(updated.relayers) <= Len(inbound.relayers)
  <2>1. QueueConsecutive(inbound) /\ QueueFaithful(inbound, dispatched)
    BY <1>3 DEF QueuesFaithful
  <2>2. updated.last_confirmed_nonce \in Nat /\ Len(updated.relayers) \in Nat
    BY LenProperties DEF InboundLaneData
  <2>3. CASE proveState
    <3>1. updated = ReceiveStateUpdate(inbound, n)
      BY <1>6, <2>3
    <3>2. /\ LastDelivered(updated) = LastDelivered(inbound)
          /\ updated.last_confirmed_nonce >= inbound.last_confirmed_nonce
      BY <1>8, <3>1, ReceiveStateUpdateProperties
    <3>3. /\ QueueConsecutive(updated) /\ QueueFaithful(updated, dispatched)
          /\ Len(updated.relayers) <= Len(inbound.relayers)
      BY <1>8, <2>1, <3>1, ReceiveStateUpdateKeepsQueue
    <3> QED
      BY <2>2, <3>2, <3>3
  <2>4. CASE ~proveState
    <3>1. updated = inbound
      BY <1>6, <2>4
    <3> QED
      BY <1>8, <2>1, <2>2, <3>1
  <2> QED
    BY <2>3, <2>4
<1>10. /\ QueueConsecutive(inbound') /\ QueueFaithful(inbound', dispatched')
       /\ Len(inbound'.relayers) <= MaxUnrewardedRelayerEntries
       /\ LastDelivered(inbound') - inbound'.last_confirmed_nonce <= MaxUnconfirmedMessages
  <2>0. /\ MaxUnrewardedRelayerEntries \in Nat /\ MaxUnconfirmedMessages \in Nat
        /\ Len(inbound.relayers) <= MaxUnrewardedRelayerEntries
        /\ LastDelivered(inbound) - inbound.last_confirmed_nonce <= MaxUnconfirmedMessages
        /\ Len(inbound.relayers) \in Nat
    BY <1>3, <1>8, LaneAssumption, LenProperties DEF InboundLaneBounded, InboundLaneData
  <2>1. CASE results = <<>>
    <3>1. inbound' = updated
      BY <1>6, <2>1 DEF NoteDispatched
    <3>2. QueueFaithful(updated, dispatched')
      <4>1. LastDelivered(updated) <= Len(dispatched) /\ Len(dispatched) \in Nat
        BY <1>8, <1>9
      <4>2. \A i \in 1..Len(dispatched) : dispatched'[i] = dispatched[i]
        BY <1>6
      <4> QED
        BY <1>9, <4>1, <4>2, LongerLog
    <3> QED
      BY <1>8, <1>9, <2>0, <3>1, <3>2, SMTT(40)
  <2>2. CASE results # <<>>
    <3> DEFINE first == FirstNew(updated, start)
    <3>1. Len(results) \in Nat /\ Len(results) # 0
      BY <2>2, EmptySeq, LenProperties
    <3>2. /\ first = LastDelivered(updated) + 1
          /\ LastDelivered(updated) + Len(results)
               <= updated.last_confirmed_nonce + MaxUnconfirmedMessages
          /\ Len(updated.relayers) < MaxUnrewardedRelayerEntries
      BY <1>5, <1>6, <3>1, AcceptedCountProperties
    <3>3. AddsBatch(dispatched', dispatched, LastDelivered(updated), relayer, results)
      <4>1. \A i \in 1..Len(results) :
              /\ dispatched'[Len(dispatched) + i].relayer = relayer
              /\ dispatched'[Len(dispatched) + i].result = results[i]
        <5> TAKE i \in 1..Len(results)
        <5>1. dispatched'[Len(dispatched) + i] = [nonce   |-> first + i - 1,
                                                  relayer |-> relayer,
                                                  result  |-> results[i]]
          BY <1>6
        <5> QED
          BY <5>1
      <4>2. \A i \in 1..Len(dispatched) : dispatched'[i] = dispatched[i]
        BY <1>6
      <4>3. Len(dispatched) = LastDelivered(updated)
        BY <1>8, <1>9
      <4> QED
        BY <4>1, <4>2, <4>3 DEF AddsBatch
    <3>4. inbound' = NoteDispatched(updated, relayer, first, results)
      BY <1>6
    <3>5. first \in Nat
      BY <1>8, <1>9, <3>2
    <3> HIDE DEF first
    <3>6. /\ QueueConsecutive(inbound') /\ QueueFaithful(inbound', dispatched')
          /\ Len(inbound'.relayers) <= Len(updated.relayers) + 1
      BY <1>9, <2>2, <3>2, <3>3, <3>4, <3>5, NoteDispatchedKeepsQueue
    <3>7. /\ LastDelivered(inbound') = LastDelivered(updated) + Len(results)
          /\ inbound'.last_confirmed_nonce = updated.last_confirmed_nonce
          /\ inbound' \in InboundLaneData
      BY <2>2, <3>2, <3>4, <3>5, NoteDispatchedProperties
    <3>8. Len(inbound'.relayers) \in Nat
      BY <3>7, LenProperties DEF InboundLaneData
    <3>9. Len(inbound'.relayers) <= MaxUnrewardedRelayerEntries
      BY <1>9, <2>0, <3>2, <3>6, <3>8
    <3>10. LastDelivered(inbound') - inbound'.last_confirmed_nonce <= MaxUnconfirmedMessages
      BY <1>8, <1>9, <2>0, <3>1, <3>2, <3>7
    <3> QED
      BY <3>6, <3>9, <3>10
  <2> QED
    BY <2>1, <2>2
<1>11. InboundLaneBounded'
  BY <1>10 DEF InboundLaneBounded
<1>12. QueuesFaithful'
  <2>1. ASSUME NEW g \in Slots
        PROVE  /\ QueueConsecutive(targetHeaders[g])
               /\ QueueFaithful(targetHeaders[g], dispatched')
               /\ targetHeaders[g].last_confirmed_nonce <= outbound.latest_received_nonce
    <3>1. /\ QueueConsecutive(targetHeaders[g])
          /\ QueueFaithful(targetHeaders[g], dispatched)
          /\ targetHeaders[g].last_confirmed_nonce <= outbound.latest_received_nonce
      BY <1>3 DEF QueuesFaithful
    <3>2. targetHeaders[g] \in InboundLaneData /\ LastDelivered(targetHeaders[g]) <= Len(dispatched)
      BY <1>3, <1>8 DEF TypeOK, HeadersBehind
    <3>3. QueueFaithful(targetHeaders[g], dispatched')
      BY <1>6, <1>8, <3>1, <3>2, LongerLog
    <3> QED
      BY <3>1, <3>3
  <2> QED
    BY <1>7, <1>10, <2>1 DEF QueuesFaithful
<1>13. RewardsMatchDispatches'
  <2>1. /\ Len(rewarded) = outbound.latest_received_nonce
        /\ Len(rewarded) <= Len(dispatched)
        /\ \A i \in 1..Len(rewarded) : rewarded[i] = dispatched[i]
    BY <1>3 DEF RewardsMatchDispatches
  <2>2. Len(rewarded) \in Nat /\ Len(results) \in Nat
    BY <1>3, LenProperties DEF TypeOK
  <2>3. Len(rewarded) <= Len(dispatched')
    BY <1>6, <1>8, <2>1, <2>2
  <2>4. \A i \in 1..Len(rewarded) : dispatched'[i] = dispatched[i]
    BY <1>6, <1>8, <2>1, <2>2
  <2>5. \A i \in 1..Len(rewarded) : rewarded[i] = dispatched'[i]
    BY <2>1, <2>4
  <2> QED
    BY <1>7, <2>1, <2>3, <2>5 DEF RewardsMatchDispatches
<1> QED
  BY <1>11, <1>12, <1>13

\* The source accepts the proof of every target state it knows: the entries are the
\* ones confirm_delivery expects and cover all that is not confirmed yet.
LEMMA KeptStateConfirms ==
    ASSUME QueueInv, NEW h \in Slots,
           LastDelivered(targetHeaders[h]) > outbound.latest_received_nonce
    PROVE  ConfirmsDelivery(outbound, targetHeaders[h].relayers, LastDelivered(targetHeaders[h]))
<1> DEFINE lane == targetHeaders[h]
           q == lane.relayers
           delivered == LastDelivered(lane)
           received == outbound.latest_received_nonce
<1>1. TypeOK /\ NonceOrder /\ HeadersBehind /\ QueuesFaithful
  BY DEF QueueInv, LaneInv
<1>2. /\ lane \in InboundLaneData
      /\ QueueConsecutive(lane) /\ QueueFaithful(lane, dispatched)
      /\ lane.last_confirmed_nonce <= received
      /\ delivered <= LastDelivered(inbound)
  BY <1>1 DEF TypeOK, QueuesFaithful, HeadersBehind
<1>3. /\ delivered \in Nat /\ received \in Nat /\ LastDelivered(inbound) \in Nat
      /\ outbound.latest_generated_nonce \in Nat
  BY <1>1, NonceTypes
<1>4. q \in Seq(UnrewardedRelayer) /\ lane.last_confirmed_nonce \in Nat /\ Len(q) \in Nat
  BY <1>2, LenProperties DEF InboundLaneData
<1> HIDE DEF lane
<1>5. delivered <= outbound.latest_generated_nonce
  BY <1>1, <1>2, <1>3 DEF NonceOrder
<1>6. q # <<>>
  BY <1>2, <1>3, <1>4 DEF LastDelivered, lane
<1>7. 1 \in 1..Len(q) /\ Len(q) \in 1..Len(q) /\ delivered = q[Len(q)].end
  BY <1>4, <1>6, EmptySeq DEF LastDelivered
<1>8. q[1].begin \in {lane.last_confirmed_nonce, lane.last_confirmed_nonce + 1}
  BY <1>2, <1>6 DEF QueueConsecutive
<1>9. delivered - received <= TotalUnrewardedMessages(q)
  <2>1. q[1].begin \in Nat /\ q[1].begin <= received + 1 /\ received + 1 <= delivered
    <3>1. received + 1 <= delivered
      BY <1>3 DEF lane
    <3>2. q[1].begin \in Nat
      BY <1>4, <1>7, EntryType
    <3> HIDE DEF delivered, received, q
    <3> QED
      BY <1>2, <1>3, <1>4, <1>8, <3>1, <3>2
  <2>2. TotalUnrewardedMessages(q) = delivered - q[1].begin + 1
    <3>1. ~(q[Len(q)].end < q[1].begin)
      BY <1>3, <1>7, <2>1
    <3> QED
      BY <1>6, <1>7, <3>1 DEF TotalUnrewardedMessages
  <2> HIDE DEF delivered, received, q
  <2> QED
    BY <1>3, <2>1, <2>2
<1>10. ValidEntries(q, delivered)
  BY <1>2 DEF QueueConsecutive, QueueFaithful, ValidEntries
<1> QED
  BY <1>5, <1>9, <1>10 DEF ConfirmsDelivery, lane

\* A confirmation pays each newly confirmed message to the relayer that delivered it.
LEMMA ConfirmationKeepsQueueInv ==
    ASSUME QueueInv, ReceiveSomeDeliveryProof
    PROVE  QueuesFaithful' /\ InboundLaneBounded' /\ RewardsMatchDispatches'
<1>1. PICK h \in Slots : ReceiveMessagesDeliveryProof(targetHeaders[h])
  BY DEF ReceiveSomeDeliveryProof
<1> DEFINE lane == targetHeaders[h]
           q == lane.relayers
           delivered == LastDelivered(lane)
           received == outbound.latest_received_nonce
<1>2. /\ TypeOK /\ DispatchedInOrderOnce /\ HeadersBehind /\ QueuesFaithful
      /\ InboundLaneBounded /\ RewardsMatchDispatches
  BY DEF QueueInv, LaneInv
<1>3. lane \in InboundLaneData /\ outbound \in OutboundLaneData
  BY <1>2 DEF TypeOK
<1>4. /\ outbound' = [outbound EXCEPT !.latest_received_nonce = delivered]
      /\ received < delivered
      /\ rewarded' \in Seq(Delivery)
      /\ Len(rewarded') = Len(rewarded) + (delivered - received)
      /\ \A i \in 1..Len(rewarded) : rewarded'[i] = rewarded[i]
      /\ \A i \in 1..(delivered - received) :
           rewarded'[Len(rewarded) + i] = DeliveryOf(q, received + i)
  BY <1>1, <1>2, <1>3, ConfirmationStep
<1>5. outbound'.latest_received_nonce = delivered
  BY <1>3, <1>4 DEF OutboundLaneData
<1>6. UNCHANGED <<inbound, targetHeaders, dispatched>> /\ ConfirmsDelivery(outbound, q, delivered)
  BY <1>1 DEF ReceiveMessagesDeliveryProof, targetVars
<1>7. /\ delivered \in Nat /\ received \in Nat /\ Len(dispatched) \in Nat
      /\ delivered <= Len(dispatched)
      /\ \A g \in Slots : targetHeaders[g].last_confirmed_nonce \in Nat
  BY <1>2, NonceTypes DEF TypeOK, HeadersBehind, DispatchedInOrderOnce, InboundLaneData
<1>8. InboundLaneBounded'
  BY <1>2, <1>6 DEF InboundLaneBounded
<1>9. QueuesFaithful'
  <2>1. \A g \in Slots : targetHeaders[g].last_confirmed_nonce <= delivered
    BY <1>2, <1>4, <1>7 DEF QueuesFaithful
  <2> HIDE DEF delivered
  <2> QED
    BY <1>2, <1>5, <1>6, <2>1 DEF QueuesFaithful
<1>10. RewardsMatchDispatches'
  <2>1. /\ Len(rewarded) = received
        /\ \A i \in 1..received : rewarded[i] = dispatched[i]
    BY <1>2 DEF RewardsMatchDispatches
  <2>2. Len(rewarded') = delivered
    BY <1>4, <1>7, <2>1
  <2>3. ASSUME NEW n \in (received + 1)..delivered
        PROVE  DeliveryOf(q, n) = dispatched[n]
    <3>1. PICK i \in 1..Len(q) :
            /\ q[i].begin <= n /\ n <= q[i].end
            /\ DeliveryOf(q, n) = [nonce |-> n, relayer |-> q[i].relayer,
                                   result |-> q[i].dispatch_results[n - q[i].begin + 1]]
      BY <1>3, <1>4, <1>6, DeliveryOfProperties
    <3>2. QueueFaithful(lane, dispatched) /\ q \in Seq(UnrewardedRelayer)
      BY <1>2, <1>3 DEF QueuesFaithful, InboundLaneData
    <3>3. n \in q[i].begin..q[i].end
      <4>1. q[i].begin \in Nat /\ q[i].end \in Nat
        BY <3>2, EntryType
      <4> QED
        BY <1>7, <3>1, <4>1
    <3>4. /\ dispatched[n].relayer = q[i].relayer
          /\ dispatched[n].result = q[i].dispatch_results[n - q[i].begin + 1]
      BY <3>2, <3>3 DEF QueueFaithful
    <3>5. n \in 1..Len(dispatched)
      BY <1>7
    <3>6. dispatched[n].nonce = n /\ dispatched[n] \in Delivery
      BY <1>2, <3>5, ElementOfSeq DEF DispatchedInOrderOnce, TypeOK
    <3>7. dispatched[n] = [nonce |-> dispatched[n].nonce, relayer |-> dispatched[n].relayer,
                           result |-> dispatched[n].result]
      BY <3>6 DEF Delivery
    <3> QED
      BY <3>1, <3>4, <3>6, <3>7
  <2> HIDE DEF q, delivered, received
  <2>4. ASSUME NEW n \in 1..delivered PROVE rewarded'[n] = dispatched[n]
    <3>1. CASE n <= received
      <4>1. n \in 1..received
        BY <1>7, <3>1
      <4> QED
        BY <1>4, <2>1, <4>1
    <3>2. CASE ~(n <= received)
      <4> DEFINE k == n - received
      <4>1. k \in 1..(delivered - received) /\ received + k = n /\ n \in (received + 1)..delivered
        BY <1>7, <3>2
      <4> HIDE DEF k
      <4>2. rewarded'[received + k] = DeliveryOf(q, received + k)
        BY <1>4, <2>1, <4>1
      <4> QED
        BY <2>3, <4>1, <4>2
    <3> QED
      BY <3>1, <3>2
  <2> QED
    BY <1>5, <1>6, <1>7, <2>2, <2>4 DEF RewardsMatchDispatches
<1> QED
  BY <1>8, <1>9, <1>10

\* Every step keeps the invariant of the queue.
LEMMA NextQueueInv == QueueInv /\ [Next]_vars => QueueInv'
<1> SUFFICES ASSUME QueueInv, [Next]_vars PROVE QueueInv'
  OBVIOUS
<1>0. /\ LaneInv /\ TypeOK /\ NonceOrder
      /\ QueuesFaithful /\ InboundLaneBounded /\ RewardsMatchDispatches
  BY DEF QueueInv, LaneInv
<1>l. LaneInv'
  BY <1>0, NextLaneInv
<1>1. CASE SendMessage
  <2>1. outbound'.latest_received_nonce = outbound.latest_received_nonce
    BY <1>0, <1>1, SendStep
  <2>2. UNCHANGED <<inbound, targetHeaders, dispatched, rewarded>>
    BY <1>1 DEF SendMessage, targetVars
  <2>3. QueuesFaithful' /\ InboundLaneBounded' /\ RewardsMatchDispatches'
    BY <1>0, <2>1, <2>2 DEF QueuesFaithful, InboundLaneBounded, RewardsMatchDispatches
  <2> QED
    BY <1>l, <2>3 DEF QueueInv
<1>2. CASE ReceiveSomeMessagesProof
  BY <1>2, <1>l, DeliveryKeepsQueueInv DEF QueueInv
<1>3. CASE ReceiveSomeDeliveryProof
  BY <1>3, <1>l, ConfirmationKeepsQueueInv DEF QueueInv
<1>4. CASE ImportTargetHeader
  <2>1. /\ targetHeaders' = ImportHeader(targetHeaders, inbound)
        /\ UNCHANGED <<outbound, inbound, dispatched, rewarded>>
    BY <1>4 DEF ImportTargetHeader, sourceVars, targetVars
  <2>2. ASSUME NEW h \in Slots
        PROVE  /\ QueueConsecutive(targetHeaders'[h])
               /\ QueueFaithful(targetHeaders'[h], dispatched)
               /\ targetHeaders'[h].last_confirmed_nonce <= outbound.latest_received_nonce
    <3>1. CASE targetHeaders'[h] = inbound
      BY <1>0, <3>1 DEF QueuesFaithful, NonceOrder
    <3>2. CASE \E g \in Slots : targetHeaders'[h] = targetHeaders[g]
      BY <1>0, <3>2 DEF QueuesFaithful
    <3> QED
      BY <2>1, <3>1, <3>2, ImportHeaderProperties
  <2>3. QueuesFaithful'
    BY <1>0, <2>1, <2>2 DEF QueuesFaithful
  <2>4. InboundLaneBounded' /\ RewardsMatchDispatches'
    BY <1>0, <2>1 DEF InboundLaneBounded, RewardsMatchDispatches
  <2> QED
    BY <1>l, <2>3, <2>4 DEF QueueInv
<1>5. ASSUME UNCHANGED <<outbound, inbound, targetHeaders, dispatched, rewarded>>
      PROVE  QueueInv'
  BY <1>0, <1>l, <1>5
     DEF QueueInv, QueuesFaithful, InboundLaneBounded, RewardsMatchDispatches
<1>6. CASE ImportSourceHeader
  BY <1>5, <1>6 DEF ImportSourceHeader, sourceVars, targetVars
<1>7. CASE \E mode \in Modes : SetSourceMode(mode)
  BY <1>5, <1>7 DEF SetSourceMode, targetVars
<1>8. CASE \E mode \in Modes : SetTargetMode(mode)
  BY <1>5, <1>8 DEF SetTargetMode, sourceVars
<1>9. CASE UNCHANGED vars
  BY <1>5, <1>9 DEF vars
<1> QED
  BY <1>1, <1>2, <1>3, <1>4, <1>6, <1>7, <1>8, <1>9 DEF Next

\* The invariant of the queue holds in every reachable state.
LEMMA QueueInvariant == Spec => []QueueInv
<1> QED
  BY InitQueueInv, NextQueueInv, PTL DEF Spec

\* The relayers queue of the target is a chain of consecutive ranges with one result
\* per message, within the two limits of the inbound lane, although a relayer may
\* prove any lane state and deliver any batch at any time.
THEOREM QueueBounded == Spec => []InboundLaneBounded
<1>1. QueueInv => InboundLaneBounded
  BY DEF QueueInv
<1> QED
  BY <1>1, QueueInvariant, PTL

\* confirm_delivery never fails on a true proof: whatever kept target state a
\* relayer proves, it brings nothing new or passes every check.
THEOREM TrueProofsAccepted == Spec => []DeliveryProofsAccepted
<1>1. QueueInv => DeliveryProofsAccepted
  BY KeptStateConfirms DEF DeliveryProofsAccepted
<1> QED
  BY <1>1, QueueInvariant, PTL

\* Each delivery is paid once, in order, to the relayer that made it, and the result
\* handed to the sender is the one of the dispatch.
THEOREM RewardsCorrect == Spec => []RewardsMatchDispatches
<1>1. QueueInv => RewardsMatchDispatches
  BY DEF QueueInv
<1> QED
  BY <1>1, QueueInvariant, PTL

-----------------------------------------------------------------------------
(* The lane implements the reliable channel. *)

\* Every step of the lane is a step of the channel, or its users do not see it.
LEMMA StepSimulation ==
    ASSUME QueueInv, QueueInv', [Next]_vars
    PROVE  [Channel!ChannelNext]_(Channel!channelVars)
<1>0. /\ TypeOK /\ NonceOrder' /\ DispatchedInOrderOnce /\ DispatchedInOrderOnce'
      /\ RewardsMatchDispatches /\ RewardsMatchDispatches' /\ TypeOK'
  BY DEF QueueInv, LaneInv
<1>1. /\ dispatched \in Seq(Delivery) /\ dispatched' \in Seq(Delivery)
      /\ rewarded \in Seq(Delivery) /\ rewarded' \in Seq(Delivery)
      /\ Len(dispatched) \in Nat /\ Len(dispatched') \in Nat
      /\ Len(rewarded) \in Nat /\ Len(rewarded') \in Nat
      /\ outbound \in OutboundLaneData
      /\ outbound.latest_received_nonce \in Nat
      /\ outbound.latest_generated_nonce \in Nat
  BY <1>0, LenProperties, NonceTypes DEF TypeOK
<1>2. CASE SendMessage
  <2>1. outbound'.latest_generated_nonce = outbound.latest_generated_nonce + 1
    BY <1>0, <1>2, SendStep
  <2>2. UNCHANGED <<dispatched, rewarded>>
    BY <1>2 DEF SendMessage
  <2> QED
    BY <2>1, <2>2 DEF Channel!ChannelNext, Channel!Send
<1>3. CASE ReceiveSomeMessagesProof
  <2>1. PICK relayer \in Relayers, h \in Slots, proveState \in BOOLEAN,
             start \in 1..(MaxNonce + 2), end \in 1..(MaxNonce + 1) :
          \E processed \in (start - 1)..end :
            ReceiveMessagesProof(relayer, sourceHeaders[h], proveState, start, end, processed)
    BY <1>3 DEF ReceiveSomeMessagesProof
  <2>2. PICK processed \in (start - 1)..end :
          ReceiveMessagesProof(relayer, sourceHeaders[h], proveState, start, end, processed)
    BY <2>1
  <2>3. sourceHeaders[h] \in SourceState /\ start \in Nat /\ end \in Int /\ processed \in Int
    BY <1>0, LaneAssumption DEF TypeOK
  <2>4. /\ \E accepted \in Nat : Len(dispatched') = Len(dispatched) + accepted
        /\ \A i \in 1..Len(dispatched) : dispatched'[i] = dispatched[i]
    BY <1>0, <2>2, <2>3, DeliveryStep
  <2>5. outbound' = outbound /\ rewarded' = rewarded
    BY <2>2 DEF ReceiveMessagesProof, sourceVars
  <2>6. CASE Len(dispatched') = Len(dispatched)
    <3>1. dispatched' = dispatched
      BY <1>1, <2>4, <2>6, SeqEqual
    <3> QED
      BY <2>5, <3>1 DEF Channel!channelVars
  <2>7. CASE Len(dispatched') # Len(dispatched)
    <3>1. Len(dispatched') \in (Len(dispatched) + 1)..outbound.latest_generated_nonce
      <4>1. Len(dispatched') <= outbound.latest_generated_nonce
        BY <1>0, <2>5 DEF NonceOrder, DispatchedInOrderOnce
      <4> QED
        BY <1>1, <2>4, <2>7, <4>1
    <3>2. SubSeq(dispatched', 1, Len(dispatched)) = dispatched
      <4> DEFINE t == SubSeq(dispatched', 1, Len(dispatched))
                 n == Len(dispatched)
      <4>1. \A i \in 1..n : dispatched'[i] \in Delivery
        BY <1>1, <3>1, ElementOfSeq
      <4>2. /\ t \in Seq(Delivery)
            /\ Len(t) = IF 1 <= n THEN n - 1 + 1 ELSE 0
            /\ \A i \in 1..(n - 1 + 1) : t[i] = dispatched'[1 + i - 1]
        BY <1>1, <4>1, SubSeqProperties
      <4> HIDE DEF t
      <4>3. Len(t) = n /\ \A i \in 1..n : t[i] = dispatched'[i]
        BY <1>1, <4>2
      <4>4. \A i \in 1..Len(t) : t[i] = dispatched[i]
        BY <2>4, <4>3
      <4> QED
        BY <1>1, <4>2, <4>3, <4>4, SeqEqual DEF t
    <3>3. \A i \in (Len(dispatched) + 1)..Len(dispatched') : dispatched'[i].nonce = i
      BY <1>0, <1>1 DEF DispatchedInOrderOnce
    <3> QED
      BY <2>5, <3>1, <3>2, <3>3 DEF Channel!ChannelNext, Channel!Deliver
  <2> QED
    BY <2>6, <2>7
<1>4. CASE ReceiveSomeDeliveryProof
  <2>1. PICK h \in Slots : ReceiveMessagesDeliveryProof(targetHeaders[h])
    BY <1>4 DEF ReceiveSomeDeliveryProof
  <2>2. targetHeaders[h] \in InboundLaneData
    BY <1>0 DEF TypeOK
  <2>3. /\ outbound' = [outbound EXCEPT !.latest_received_nonce = LastDelivered(targetHeaders[h])]
        /\ outbound.latest_received_nonce < LastDelivered(targetHeaders[h])
    BY <1>0, <2>1, <2>2, ConfirmationStep
  <2>4. /\ outbound'.latest_generated_nonce = outbound.latest_generated_nonce
        /\ outbound'.latest_received_nonce = LastDelivered(targetHeaders[h])
    BY <1>1, <2>3 DEF OutboundLaneData
  <2>5. dispatched' = dispatched
    BY <2>1 DEF ReceiveMessagesDeliveryProof
  <2>6. Len(rewarded') \in (Len(rewarded) + 1)..Len(dispatched)
    <3>1. /\ Len(rewarded) = outbound.latest_received_nonce
          /\ Len(rewarded') = outbound'.latest_received_nonce
          /\ Len(rewarded') <= Len(dispatched)
      BY <1>0, <2>5 DEF RewardsMatchDispatches
    <3> QED
      BY <1>1, <2>3, <2>4, <3>1
  <2>7. rewarded' = SubSeq(dispatched, 1, Len(rewarded'))
    <3> DEFINE t == SubSeq(dispatched, 1, Len(rewarded'))
               n == Len(rewarded')
    <3>1. \A i \in 1..n : dispatched[i] \in Delivery
      BY <1>1, <2>6, ElementOfSeq
    <3>2. /\ t \in Seq(Delivery)
          /\ Len(t) = IF 1 <= n THEN n - 1 + 1 ELSE 0
          /\ \A i \in 1..(n - 1 + 1) : t[i] = dispatched[1 + i - 1]
      BY <1>1, <3>1, SubSeqProperties
    <3> HIDE DEF t
    <3>3. Len(t) = n /\ \A i \in 1..n : t[i] = dispatched[i]
      BY <1>1, <3>2
    <3>4. \A i \in 1..n : t[i] = rewarded'[i]
      BY <1>0, <2>5, <3>3 DEF RewardsMatchDispatches
    <3> QED
      BY <1>1, <3>2, <3>3, <3>4, SeqEqual DEF t
  <2> QED
    BY <2>4, <2>5, <2>6, <2>7 DEF Channel!ChannelNext, Channel!Acknowledge
<1>5. ASSUME UNCHANGED <<outbound, dispatched, rewarded>>
      PROVE  UNCHANGED Channel!channelVars
  BY <1>5 DEF Channel!channelVars
<1>6. CASE ImportSourceHeader
  BY <1>5, <1>6 DEF ImportSourceHeader, sourceVars
<1>7. CASE ImportTargetHeader
  BY <1>5, <1>7 DEF ImportTargetHeader, sourceVars
<1>8. CASE \E mode \in Modes : SetSourceMode(mode)
  BY <1>5, <1>8 DEF SetSourceMode
<1>9. CASE \E mode \in Modes : SetTargetMode(mode)
  BY <1>5, <1>9 DEF SetTargetMode, sourceVars
<1>10. CASE UNCHANGED vars
  BY <1>5, <1>10 DEF vars
<1> QED
  BY <1>2, <1>3, <1>4, <1>6, <1>7, <1>8, <1>9, <1>10 DEF Next

\* To its users the lane is a reliable channel: every message is delivered at most
\* once and in order, and the sender learns, in the same order, what became of it.
THEOREM LaneIsReliableChannel == Spec => ImplementsReliableChannel
<1>1. Init => Channel!ChannelInit
  BY DEF Init, InitOutboundLane, Channel!ChannelInit
<1>2. QueueInv /\ QueueInv' /\ [Next]_vars => [Channel!ChannelNext]_(Channel!channelVars)
  BY StepSimulation
<1> QED
  BY <1>1, <1>2, QueueInvariant, PTL DEF Spec, ImplementsReliableChannel, Channel!ChannelSpec

-----------------------------------------------------------------------------
(* The loops of the pallet.  A loop is a recursive function of the number of  *)
(* its rounds; a closed form that agrees with every round is such a function, *)
(* and agrees with any other by induction.                                    *)

\* prune_messages
LEMMA PruneLoopClosed ==
    ASSUME NEW lane \in OutboundLaneData
    PROVE  PruneLoop(lane) = LastPruned(lane) + 1
<1> DEFINE M == MaxMessagesToPruneAtOnce
           old == lane.oldest_unpruned_nonce
           rec == lane.latest_received_nonce
           C(i) == IF old <= rec THEN Lesser(old + i, rec + 1) ELSE old
           Def(g) == [i \in 0..M |-> IF i = 0 THEN old ELSE PruneRound(g[i - 1], rec)]
           g == [i \in 0..M |-> C(i)]
<1>1. M \in Nat /\ old \in Nat /\ rec \in Nat
  BY LaneAssumption DEF OutboundLaneData
<1>2. C(0) = old
  BY <1>1 DEF Lesser
<1>3. \A i \in 1..M : C(i) = PruneRound(C(i - 1), rec)
  BY <1>1 DEF Lesser, PruneRound
<1>4. C(M) = LastPruned(lane) + 1
  BY <1>1 DEF Lesser, LastPruned
<1>5. g = Def(g)
  <2>1. ASSUME NEW i \in 0..M PROVE g[i] = IF i = 0 THEN old ELSE PruneRound(g[i - 1], rec)
    <3>1. CASE i = 0
      BY <1>2, <3>1
    <3>2. CASE i # 0
      <4>1. i \in 1..M /\ i - 1 \in 0..M
        BY <1>1, <3>2
      <4>2. g[i] = C(i) /\ g[i - 1] = C(i - 1)
        BY <4>1
      <4> HIDE DEF C, g
      <4> QED BY <1>3, <3>2, <4>1, <4>2
    <3> QED BY <3>1, <3>2
  <2> QED BY <2>1
<1> DEFINE oldest == CHOOSE F : F = Def(F)
<1>6. oldest = Def(oldest)
  <2> HIDE DEF g
  <2> QED BY <1>5, Zenon
<1>7. PruneLoop(lane) = oldest[M]
  BY DEF PruneLoop
<1> HIDE DEF oldest, g, C
<1> DEFINE S == {i \in 0..M : oldest[i] = C(i)}
<1>8. 0 \in S
  BY <1>1, <1>2, <1>6
<1>9. ASSUME NEW i \in 0..M, i \in S, i < M PROVE i + 1 \in S
  <2>1. i + 1 \in 0..M /\ i + 1 \in 1..M /\ (i + 1) - 1 = i /\ i + 1 # 0
    BY <1>1, <1>9
  <2>2. oldest[i + 1] = PruneRound(oldest[i], rec) /\ oldest[i] = C(i)
    BY <1>6, <1>9, <2>1
  <2> QED BY <1>3, <2>1, <2>2
<1> HIDE DEF S
<1>10. M \in S
  BY <1>1, <1>8, <1>9, SetOfInterval
<1> QED BY <1>4, <1>7, <1>10 DEF S

\* The while loop of receive_state_update leaves the queue from the first unconfirmed entry.
LEMMA PopFrontClosed ==
    ASSUME NEW q \in Seq(UnrewardedRelayer), NEW n \in Nat
    PROVE  PopFront(q, n) = SubSeq(q, FirstUnconfirmed(q, n), Len(q))
<1> DEFINE M == Len(q)
           first == FirstUnconfirmed(q, n)
           from(i) == Lesser(i + 1, first)
           C(i) == SubSeq(q, from(i), M)
           Def(g) == [i \in 0..M |-> IF i = 0 THEN q ELSE PopRound(g[i - 1], n)]
           g == [i \in 0..M |-> C(i)]
<1>1. M \in Nat /\ first \in 1..(M + 1)
  BY LenProperties, FirstUnconfirmedProperties
<1>2. (\A j \in 1..(first - 1) : q[j].end <= n) /\ (first <= M => q[first].end > n)
  BY FirstUnconfirmedProperties
<1>3. \A j \in 1..M : q[j].end \in Nat
  BY EntryType
<1> HIDE DEF M, first
<1>4. C(0) = q
  <2>1. from(0) = 1
    BY <1>1 DEF Lesser
  <2>2. SubSeq(q, 1, Len(q)) = q
    BY SubSeqFull
  <2> QED BY <2>1, <2>2 DEF M
<1>5. ASSUME NEW i \in 1..M PROVE C(i) = PopRound(C(i - 1), n)
  <2> DEFINE a == from(i - 1)
             p == C(i - 1)
  <2>1. a \in 1..(M + 1) /\ from(i) \in 1..(M + 1) /\ from(i) = IF a < first THEN a + 1 ELSE a
    BY <1>1 DEF Lesser
  <2>2. p \in Seq(UnrewardedRelayer) /\ Len(p) = M - a + 1 /\ \A k \in 1..(M - a + 1) : p[k] = q[a + k - 1]
    BY <2>1, SubSeqProperties, SMTT(30) DEF M
  <2> HIDE DEF a, p
  <2>3. CASE p = <<>>
    <3>1. Len(p) = 0
      BY <2>3
    <3>2. a = M + 1
      BY <1>1, <2>1, <2>2, <3>1
    <3>3. from(i) = a
      BY <1>1, <2>1, <3>2
    <3> QED BY <2>3, <3>3 DEF PopRound, a, p
  <2>4. CASE p # <<>>
    <3>1. Len(p) # 0 /\ Len(p) \in Nat
      BY <2>2, <2>4, EmptySeq, LenProperties
    <3>2. a \in 1..M /\ Head(p) = q[a]
      <4>1. a \in 1..M /\ 1 \in 1..(M - a + 1) /\ a + 1 - 1 = a
        BY <1>1, <2>1, <2>2, <3>1
      <4>2. p[1] = q[a]
        BY <2>2, <4>1
      <4> QED BY <2>2, <2>4, <4>1, <4>2, HeadTailProperties
    <3>3. CASE a < first
      <4>1. Head(p).end <= n
        BY <1>1, <1>2, <2>1, <3>2, <3>3
      <4>2. PopRound(p, n) = Tail(p)
        BY <2>4, <4>1 DEF PopRound
      <4>3. Tail(p) = SubSeq(q, a + 1, M)
        <5> DEFINE t == Tail(p)
                   u == SubSeq(q, a + 1, M)
        <5>1. t \in Seq(UnrewardedRelayer) /\ Len(t) = M - a /\ \A k \in 1..Len(t) : t[k] = p[k + 1]
          BY <1>1, <2>2, <2>4, <3>2, HeadTailProperties
        <5>2. u \in Seq(UnrewardedRelayer) /\ Len(u) = M - a /\ \A k \in 1..(M - a) : u[k] = q[a + k]
          <6>1. a + 1 \in 1..(M + 1) /\ a + 1 \in Int
            BY <1>1, <3>2
          <6>2. /\ u \in Seq(UnrewardedRelayer)
                /\ Len(u) = IF a + 1 <= M THEN M - (a + 1) + 1 ELSE 0
                /\ \A k \in 1..(M - (a + 1) + 1) : u[k] = q[(a + 1) + k - 1]
            BY <1>1, <6>1, SubSeqProperties, SMTT(30) DEF M
          <6>3. M - (a + 1) + 1 = M - a /\ \A k \in 1..(M - a) : (a + 1) + k - 1 = a + k
            BY <1>1, <3>2
          <6> QED BY <1>1, <3>2, <6>2, <6>3, SMTT(40)
        <5>3. ASSUME NEW k \in 1..(M - a) PROVE t[k] = u[k]
          <6>1. k + 1 \in 1..(M - a + 1) /\ a + (k + 1) - 1 = a + k
            BY <1>1, <3>2
          <6>2. p[k + 1] = q[a + k]
            BY <2>2, <6>1
          <6> QED BY <5>1, <5>2, <6>2
        <5> HIDE DEF t, u
        <5>4. t = u
          BY <5>1, <5>2, <5>3, SeqEqual
        <5> QED BY <5>4 DEF t, u
      <4>4. from(i) = a + 1
        BY <2>1, <3>3
      <4> QED BY <4>2, <4>3, <4>4 DEF p
    <3>4. CASE ~(a < first)
      <4>1. a = first
        BY <1>1, <2>1, <3>4 DEF a, Lesser
      <4>2. ~(Head(p).end <= n)
        BY <1>2, <1>3, <3>2, <4>1
      <4>3. PopRound(p, n) = p
        BY <4>2 DEF PopRound
      <4>4. from(i) = a
        BY <2>1, <3>4
      <4> QED BY <4>3, <4>4 DEF p, a
    <3> QED BY <3>3, <3>4
  <2> QED BY <2>3, <2>4
<1>6. C(M) = SubSeq(q, first, M)
  BY <1>1 DEF Lesser
<1>7. g = Def(g)
  <2>1. ASSUME NEW i \in 0..M PROVE g[i] = IF i = 0 THEN q ELSE PopRound(g[i - 1], n)
    <3>1. CASE i = 0
      BY <1>4, <3>1
    <3>2. CASE i # 0
      <4>1. i \in 1..M /\ i - 1 \in 0..M
        BY <1>1, <3>2
      <4>2. g[i] = C(i) /\ g[i - 1] = C(i - 1)
        BY <4>1
      <4> HIDE DEF C, g
      <4> QED BY <1>5, <3>2, <4>1, <4>2
    <3> QED BY <3>1, <3>2
  <2> QED BY <2>1
<1> DEFINE popped == CHOOSE F : F = Def(F)
<1>8. popped = Def(popped)
  <2> HIDE DEF g
  <2> QED BY <1>7, Zenon
<1>9. PopFront(q, n) = popped[M]
  BY DEF PopFront, M
<1> HIDE DEF popped, g, C
<1> DEFINE S == {i \in 0..M : popped[i] = C(i)}
<1>10. 0 \in S
  BY <1>1, <1>4, <1>8
<1>11. ASSUME NEW i \in 0..M, i \in S, i < M PROVE i + 1 \in S
  <2>1. i + 1 \in 0..M /\ i + 1 \in 1..M /\ (i + 1) - 1 = i /\ i + 1 # 0
    BY <1>1, <1>11
  <2>2. popped[i + 1] = PopRound(popped[i], n) /\ popped[i] = C(i)
    BY <1>8, <1>11, <2>1
  <2> QED BY <1>5, <2>1, <2>2
<1> HIDE DEF S
<1>12. 0 <= M /\ M \in 0..M
  BY <1>1
<1>13. M \in S
  BY <1>1, <1>10, <1>11, <1>12, SetOfInterval
<1> QED BY <1>6, <1>9, <1>13 DEF S, M, first

\* DropConfirmed is what the while loop leaves, with its front entry trimmed.
LEMMA DropIsPopAndTrim ==
    ASSUME NEW q \in Seq(UnrewardedRelayer), NEW n \in Nat, NEW p, p = PopFront(q, n)
    PROVE  DropConfirmed(q, n) = IF p = <<>> THEN <<>> ELSE <<TrimEntry(Head(p), n)>> \o Tail(p)
<1> DEFINE M == Len(q)
           first == FirstUnconfirmed(q, n)
           d == DropConfirmed(q, n)
           len == M - first + 1
           V(i) == IF i = 1 THEN TrimEntry(q[first], n) ELSE q[first + i - 1]
<1>1. M \in Nat /\ first \in 1..(M + 1)
  BY LenProperties, FirstUnconfirmedProperties
<1>2. d = [i \in 1..len |-> V(i)]
  BY DEF DropConfirmed
<1>3. p = SubSeq(q, first, M)
  BY PopFrontClosed
<1> HIDE DEF M, first, d, V
<1>4. len \in Nat
  BY <1>1
<1>5. p \in Seq(UnrewardedRelayer) /\ Len(p) = len /\ \A k \in 1..len : p[k] = q[first + k - 1]
  BY <1>1, <1>3, SubSeqProperties, SMTT(30) DEF M
<1>6. CASE p = <<>>
  <2>1. len = 0
    BY <1>5, <1>6
  <2>2. d = <<>>
    <3>1. 1..len = {}
      BY <2>1
    <3>2. d = [i \in {} |-> V(i)]
      BY <1>2, <3>1
    <3> QED BY <3>2
  <2> QED BY <1>6, <2>2 DEF d
<1>7. CASE p # <<>>
  <2> DEFINE t == Tail(p)
             h == <<TrimEntry(Head(p), n)>>
             r == h \o t
  <2>1. len # 0 /\ len >= 1
    BY <1>4, <1>5, <1>7, EmptySeq
  <2>2. p[1] \in UnrewardedRelayer /\ Head(p) = p[1] /\ p[1] = q[first]
    <3>1. 1 \in 1..len /\ first + 1 - 1 = first
      BY <1>1, <1>4, <2>1
    <3>2. p[1] = q[first]
      BY <1>5, <3>1
    <3> QED BY <1>5, <1>7, <3>1, <3>2, ElementOfSeq, HeadTailProperties
  <2>3. t \in Seq(UnrewardedRelayer) /\ Len(t) = len - 1 /\ \A k \in 1..Len(t) : t[k] = p[k + 1]
    BY <1>5, <1>7, HeadTailProperties
  <2>4. TrimEntry(Head(p), n) \in UnrewardedRelayer
    BY <2>2, TrimEntryProperties
  <2>5. h \in Seq(UnrewardedRelayer) /\ Len(h) = 1 /\ h[1] = TrimEntry(Head(p), n)
    BY <2>4
  <2> HIDE DEF h, t
  <2>6. /\ r \in Seq(UnrewardedRelayer) /\ Len(r) = 1 + (len - 1)
        /\ \A k \in 1..(1 + (len - 1)) : r[k] = IF k <= 1 THEN h[k] ELSE t[k - 1]
    <3>1. /\ r \in Seq(UnrewardedRelayer) /\ Len(r) = Len(h) + Len(t)
          /\ \A k \in 1..(Len(h) + Len(t)) : r[k] = IF k <= Len(h) THEN h[k] ELSE t[k - Len(h)]
      BY <2>3, <2>5, ConcatProperties, ZenonT(40)
    <3> HIDE DEF r
    <3> QED BY <2>3, <2>5, <3>1
  <2> HIDE DEF r
  <2>7. DOMAIN r = 1..len
    BY <1>4, <2>6, LenProperties
  <2>8. ASSUME NEW k \in 1..len PROVE r[k] = d[k]
    <3>1. d[k] = V(k)
      BY <1>2
    <3>2. CASE k = 1
      <4>1. r[1] = h[1]
        BY <2>1, <2>6, <1>4
      <4> QED BY <2>2, <2>5, <3>1, <3>2, <4>1 DEF V
    <3>3. CASE k # 1
      <4>1. k - 1 \in 1..(len - 1) /\ ~(k <= 1) /\ (k - 1) + 1 = k /\ k \in 1..(1 + (len - 1))
        BY <1>4, <3>3
      <4>2. r[k] = t[k - 1]
        BY <2>6, <4>1
      <4>3. t[k - 1] = p[k]
        BY <2>3, <4>1
      <4> QED BY <1>5, <3>1, <3>3, <4>2, <4>3 DEF V
    <3> QED BY <3>2, <3>3
  <2>9. d \in Seq(UnrewardedRelayer) /\ Len(d) = len
    <3>1. d \in Seq(UnrewardedRelayer)
      BY DropConfirmedProperties DEF d
    <3>2. DOMAIN d = 1..len /\ DOMAIN d = 1..Len(d) /\ Len(d) \in Nat
      BY <1>2, <3>1, LenProperties
    <3> QED BY <1>4, <3>1, <3>2
  <2>10. Len(r) = len
    BY <1>4, <2>6
  <2>11. r = d
    BY <2>6, <2>8, <2>9, <2>10, SeqEqual
  <2> QED BY <1>7, <2>11 DEF r, h, t, d
<1> QED BY <1>6, <1>7

-----------------------------------------------------------------------------
(* extract_dispatch_results. *)

ExtractErrors == {"EmptyUnrewardedRelayerEntry", "NonConsecutiveUnrewardedRelayerEntries",
                  "FailedToConfirmFutureMessages", "InvalidNumberOfDispatchResults"}
ExtractState == [result : {"ConfirmedMessages"} \cup ExtractErrors,
                 last_entry_end : SUBSET Nat, dispatch_results : Seq(BOOLEAN)]
NothingExtracted == [result |-> "ConfirmedMessages", last_entry_end |-> {}, dispatch_results |-> <<>>]

\* What a round asks of an entry.
EntryInOrder(e, last_entry_end, latest) ==
    /\ e.begin <= e.end
    /\ last_entry_end \subseteq {e.begin - 1}
    /\ e.end <= latest
    /\ Len(e.dispatch_results) = e.end - e.begin + 1

\* The results that a round takes from an entry.
NewBits(e, received, latest) ==
    LET newBegin == Greater(e.begin, received + 1)
        newEnd == Lesser(e.end, latest)
    IN  IF newBegin > newEnd THEN <<>>
        ELSE SubSeq(e.dispatch_results, newBegin - e.begin + 1, Len(e.dispatch_results))

\* The results that an entry adds are results.
LEMMA NewBitsType ==
    ASSUME NEW e \in UnrewardedRelayer, NEW received \in Nat, NEW latest \in Nat
    PROVE  NewBits(e, received, latest) \in Seq(BOOLEAN)
<1> DEFINE from == Greater(e.begin, received + 1) - e.begin + 1
           r == e.dispatch_results
<1>1. e.begin \in Nat /\ r \in Seq(BOOLEAN)
  BY DEF UnrewardedRelayer
<1>2. from \in Int /\ from >= 1
  BY <1>1 DEF Greater
<1>3. Len(r) \in Nat
  BY <1>1, LenProperties
<1> HIDE DEF from
<1>4. SubSeq(r, from, Len(r)) \in Seq(BOOLEAN)
  BY <1>1, <1>2, <1>3, SubSeqProperties, SMTT(30)
<1>5. <<>> \in Seq(BOOLEAN)
  BY EmptySeq
<1>6. NewBits(e, received, latest) \in {<<>>, SubSeq(r, from, Len(r))}
  BY DEF NewBits, from
<1> QED BY <1>4, <1>5, <1>6

\* One round: an entry in order adds its new results, any other is an error, and the
\* first error stays.
LEMMA ExtractRoundFacts ==
    ASSUME NEW s \in ExtractState, NEW e \in UnrewardedRelayer, NEW received \in Nat,
           NEW latest \in Nat, NEW t, t = ExtractRound(s, e, received, latest)
    PROVE  /\ t \in ExtractState
           /\ t.result = "ConfirmedMessages" <=>
                s.result = "ConfirmedMessages" /\ EntryInOrder(e, s.last_entry_end, latest)
           /\ t.result = "ConfirmedMessages" =>
                /\ t.last_entry_end = {e.end}
                /\ t.dispatch_results = s.dispatch_results \o NewBits(e, received, latest)
<1> DEFINE bits == NewBits(e, received, latest)
           Failed(error) == [s EXCEPT !.result = error]
           ok == [s EXCEPT !.last_entry_end = {e.end}, !.dispatch_results = @ \o bits]
<1>1. bits \in Seq(BOOLEAN)
  BY NewBitsType
<1>2. e.begin \in Nat /\ e.end \in Nat /\ Len(e.dispatch_results) \in Nat
  BY LenProperties DEF UnrewardedRelayer
<1>3. t = IF s.result # "ConfirmedMessages" THEN s
          ELSE IF e.end < e.begin THEN Failed("EmptyUnrewardedRelayerEntry")
          ELSE IF ~(s.last_entry_end \subseteq {e.begin - 1})
          THEN Failed("NonConsecutiveUnrewardedRelayerEntries")
          ELSE IF e.end > latest THEN Failed("FailedToConfirmFutureMessages")
          ELSE IF Len(e.dispatch_results) # e.end - e.begin + 1
          THEN Failed("InvalidNumberOfDispatchResults") ELSE ok
  BY DEF ExtractRound, NewBits
<1>4. \A error \in ExtractErrors : Failed(error) \in ExtractState /\ Failed(error).result # "ConfirmedMessages"
  BY DEF ExtractState, ExtractErrors
<1>5. /\ ok \in ExtractState /\ ok.result = s.result
      /\ ok.last_entry_end = {e.end} /\ ok.dispatch_results = s.dispatch_results \o bits
  <2>1. s.dispatch_results \in Seq(BOOLEAN)
    BY DEF ExtractState
  <2>2. s.dispatch_results \o bits \in Seq(BOOLEAN)
    BY <1>1, <2>1, ConcatProperties
  <2>3. ok = [result |-> s.result, last_entry_end |-> {e.end}, dispatch_results |-> s.dispatch_results \o bits]
    <3> DEFINE u == [s EXCEPT !.last_entry_end = {e.end}]
               x == s.dispatch_results \o bits
    <3>1. s = [result |-> s.result, last_entry_end |-> s.last_entry_end,
               dispatch_results |-> s.dispatch_results]
      BY DEF ExtractState
    <3>2. u = [result |-> s.result, last_entry_end |-> {e.end},
               dispatch_results |-> s.dispatch_results]
      BY <3>1
    <3>3. ok = [u EXCEPT !.dispatch_results = u.dispatch_results \o bits]
      <4> HIDE DEF bits
      <4> QED OBVIOUS
    <3>4. u.dispatch_results = s.dispatch_results
      BY <3>2
    <3> HIDE DEF u, bits, ok
    <3> QED BY <3>2, <3>3, <3>4
  <2>4. s.result \in {"ConfirmedMessages"} \cup ExtractErrors
    BY DEF ExtractState
  <2> HIDE DEF bits, ok
  <2> QED BY <1>2, <2>2, <2>3, <2>4 DEF ExtractState
<1>6. EntryInOrder(e, s.last_entry_end, latest) <=>
        /\ ~(e.end < e.begin) /\ s.last_entry_end \subseteq {e.begin - 1} /\ ~(e.end > latest)
        /\ Len(e.dispatch_results) = e.end - e.begin + 1
  BY <1>2 DEF EntryInOrder
<1> DEFINE o == s.last_entry_end \subseteq {e.begin - 1}
           l == Len(e.dispatch_results) = e.end - e.begin + 1
<1>7. t = IF s.result # "ConfirmedMessages" THEN s
          ELSE IF e.end < e.begin THEN Failed("EmptyUnrewardedRelayerEntry")
          ELSE IF ~o THEN Failed("NonConsecutiveUnrewardedRelayerEntries")
          ELSE IF e.end > latest THEN Failed("FailedToConfirmFutureMessages")
          ELSE IF ~l THEN Failed("InvalidNumberOfDispatchResults") ELSE ok
  BY <1>3
<1> HIDE DEF Failed, ok, bits, o, l
<1>8. CASE s.result # "ConfirmedMessages"
  BY <1>7, <1>8
<1>9. CASE s.result = "ConfirmedMessages" /\ EntryInOrder(e, s.last_entry_end, latest)
  <2>1. t = ok
    BY <1>6, <1>7, <1>9 DEF o, l
  <2> QED BY <1>5, <1>9, <2>1 DEF bits
<1>10. CASE s.result = "ConfirmedMessages" /\ ~EntryInOrder(e, s.last_entry_end, latest)
  <2>1. e.end < e.begin \/ ~o \/ e.end > latest \/ ~l
    BY <1>6, <1>10 DEF o, l
  <2>2. \E error \in ExtractErrors : t = Failed(error)
    BY <1>7, <1>10, <2>1 DEF ExtractErrors
  <2> QED BY <1>4, <1>10, <2>2
<1> QED BY <1>8, <1>9, <1>10

\* A round that confirms an entry adds its new results.
AddsBits(s, t, e, received, latest) ==
    t.result = "ConfirmedMessages" =>
        t.dispatch_results = s.dispatch_results \o NewBits(e, received, latest)

\* It does, on every state of the loop.
LEMMA ExtractRoundAdds ==
    ASSUME NEW s \in ExtractState, NEW e \in UnrewardedRelayer, NEW received \in Nat,
           NEW latest \in Nat
    PROVE  AddsBits(s, ExtractRound(s, e, received, latest), e, received, latest)
<1> DEFINE t == ExtractRound(s, e, received, latest)
<1> HIDE DEF t
<1>1. t = ExtractRound(s, e, received, latest)
  BY DEF t
<1>2. t.result = "ConfirmedMessages" =>
        t.dispatch_results = s.dispatch_results \o NewBits(e, received, latest)
  BY <1>1, ExtractRoundFacts
<1> QED BY <1>1, <1>2 DEF AddsBits

\* F[i] is the state of the loop after i rounds.
IsExtraction(F, q, received, latest) ==
    /\ F[0] = NothingExtracted
    /\ \A i \in 1..Len(q) : F[i] = ExtractRound(F[i - 1], q[i], received, latest)
    /\ \A i \in 0..Len(q) : F[i] \in ExtractState

\* extract_dispatch_results runs through its rounds.
LEMMA ExtractionExists ==
    ASSUME NEW q \in Seq(UnrewardedRelayer), NEW received \in Nat, NEW latest \in Nat
    PROVE  \E F : /\ IsExtraction(F, q, received, latest)
                  /\ ExtractDispatchResults(q, received, latest) = F[Len(q)]
<1> DEFINE M == Len(q)
           V == ExtractState
           Round(s, i) == ExtractRound(s, q[i], received, latest)
           step == [i \in 1..M |-> [s \in V |-> Round(s, i)]]
           Def(g) == [i \in 0..M |-> IF i = 0 THEN NothingExtracted ELSE Round(g[i - 1], i)]
<1>1. M \in Nat /\ 0 <= M /\ 0 + 1 = 1
  BY LenProperties
<1>2. \A i \in 1..M : \A s \in V : Round(s, i) \in V
  BY EntryType, ExtractRoundFacts
<1> HIDE DEF M, V, Round
<1>3. step \in [(0 + 1)..M -> [V -> V]]
  BY <1>1, <1>2
<1>4. NothingExtracted \in V
  BY EmptySeq DEF NothingExtracted, ExtractState, V
<1>5. PICK g \in [0..M -> V] : IsLoop(g, 0, M, NothingExtracted, step)
  <2> HIDE DEF step
  <2> QED BY <1>1, <1>3, <1>4, LoopExists
<1>6. \A i \in 1..M : step[i][g[i - 1]] = Round(g[i - 1], i)
  <2> SUFFICES ASSUME NEW i \in 1..M PROVE step[i][g[i - 1]] = Round(g[i - 1], i)
    OBVIOUS
  <2>1. i - 1 \in 0..M
    BY <1>1
  <2>2. g[i - 1] \in V
    BY <1>5, <2>1
  <2> QED BY <2>2
<1>7. g = Def(g)
  <2>1. g = [i \in 0..M |-> IF i = 0 THEN NothingExtracted ELSE step[i][g[i - 1]]]
    BY <1>5 DEF IsLoop
  <2> HIDE DEF step
  <2>2. ASSUME NEW i \in 0..M
        PROVE  g[i] = IF i = 0 THEN NothingExtracted ELSE Round(g[i - 1], i)
    <3>1. i # 0 => i \in 1..M
      BY <1>1
    <3>2. g[i] = IF i = 0 THEN NothingExtracted ELSE step[i][g[i - 1]]
      BY <2>1, Zenon
    <3> QED BY <1>6, <3>1, <3>2
  <2> QED BY <1>5, <2>2
<1> DEFINE F == CHOOSE f : f = Def(f)
<1>8. F = Def(F)
  BY <1>7, Zenon
<1>9. ExtractDispatchResults(q, received, latest) = F[M]
  BY DEF ExtractDispatchResults, M, Round, NothingExtracted
<1> HIDE DEF F
<1>10. F[0] = NothingExtracted
  BY <1>1, <1>8
<1>11. \A i \in 1..M : F[i] = Round(F[i - 1], i)
  <2> SUFFICES ASSUME NEW i \in 1..M PROVE F[i] = Round(F[i - 1], i)
    OBVIOUS
  <2>1. i \in 0..M /\ i # 0
    BY <1>1
  <2> QED BY <1>8, <2>1
<1> DEFINE S == {i \in 0..M : F[i] \in V}
<1>12. 0 \in S
  BY <1>1, <1>4, <1>10
<1>13. ASSUME NEW i \in 0..M, i \in S, i < M PROVE i + 1 \in S
  <2>1. i + 1 \in 0..M /\ i + 1 \in 1..M /\ (i + 1) - 1 = i
    BY <1>1, <1>13
  <2>2. F[i + 1] = Round(F[i], i + 1) /\ F[i] \in V
    BY <1>11, <1>13, <2>1
  <2> QED BY <1>2, <2>1, <2>2
<1> HIDE DEF S
<1>14. \A i \in 0..M : i \in S
  BY <1>1, <1>12, <1>13, SetOfInterval
<1>15. \A i \in 0..M : F[i] \in V
  BY <1>14 DEF S
<1>16. IsExtraction(F, q, received, latest)
  BY <1>10, <1>11, <1>15 DEF IsExtraction, M, V, Round
<1> QED BY <1>9, <1>16 DEF M

\* The first i entries are in order.
ValidUpTo(q, i, latest) ==
    \A j \in 1..i :
        /\ q[j].begin <= q[j].end
        /\ j > 1 => q[j].begin = q[j - 1].end + 1
        /\ q[j].end <= latest
        /\ Len(q[j].dispatch_results) = q[j].end - q[j].begin + 1

\* The nonces that the loop expects an entry to follow.
LastEnd(q, i) == IF i = 0 THEN {} ELSE {q[i].end}

\* One more entry is in order if it follows the last one.
LEMMA ValidNext ==
    ASSUME NEW q \in Seq(UnrewardedRelayer), NEW latest \in Nat, NEW i \in 0..Len(q), i < Len(q)
    PROVE  ValidUpTo(q, i + 1, latest) <=>
             ValidUpTo(q, i, latest) /\ EntryInOrder(q[i + 1], LastEnd(q, i), latest)
<1> DEFINE OK(j) == /\ q[j].begin <= q[j].end
                    /\ j > 1 => q[j].begin = q[j - 1].end + 1
                    /\ q[j].end <= latest
                    /\ Len(q[j].dispatch_results) = q[j].end - q[j].begin + 1
<1>1. Len(q) \in Nat /\ i \in Nat /\ i + 1 \in 1..Len(q)
  BY LenProperties
<1>2. 1..(i + 1) = 1..i \cup {i + 1}
  BY <1>1
<1>3. q[i + 1].begin \in Nat /\ (i # 0 => q[i].end \in Nat)
  <2>1. i # 0 => i \in 1..Len(q)
    BY <1>1
  <2> QED BY <1>1, <2>1, EntryType
<1>4. OK(i + 1) <=> EntryInOrder(q[i + 1], LastEnd(q, i), latest)
  <2>1. (i + 1 > 1) <=> i # 0
    BY <1>1
  <2>2. (i + 1) - 1 = i
    BY <1>1
  <2>3. (i + 1 > 1 => q[i + 1].begin = q[i].end + 1) <=> LastEnd(q, i) \subseteq {q[i + 1].begin - 1}
    <3>1. CASE i = 0
      BY <2>1, <3>1 DEF LastEnd
    <3>2. CASE i # 0
      <4>1. LastEnd(q, i) = {q[i].end}
        BY <3>2 DEF LastEnd
      <4>2. LastEnd(q, i) \subseteq {q[i + 1].begin - 1} <=> q[i].end = q[i + 1].begin - 1
        BY <4>1
      <4> DEFINE x == q[i].end
                 y == q[i + 1].begin
      <4>3. x \in Nat /\ y \in Nat
        BY <1>3, <3>2
      <4> HIDE DEF x, y
      <4>4. x = y - 1 <=> y = x + 1
        BY <4>3
      <4> QED BY <2>1, <3>2, <4>2, <4>4 DEF x, y
    <3> QED BY <3>1, <3>2
  <2> QED BY <2>2, <2>3 DEF EntryInOrder
<1> HIDE DEF OK
<1>5. ValidUpTo(q, i + 1, latest) <=> \A j \in 1..(i + 1) : OK(j)
  BY DEF ValidUpTo, OK
<1>6. ValidUpTo(q, i, latest) <=> \A j \in 1..i : OK(j)
  BY DEF ValidUpTo, OK
<1> QED BY <1>2, <1>4, <1>5, <1>6

\* The loop goes on exactly while the entries are in order.
LEMMA ExtractionValid ==
    ASSUME NEW q \in Seq(UnrewardedRelayer), NEW received \in Nat, NEW latest \in Nat,
           NEW F, IsExtraction(F, q, received, latest), NEW n \in 0..Len(q)
    PROVE  /\ F[n].result = "ConfirmedMessages" <=> ValidUpTo(q, n, latest)
           /\ ValidUpTo(q, n, latest) => F[n].last_entry_end = LastEnd(q, n)
<1> DEFINE M == Len(q)
           Holds(i) == /\ F[i].result = "ConfirmedMessages" <=> ValidUpTo(q, i, latest)
                       /\ ValidUpTo(q, i, latest) => F[i].last_entry_end = LastEnd(q, i)
           S == {i \in 0..M : Holds(i)}
<1>1. M \in Nat /\ 0 <= M
  BY LenProperties
<1>2. 0 \in S
  <2>1. ValidUpTo(q, 0, latest)
    <3>1. 1..0 = {}
      OBVIOUS
    <3> QED BY <3>1 DEF ValidUpTo
  <2>2. F[0] = NothingExtracted
    BY DEF IsExtraction
  <2> QED BY <1>1, <2>1, <2>2 DEF NothingExtracted, LastEnd
<1>3. ASSUME NEW i \in 0..M, i \in S, i < M PROVE i + 1 \in S
  <2> DEFINE s == F[i]
             t == F[i + 1]
             e == q[i + 1]
  <2>1. i + 1 \in 0..M /\ i + 1 \in 1..M /\ (i + 1) - 1 = i /\ i + 1 # 0
    BY <1>1, <1>3
  <2>2. t = ExtractRound(s, e, received, latest) /\ s \in ExtractState
    BY <1>3, <2>1 DEF IsExtraction
  <2>3. e \in UnrewardedRelayer
    BY <2>1, EntryType
  <2>4. Holds(i)
    BY <1>3
  <2>5. ValidUpTo(q, i + 1, latest) <=>
          ValidUpTo(q, i, latest) /\ EntryInOrder(e, LastEnd(q, i), latest)
    BY <1>3, ValidNext
  <2>6. LastEnd(q, i + 1) = {e.end}
    BY <2>1 DEF LastEnd
  <2> HIDE DEF s, t, e
  <2>7. /\ t.result = "ConfirmedMessages" <=>
             s.result = "ConfirmedMessages" /\ EntryInOrder(e, s.last_entry_end, latest)
        /\ t.result = "ConfirmedMessages" => t.last_entry_end = {e.end}
    BY <2>2, <2>3, ExtractRoundFacts
  <2>8. Holds(i + 1)
    BY <2>4, <2>5, <2>6, <2>7 DEF s, t
  <2> QED BY <2>1, <2>8
<1> HIDE DEF S
<1>4. \A i \in 0..M : i \in S
  BY <1>1, <1>2, <1>3, SetOfInterval
<1> QED BY <1>4 DEF S

\* Entries in order do not overlap.
LEMMA EntriesDisjoint ==
    ASSUME NEW q \in Seq(UnrewardedRelayer), NEW latest \in Nat, ValidUpTo(q, Len(q), latest),
           NEW i \in 1..Len(q), NEW n \in i..Len(q)
    PROVE  i < n => q[i].end < q[n].begin
<1> DEFINE M == Len(q)
           S == {j \in i..M : i < j => q[i].end < q[j].begin}
<1>1. M \in Nat /\ i \in Nat /\ i <= M
  BY LenProperties
<1>2. \A j \in 1..M : q[j].begin \in Nat /\ q[j].end \in Nat
  BY EntryType
<1>3. i \in S
  BY <1>1
<1>4. ASSUME NEW j \in i..M, j \in S, j < M PROVE j + 1 \in S
  <2>1. j \in 1..M /\ j + 1 \in 1..M /\ j + 1 \in i..M /\ j + 1 > 1 /\ (j + 1) - 1 = j /\ (j = i \/ i < j)
    BY <1>1, <1>4
  <2>2. q[j + 1].begin = q[j].end + 1 /\ q[j].begin <= q[j].end
    BY <2>1 DEF ValidUpTo
  <2> DEFINE a == q[i].end
             b == q[j].begin
             c == q[j].end
             d == q[j + 1].begin
  <2>3. a \in Nat /\ b \in Nat /\ c \in Nat /\ d \in Nat
    BY <1>1, <1>2, <2>1
  <2>4. (j = i => a = c) /\ (i < j => a < b) /\ d = c + 1 /\ b <= c
    BY <1>4, <2>2
  <2> HIDE DEF a, b, c, d
  <2>5. a < d
    BY <2>1, <2>3, <2>4
  <2> QED BY <2>1, <2>5 DEF a, d
<1> HIDE DEF S
<1>5. \A j \in i..M : j \in S
  BY <1>1, <1>3, <1>4, SetOfInterval
<1> QED BY <1>5 DEF S

\* DeliveryOf finds the entry of a nonce.
LEMMA ResultInEntry ==
    ASSUME NEW q \in Seq(UnrewardedRelayer), NEW latest \in Nat, ValidUpTo(q, Len(q), latest),
           NEW i \in 1..Len(q), NEW n \in Nat, q[i].begin <= n, n <= q[i].end
    PROVE  DeliveryOf(q, n).result = q[i].dispatch_results[n - q[i].begin + 1]
<1> DEFINE has(j) == q[j].begin <= n /\ n <= q[j].end
           k == CHOOSE j \in 1..Len(q) : has(j)
<1>1. k \in 1..Len(q) /\ has(k)
  OBVIOUS
<1>2. DeliveryOf(q, n).result = q[k].dispatch_results[n - q[k].begin + 1]
  BY DEF DeliveryOf
<1> HIDE DEF k
<1>3. Len(q) \in Nat
  BY LenProperties
<1>4. q[k].begin \in Nat /\ q[k].end \in Nat /\ q[i].begin \in Nat /\ q[i].end \in Nat
  BY <1>1, EntryType
<1>5. ~(i < k)
  <2> SUFFICES ASSUME i < k PROVE FALSE
    OBVIOUS
  <2>1. k \in i..Len(q)
    BY <1>1, <1>3
  <2>2. q[i].end < q[k].begin
    BY <2>1, EntriesDisjoint
  <2> QED BY <1>1, <1>4, <2>2
<1>6. ~(k < i)
  <2> SUFFICES ASSUME k < i PROVE FALSE
    OBVIOUS
  <2>1. i \in k..Len(q)
    BY <1>1, <1>3
  <2>2. q[k].end < q[i].begin
    BY <1>1, <2>1, EntriesDisjoint
  <2> QED BY <1>1, <1>4, <2>2
<1>7. i = k
  BY <1>1, <1>3, <1>5, <1>6
<1> QED BY <1>2, <1>7

\* How many of the newly confirmed messages are in the first i entries.
NewCount(q, i, received) == IF i = 0 THEN 0 ELSE Greater(0, q[i].end - received)

\* s holds the results of the count messages after received.
HoldsResults(s, q, received, count) ==
    /\ s \in Seq(BOOLEAN)
    /\ Len(s) = count
    /\ \A k \in 1..count : s[k] = DeliveryOf(q, received + k).result

\* The results that a round adds are those of the messages that are new in its entry.
LEMMA NewBitsAre ==
    ASSUME NEW q \in Seq(UnrewardedRelayer), NEW latest \in Nat, ValidUpTo(q, Len(q), latest),
           NEW received \in Nat, q[1].begin <= received + 1, NEW i \in 0..Len(q), i < Len(q)
    PROVE  LET bits == NewBits(q[i + 1], received, latest)
               old == NewCount(q, i, received)
               new == NewCount(q, i + 1, received)
           IN  /\ old \in Nat /\ new \in Nat /\ old <= new
               /\ bits \in Seq(BOOLEAN)
               /\ Len(bits) = new - old
               /\ \A k \in 1..(new - old) : bits[k] = DeliveryOf(q, received + (old + k)).result
<1> DEFINE e == q[i + 1]
           bits == NewBits(e, received, latest)
           old == NewCount(q, i, received)
           new == NewCount(q, i + 1, received)
           r == e.dispatch_results
           b == e.begin
           f == e.end
           nb == Greater(b, received + 1)
<1>1. Len(q) \in Nat /\ i \in Nat /\ i + 1 \in 1..Len(q) /\ (i # 0 => i \in 1..Len(q)) /\ i + 1 # 0
  BY LenProperties
<1>2. e \in UnrewardedRelayer /\ b \in Nat /\ f \in Nat /\ r \in Seq(BOOLEAN) /\ (i # 0 => q[i].end \in Nat)
  BY <1>1, EntryType
<1>3. b <= f /\ f <= latest /\ Len(r) = f - b + 1
  BY <1>1 DEF ValidUpTo
<1>4. i # 0 => b = q[i].end + 1
  <2>1. i # 0 => i + 1 > 1 /\ (i + 1) - 1 = i
    BY <1>1
  <2> QED BY <1>1, <2>1 DEF ValidUpTo
<1>5. i = 0 => b <= received + 1
  <2>1. i = 0 => i + 1 = 1
    OBVIOUS
  <2> QED BY <2>1
<1>6. bits \in Seq(BOOLEAN)
  BY <1>2, NewBitsType
<1>7. new = Greater(0, f - received)
  BY <1>1 DEF NewCount
<1>8. bits = IF nb > Lesser(f, latest) THEN <<>> ELSE SubSeq(r, nb - b + 1, Len(r))
  BY DEF NewBits
<1> DEFINE x == q[i].end
<1>9. old = (IF i = 0 THEN 0 ELSE Greater(0, x - received)) /\ (i # 0 => x \in Nat /\ b = x + 1)
  BY <1>2, <1>4 DEF NewCount
<1> HIDE DEF e, bits, old, new, r, b, f, x
<1>10. old \in Nat /\ new \in Nat /\ old <= new /\ Lesser(f, latest) = f
  BY <1>1, <1>2, <1>3, <1>7, <1>9, SMTT(40) DEF Greater, Lesser
<1>11. nb = received + old + 1 /\ nb \in Nat /\ nb >= b
  <2>1. CASE i = 0
    BY <1>2, <1>5, <1>9, <2>1 DEF Greater
  <2>2. CASE i # 0
    <3>1. old = Greater(0, x - received) /\ x \in Nat /\ b = x + 1
      BY <1>9, <2>2
    <3> QED BY <1>2, <3>1 DEF Greater
  <2> QED BY <2>1, <2>2
<1>12. CASE nb > f
  <2>1. new = old
    BY <1>1, <1>2, <1>3, <1>5, <1>7, <1>9, <1>12 DEF Greater
  <2>2. bits = <<>> /\ Len(<<>>) = 0
    BY <1>8, <1>10, <1>12
  <2>3. 1..(new - old) = {} /\ new - old = 0
    BY <1>10, <2>1
  <2> QED BY <1>6, <1>10, <2>2, <2>3 DEF e, bits, old, new
<1>13. CASE ~(nb > f)
  <2> DEFINE from == nb - b + 1
             len == Len(r)
  <2>1. bits = SubSeq(r, from, len)
    BY <1>8, <1>10, <1>13
  <2>2. new = f - received /\ from \in Int /\ from >= 1 /\ from <= len /\ len \in Int /\ len - from + 1 = new - old
    BY <1>2, <1>3, <1>7, <1>10, <1>11, <1>13 DEF Greater
  <2>3. \A j \in from..len : r[j] \in BOOLEAN
    <3> SUFFICES ASSUME NEW j \in from..len PROVE r[j] \in BOOLEAN
      OBVIOUS
    <3>1. j \in 1..Len(r)
      BY <2>2
    <3> QED BY <1>2, <3>1, ElementOfSeq
  <2> HIDE DEF from, len
  <2>4. Len(bits) = len - from + 1 /\ \A j \in 1..(len - from + 1) : bits[j] = r[from + j - 1]
    BY <2>1, <2>2, <2>3, SubSeqProperties
  <2>5. ASSUME NEW k \in 1..(new - old)
        PROVE  bits[k] = DeliveryOf(q, received + (old + k)).result
    <3> DEFINE n == received + (old + k)
    <3>1. bits[k] = r[from + k - 1]
      BY <2>2, <2>4
    <3>2. n \in Nat /\ b <= n /\ n <= f /\ from + k - 1 = n - b + 1
      <4> HIDE DEF nb
      <4>1. from = nb - b + 1 /\ k \in Nat /\ k >= 1 /\ k <= new - old
        BY <1>10 DEF from
      <4>2. new = f - received
        BY <2>2
      <4> QED BY <1>2, <1>10, <1>11, <4>1, <4>2
    <3> HIDE DEF n
    <3>3. DeliveryOf(q, n).result = r[n - b + 1]
      <4>1. q[i + 1].begin <= n /\ n <= q[i + 1].end
        BY <3>2 DEF e, b, f
      <4>2. DeliveryOf(q, n).result = q[i + 1].dispatch_results[n - q[i + 1].begin + 1]
        BY <1>1, <3>2, <4>1, ResultInEntry
      <4> QED BY <4>2 DEF e, b, r
    <3> QED BY <3>1, <3>2, <3>3 DEF n
  <2>6. Len(bits) = new - old
    BY <2>2, <2>4
  <2> QED BY <1>6, <1>10, <2>5, <2>6 DEF e, bits, old, new
<1> QED BY <1>12, <1>13

\* The results extracted from entries in order are those of the newly confirmed
\* messages of the entries so far.
LEMMA ExtractionResults ==
    ASSUME NEW q \in Seq(UnrewardedRelayer), NEW received \in Nat, NEW latest \in Nat,
           NEW F, IsExtraction(F, q, received, latest), ValidUpTo(q, Len(q), latest),
           q[1].begin <= received + 1, NEW n \in 0..Len(q)
    PROVE  HoldsResults(F[n].dispatch_results, q, received, NewCount(q, n, received))
<1> DEFINE M == Len(q)
           S == {i \in 0..M : HoldsResults(F[i].dispatch_results, q, received, NewCount(q, i, received))}
<1>1. M \in Nat /\ 0 <= M
  BY LenProperties
<1>2. 0 \in S
  <2>1. F[0].dispatch_results = <<>> /\ Len(<<>>) = 0 /\ 1..0 = {} /\ <<>> \in Seq(BOOLEAN)
    BY EmptySeq DEF IsExtraction, NothingExtracted
  <2>2. NewCount(q, 0, received) = 0
    BY DEF NewCount
  <2>3. HoldsResults(F[0].dispatch_results, q, received, 0)
    <3> DEFINE s == F[0].dispatch_results
    <3>1. s = <<>>
      BY <2>1
    <3> HIDE DEF s
    <3>2. HoldsResults(s, q, received, 0)
      BY <2>1, <3>1 DEF HoldsResults
    <3> QED BY <3>2 DEF s
  <2> QED BY <1>1, <2>2, <2>3
<1>3. ASSUME NEW i \in 0..M, i \in S, i < M PROVE i + 1 \in S
  <2> DEFINE s == F[i].dispatch_results
             t == F[i + 1].dispatch_results
             bits == NewBits(q[i + 1], received, latest)
             old == NewCount(q, i, received)
             new == NewCount(q, i + 1, received)
  <2>1. i + 1 \in 0..M /\ i + 1 \in 1..M /\ (i + 1) - 1 = i
    BY <1>1, <1>3
  <2>2. ValidUpTo(q, i + 1, latest)
    BY <1>1, <2>1 DEF ValidUpTo
  <2>3. F[i + 1].result = "ConfirmedMessages"
    BY <2>1, <2>2, ExtractionValid
  <2>4. t = s \o bits
    <3>1. F[i + 1] = ExtractRound(F[i], q[i + 1], received, latest) /\ F[i] \in ExtractState
      BY <1>3, <2>1 DEF IsExtraction
    <3>2. q[i + 1] \in UnrewardedRelayer
      BY <2>1, EntryType
    <3> DEFINE a == F[i]
               b == F[i + 1]
               e == q[i + 1]
    <3>3. b = ExtractRound(a, e, received, latest) /\ a \in ExtractState /\ e \in UnrewardedRelayer
          /\ b.result = "ConfirmedMessages"
      BY <2>3, <3>1, <3>2
    <3> HIDE DEF a, b, e
    <3>4. AddsBits(a, ExtractRound(a, e, received, latest), e, received, latest)
      BY ONLY <3>3, ExtractRoundAdds, received \in Nat, latest \in Nat
    <3>5. b.dispatch_results = a.dispatch_results \o NewBits(e, received, latest)
      BY <3>3, <3>4 DEF AddsBits
    <3> QED BY <3>5 DEF a, b, e
  <2>5. s \in Seq(BOOLEAN) /\ Len(s) = old /\ \A k \in 1..old : s[k] = DeliveryOf(q, received + k).result
    BY <1>3 DEF HoldsResults
  <2>6. /\ old \in Nat /\ new \in Nat /\ old <= new
        /\ bits \in Seq(BOOLEAN)
        /\ Len(bits) = new - old
        /\ \A k \in 1..(new - old) : bits[k] = DeliveryOf(q, received + (old + k)).result
    BY <1>3, NewBitsAre
  <2> HIDE DEF s, t, bits, old, new
  <2>7. /\ t \in Seq(BOOLEAN) /\ Len(t) = Len(s) + Len(bits)
        /\ \A k \in 1..(Len(s) + Len(bits)) : t[k] = IF k <= Len(s) THEN s[k] ELSE bits[k - Len(s)]
    BY <2>4, <2>5, <2>6, ConcatProperties
  <2>8. Len(s) + Len(bits) = new
    BY <2>5, <2>6
  <2>9. ASSUME NEW k \in 1..new PROVE t[k] = DeliveryOf(q, received + k).result
    <3>1. CASE k <= old
      <4>1. k \in 1..old
        BY <2>6, <3>1
      <4> QED BY <2>5, <2>7, <2>8, <3>1, <4>1
    <3>2. CASE ~(k <= old)
      <4>1. k - old \in 1..(new - old) /\ old + (k - old) = k
        BY <2>6, <3>2
      <4>2. t[k] = bits[k - old]
        BY <2>5, <2>7, <2>8, <3>2
      <4>3. bits[k - old] = DeliveryOf(q, received + (old + (k - old))).result
        BY <2>6, <4>1
      <4> QED BY <4>1, <4>2, <4>3
    <3> QED BY <3>1, <3>2
  <2>10. HoldsResults(t, q, received, new)
    BY <2>7, <2>8, <2>9 DEF HoldsResults
  <2> QED BY <2>1, <2>10 DEF t, new
<1> HIDE DEF S
<1>4. \A i \in 0..M : i \in S
  BY <1>1, <1>2, <1>3, SetOfInterval
<1> QED BY <1>4 DEF S

\* What ConfirmMatches says of one queue.
ConfirmsAsClosed(out, relayers, latest) ==
    LET received == out.latest_received_nonce
        confirmed == ConfirmDelivery(out, TotalUnrewardedMessages(relayers), latest, relayers)
    IN  IF latest > received /\ ConfirmsDelivery(out, relayers, latest)
        THEN /\ confirmed.result = "ConfirmedMessages"
             /\ confirmed.dispatch_results =
                  [i \in 1..(latest - received) |-> DeliveryOf(relayers, received + i).result]
        ELSE confirmed.result # "ConfirmedMessages"

\* confirm_delivery is its closed form on every queue, well formed or not.
LEMMA ConfirmDeliveryClosed ==
    ASSUME NEW out \in OutboundLaneData, NEW q \in Seq(UnrewardedRelayer), NEW latest \in Nat,
           q # <<>> => latest = q[Len(q)].end
    PROVE  ConfirmsAsClosed(out, q, latest)
<1> DEFINE received == out.latest_received_nonce
           gen == out.latest_generated_nonce
           total == TotalUnrewardedMessages(q)
           confirmed == ConfirmDelivery(out, total, latest, q)
           x == ExtractDispatchResults(q, received, latest)
           M == Len(q)
<1>1. received \in Nat /\ gen \in Nat
  BY DEF OutboundLaneData
<1>2. M \in Nat /\ (q # <<>> => 1 \in 1..M /\ M \in 1..M)
  BY LenProperties, EmptySeq
<1>3. total \in Int /\ (q = <<>> => total = 0) /\ (q # <<>> /\ total # 0 => total = q[M].end - q[1].begin + 1)
  <2>1. q # <<>> => q[M].end \in Nat /\ q[1].begin \in Nat
    BY <1>2, EntryType
  <2> QED BY <2>1 DEF TotalUnrewardedMessages
<1>4. PICK F : IsExtraction(F, q, received, latest) /\ x = F[M]
  BY <1>1, ExtractionExists
<1>5. M \in 0..M
  BY <1>2
<1>6. x.result = "ConfirmedMessages" <=> ValidUpTo(q, M, latest)
  BY <1>1, <1>4, <1>5, ExtractionValid
<1>7. ValidEntries(q, latest) <=> ValidUpTo(q, M, latest)
  BY <1>2 DEF ValidEntries, ValidUpTo
<1>8. ConfirmsDelivery(out, q, latest) <=>
        latest <= gen /\ latest - received <= total /\ ValidUpTo(q, M, latest)
  BY <1>7 DEF ConfirmsDelivery
<1> DEFINE Failed(error) == [result |-> error, last_entry_end |-> {}, dispatch_results |-> <<>>]
<1>9. confirmed = IF latest <= received THEN Failed("NoNewConfirmations")
                  ELSE IF latest > gen THEN Failed("FailedToConfirmFutureMessages")
                  ELSE IF latest - received > total
                  THEN Failed("TryingToConfirmMoreMessagesThanExpected") ELSE x
  BY DEF ConfirmDelivery
<1>10. /\ Failed("NoNewConfirmations").result # "ConfirmedMessages"
       /\ Failed("FailedToConfirmFutureMessages").result # "ConfirmedMessages"
       /\ Failed("TryingToConfirmMoreMessagesThanExpected").result # "ConfirmedMessages"
  OBVIOUS
<1> HIDE DEF received, gen, total, confirmed, x, M, Failed
<1>11. CASE latest > received /\ ConfirmsDelivery(out, q, latest)
  <2>1. confirmed = x
    BY <1>1, <1>3, <1>8, <1>9, <1>11
  <2>2. x.result = "ConfirmedMessages" /\ ValidUpTo(q, M, latest)
    BY <1>6, <1>8, <1>11
  <2>3. q # <<>> /\ total # 0
    BY <1>1, <1>3, <1>8, <1>11
  <2>4. q[1].begin <= received + 1 /\ latest = q[M].end
    <3> DEFINE b == q[1].begin
    <3>1. b \in Nat
      BY <1>2, <2>3, EntryType DEF M
    <3>2. total = latest - b + 1 /\ latest - received <= total /\ latest = q[M].end
      BY <1>3, <1>8, <1>11, <2>3 DEF M
    <3> HIDE DEF b
    <3>3. b <= received + 1
      BY <1>1, <3>1, <3>2
    <3> QED BY <3>2, <3>3 DEF b
  <2>5. HoldsResults(F[M].dispatch_results, q, received, NewCount(q, M, received))
    BY <1>1, <1>4, <1>5, <2>2, <2>4, ExtractionResults DEF M
  <2>6. NewCount(q, M, received) = latest - received
    <3>1. M # 0
      BY <1>2, <2>3
    <3> QED BY <1>1, <1>11, <2>4, <3>1 DEF NewCount, Greater
  <2> DEFINE s == x.dispatch_results
             len == latest - received
  <2>7. s \in Seq(BOOLEAN) /\ Len(s) = len /\ \A k \in 1..len : s[k] = DeliveryOf(q, received + k).result
    BY <1>4, <2>5, <2>6 DEF HoldsResults
  <2> HIDE DEF s, len
  <2>8. s = [i \in 1..len |-> DeliveryOf(q, received + i).result]
    <3>1. s \in [1..Len(s) -> BOOLEAN]
      BY <2>7
    <3>2. s = [i \in 1..len |-> s[i]]
      BY <2>7, <3>1
    <3> QED BY <2>7, <3>2
  <2> QED BY <1>11, <2>1, <2>2, <2>8 DEF ConfirmsAsClosed, s, len, confirmed, total, received
<1>12. CASE ~(latest > received /\ ConfirmsDelivery(out, q, latest))
  <2>1. latest <= received \/ latest > gen \/ latest - received > total \/ x.result # "ConfirmedMessages"
    BY <1>1, <1>3, <1>6, <1>8, <1>12
  <2>2. confirmed.result # "ConfirmedMessages"
    BY <1>9, <1>10, <2>1
  <2> QED BY <1>12, <2>2 DEF ConfirmsAsClosed, confirmed, total, received
<1> QED BY <1>11, <1>12

\* An entry with one field changed.
LEMMA ChangedEntry ==
    ASSUME NEW e \in UnrewardedRelayer, NEW n \in Nat, NEW results \in Seq(BOOLEAN)
    PROVE  /\ [e EXCEPT !.begin = n] \in UnrewardedRelayer
           /\ [e EXCEPT !.end = n] \in UnrewardedRelayer
           /\ [e EXCEPT !.end = n].dispatch_results = e.dispatch_results
           /\ [e EXCEPT !.dispatch_results = results] \in UnrewardedRelayer
BY DEF UnrewardedRelayer

\* A queue with one entry corrupted is still a queue.
LEMMA CorruptionsType ==
    ASSUME NEW q \in Seq(UnrewardedRelayer),
           \A i \in 1..Len(q) : q[i].end >= 1 /\ q[i].dispatch_results # <<>>,
           NEW p \in Corruptions(q)
    PROVE  p \in Seq(UnrewardedRelayer)
<1>1. CASE p = q
  BY <1>1
<1>2. CASE p # q
  <2>1. PICK i \in 1..Len(q) :
          p \in {[q EXCEPT ![i].begin = @ + 1], [q EXCEPT ![i].end = @ + 1],
                 [q EXCEPT ![i].end = @ - 1],
                 [q EXCEPT ![i].dispatch_results = Tail(@)],
                 [q EXCEPT ![i].end = @ + 1, ![i].dispatch_results = Append(@, TRUE)]}
    BY <1>2 DEF Corruptions
  <2> DEFINE e == q[i]
             r == e.dispatch_results
  <2>2. e \in UnrewardedRelayer /\ e.begin \in Nat /\ e.end \in Nat /\ r \in Seq(BOOLEAN)
    BY EntryType
  <2>3. e.end >= 1 /\ r # <<>>
    OBVIOUS
  <2>4. /\ [q EXCEPT ![i].begin = @ + 1] = [q EXCEPT ![i] = [e EXCEPT !.begin = e.begin + 1]]
        /\ [q EXCEPT ![i].end = @ + 1] = [q EXCEPT ![i] = [e EXCEPT !.end = e.end + 1]]
        /\ [q EXCEPT ![i].end = @ - 1] = [q EXCEPT ![i] = [e EXCEPT !.end = e.end - 1]]
        /\ [q EXCEPT ![i].dispatch_results = Tail(@)]
             = [q EXCEPT ![i] = [e EXCEPT !.dispatch_results = Tail(r)]]
    OBVIOUS
  <2>5. DOMAIN q = 1..Len(q)
    BY LenProperties
  <2> DEFINE f == [e EXCEPT !.end = e.end + 1]
             h == [f EXCEPT !.dispatch_results = Append(r, TRUE)]
  <2>6. e.begin + 1 \in Nat /\ e.end + 1 \in Nat /\ e.end - 1 \in Nat
    <3> DEFINE x == e.begin
               y == e.end
    <3>1. x \in Nat /\ y \in Nat /\ y >= 1
      BY <2>2, <2>3
    <3> HIDE DEF x, y
    <3>2. x + 1 \in Nat /\ y + 1 \in Nat /\ y - 1 \in Nat
      BY <3>1
    <3> QED BY <3>2 DEF x, y
  <2>7. f \in UnrewardedRelayer /\ f.dispatch_results = r
    <3> DEFINE y == e.end + 1
    <3>1. y \in Nat
      BY <2>6
    <3> HIDE DEF y, e
    <3>2. [e EXCEPT !.end = y] \in UnrewardedRelayer /\ [e EXCEPT !.end = y].dispatch_results = e.dispatch_results
      BY <2>2, <3>1, ChangedEntry
    <3> QED BY <3>2 DEF y
  <2>8. [q EXCEPT ![i].end = @ + 1, ![i].dispatch_results = Append(@, TRUE)] = [q EXCEPT ![i] = h]
    <3> DEFINE v == [q EXCEPT ![i] = f]
    <3>1. [q EXCEPT ![i].end = @ + 1, ![i].dispatch_results = Append(@, TRUE)]
            = [v EXCEPT ![i] = [v[i] EXCEPT !.dispatch_results = Append(v[i].dispatch_results, TRUE)]]
      BY Zenon
    <3>2. v[i] = f /\ f.dispatch_results = r
      BY <2>5, <2>7
    <3>3. [v EXCEPT ![i] = h] = [q EXCEPT ![i] = h]
      <4> HIDE DEF h, f
      <4> QED BY <2>5
    <3> HIDE DEF v, f, r
    <3> QED BY <3>1, <3>2, <3>3
  <2> HIDE DEF e, r, f
  <2>9. Tail(r) \in Seq(BOOLEAN) /\ Append(r, TRUE) \in Seq(BOOLEAN)
    BY <2>2, <2>3, HeadTailProperties, AppendProperties
  <2>10. [e EXCEPT !.begin = e.begin + 1] \in UnrewardedRelayer
    BY <2>2, <2>6, ChangedEntry
  <2>11. [e EXCEPT !.end = e.end + 1] \in UnrewardedRelayer
    BY <2>2, <2>6, ChangedEntry
  <2>12. [e EXCEPT !.end = e.end - 1] \in UnrewardedRelayer
    BY <2>2, <2>6, ChangedEntry
  <2>13. [e EXCEPT !.dispatch_results = Tail(r)] \in UnrewardedRelayer
    BY <2>2, <2>9, ChangedEntry
  <2>14. h \in UnrewardedRelayer
    BY <2>7, <2>9, ChangedEntry
  <2>15. \A x \in UnrewardedRelayer : [q EXCEPT ![i] = x] \in Seq(UnrewardedRelayer)
    BY ExceptSeq
  <2> HIDE DEF h
  <2>16. \E x \in UnrewardedRelayer : p = [q EXCEPT ![i] = x]
    BY <2>1, <2>4, <2>8, <2>10, <2>11, <2>12, <2>13, <2>14 DEF e, r
  <2> QED BY <2>15, <2>16
<1> QED BY <1>1, <1>2

\* confirm_delivery agrees with its closed form on every kept queue, corrupted or not.
LEMMA ConfirmMatchesHolds ==
    ASSUME QueueInv
    PROVE  ConfirmMatches
<1> SUFFICES ASSUME NEW h \in Slots, NEW relayers \in Corruptions(targetHeaders[h].relayers)
             PROVE  ConfirmsAsClosed(outbound, relayers,
                                     LastDelivered([targetHeaders[h] EXCEPT !.relayers = relayers]))
  BY DEF ConfirmMatches, ConfirmsAsClosed
<1> DEFINE lane == targetHeaders[h]
           q == lane.relayers
           corrupted == [lane EXCEPT !.relayers = relayers]
<1>1. outbound \in OutboundLaneData /\ lane \in InboundLaneData
  BY DEF QueueInv, LaneInv, TypeOK
<1>2. QueueConsecutive(lane) /\ QueueFaithful(lane, dispatched)
  BY DEF QueueInv, QueuesFaithful
<1>3. q \in Seq(UnrewardedRelayer) /\ lane.last_confirmed_nonce \in Nat
  BY <1>1 DEF InboundLaneData
<1>4. ASSUME NEW i \in 1..Len(q) PROVE q[i].end >= 1 /\ q[i].dispatch_results # <<>>
  <2>1. /\ q[i].begin \in Nat /\ q[i].end \in Nat
        /\ 1 <= q[i].begin /\ q[i].begin <= q[i].end
        /\ Len(q[i].dispatch_results) = q[i].end - q[i].begin + 1
    BY <1>1, <1>2, <1>4, QueueEntry
  <2> QED BY <2>1, SMTT(40)
<1>5. relayers \in Seq(UnrewardedRelayer)
  BY <1>3, <1>4, CorruptionsType
<1>6. corrupted.relayers = relayers /\ corrupted \in InboundLaneData
  <2> HIDE DEF lane
  <2>1. corrupted = [relayers |-> relayers, last_confirmed_nonce |-> lane.last_confirmed_nonce]
    BY <1>1 DEF InboundLaneData
  <2> HIDE DEF corrupted
  <2> QED BY <1>3, <1>5, <2>1 DEF InboundLaneData, lane
<1> HIDE DEF corrupted
<1>7. LastDelivered(corrupted) \in Nat
  BY <1>6, LastDeliveredType
<1>8. relayers # <<>> => LastDelivered(corrupted) = relayers[Len(relayers)].end
  BY <1>6 DEF LastDelivered
<1>9. ConfirmsAsClosed(outbound, relayers, LastDelivered(corrupted))
  BY <1>1, <1>5, <1>7, <1>8, ConfirmDeliveryClosed
<1> QED BY <1>9 DEF corrupted

\* The loops over the queue of unrewarded relayers and over the messages to prune are
\* their closed forms in every state, for queues of any length and with any entry
\* corrupted: what is proved about the lane with the closed forms is true of the loops
\* of receive_state_update, extract_dispatch_results and prune_messages.
THEOREM QueueLoopsClosed == Spec => []QueueLoopsAreClosedForms
<1>1. QueueInv => QueueLoopsAreClosedForms
  <2> SUFFICES ASSUME QueueInv PROVE QueueLoopsAreClosedForms
    OBVIOUS
  <2>1. outbound \in OutboundLaneData /\ inbound \in InboundLaneData
    BY DEF QueueInv, LaneInv, TypeOK
  <2>2. inbound.relayers \in Seq(UnrewardedRelayer)
    BY <2>1 DEF InboundLaneData
  <2>3. PopFrontMatches
    <3> SUFFICES ASSUME NEW c \in 0..LastDelivered(inbound)
                 PROVE  LET popped == PopFront(inbound.relayers, c)
                        IN  DropConfirmed(inbound.relayers, c) =
                              IF popped = <<>> THEN <<>>
                              ELSE <<TrimEntry(Head(popped), c)>> \o Tail(popped)
      BY DEF PopFrontMatches
    <3>1. c \in Nat
      BY <2>1, LastDeliveredType
    <3> QED BY <2>2, <3>1, DropIsPopAndTrim
  <2>4. ConfirmMatches
    BY ConfirmMatchesHolds
  <2>5. PruneLoop(outbound) = LastPruned(outbound) + 1
    BY <2>1, PruneLoopClosed
  <2> QED BY <2>3, <2>4, <2>5 DEF QueueLoopsAreClosedForms
<1> QED BY <1>1, QueueInvariant, PTL

-----------------------------------------------------------------------------
(* The message loop. *)

\* A message is pushed to the back entry of its relayer, or in an entry of its own.
LEMMA PushFacts ==
    ASSUME NEW lane \in InboundLaneData, NEW relayer \in Relayers, NEW nonce \in Nonces
    PROVE  LET q == lane.relayers
               e == q[Len(q)]
               new == PushDispatched(lane, relayer, nonce)
               p == new.relayers
           IN  /\ new \in InboundLaneData
               /\ new.last_confirmed_nonce = lane.last_confirmed_nonce
               /\ ExtendsBack(lane, relayer) =>
                    /\ Len(p) = Len(q)
                    /\ \A j \in 1..(Len(q) - 1) : p[j] = q[j]
                    /\ p[Len(q)] = [relayer |-> relayer, begin |-> e.begin, end |-> e.end + 1,
                                    dispatch_results |-> Append(e.dispatch_results, ResultOf[nonce])]
               /\ ~ExtendsBack(lane, relayer) =>
                    /\ Len(p) = Len(q) + 1
                    /\ \A j \in 1..Len(q) : p[j] = q[j]
                    /\ p[Len(q) + 1] = [relayer |-> relayer, begin |-> nonce, end |-> nonce,
                                        dispatch_results |-> <<ResultOf[nonce]>>]
<1> DEFINE q == lane.relayers
           back == Len(q)
           e == q[back]
           new == PushDispatched(lane, relayer, nonce)
           p == new.relayers
           r == ResultOf[nonce]
           f == NoteDispatchedMessage(e, r)
           g == NewDeliveredMessages(relayer, nonce, r)
<1>1. /\ q \in Seq(UnrewardedRelayer) /\ back \in Nat /\ DOMAIN q = 1..back
      /\ lane = [relayers |-> q, last_confirmed_nonce |-> lane.last_confirmed_nonce]
      /\ lane.last_confirmed_nonce \in Nat
  BY LenProperties DEF InboundLaneData
<1>2. r \in BOOLEAN /\ nonce \in Nat
  BY LoopsAssumption, LaneAssumption DEF Nonces
<1>3. CASE ExtendsBack(lane, relayer)
  <2>1. q # <<>> /\ back \in 1..back /\ e.relayer = relayer
    BY <1>1, <1>3, EmptySeq DEF ExtendsBack
  <2>2. e \in UnrewardedRelayer /\ e.end \in Nat /\ e.begin \in Nat /\ e.dispatch_results \in Seq(BOOLEAN)
    BY <1>1, <2>1, EntryType
  <2>3. new = [lane EXCEPT !.relayers = [q EXCEPT ![back] = f]]
    BY <2>1 DEF PushDispatched
  <2>4. f = [relayer |-> relayer, begin |-> e.begin, end |-> e.end + 1,
             dispatch_results |-> Append(e.dispatch_results, r)]
    <3> DEFINE longer == [e EXCEPT !.end = e.end + 1]
               a == Append(e.dispatch_results, r)
               n == e.end + 1
    <3> HIDE DEF e, n
    <3>1. [e EXCEPT !.end = n] = [relayer |-> e.relayer, begin |-> e.begin, end |-> n,
                    dispatch_results |-> e.dispatch_results]
      BY <2>2, SMTT(40) DEF UnrewardedRelayer
    <3>2. longer = [e EXCEPT !.end = n]
      BY DEF n
    <3>3. f = [longer EXCEPT !.dispatch_results = a]
      BY Zenon DEF NoteDispatchedMessage
    <3> DEFINE x1 == e.relayer
               x2 == e.begin
               x3 == e.dispatch_results
    <3>4. longer = [relayer |-> x1, begin |-> x2, end |-> n, dispatch_results |-> x3]
      BY <3>1, <3>2
    <3> HIDE DEF longer, a, f, x1, x2, x3
    <3>5. [longer EXCEPT !.dispatch_results = a]
            = [relayer |-> x1, begin |-> x2, end |-> n, dispatch_results |-> a]
      BY ONLY <3>4
    <3> QED BY <2>1, <3>3, <3>5 DEF a, n, x1, x2
  <2>5. f \in UnrewardedRelayer
    <3>1. Append(e.dispatch_results, r) \in Seq(BOOLEAN)
      BY <1>2, <2>2, AppendProperties
    <3>2. e.end + 1 \in Nat
      BY <2>2
    <3> HIDE DEF f, e, r
    <3> QED BY <2>2, <2>4, <3>1, <3>2 DEF UnrewardedRelayer
  <2> HIDE DEF f, e
  <2>6. p = [q EXCEPT ![back] = f] /\ new.last_confirmed_nonce = lane.last_confirmed_nonce
        /\ new = [relayers |-> p, last_confirmed_nonce |-> lane.last_confirmed_nonce]
    BY <1>1, <2>3
  <2> HIDE DEF p, new
  <2>7. /\ p \in Seq(UnrewardedRelayer) /\ Len(p) = back
        /\ \A j \in 1..back : p[j] = IF j = back THEN f ELSE q[j]
    BY <1>1, <2>1, <2>5, <2>6, ExceptSeq
  <2>8. new \in InboundLaneData
    BY <1>1, <2>6, <2>7 DEF InboundLaneData
  <2>9. p[back] = f /\ \A j \in 1..(back - 1) : p[j] = q[j]
    BY <1>1, <2>1, <2>7
  <2> QED BY <1>3, <2>4, <2>6, <2>7, <2>8, <2>9 DEF new, p, e
<1>4. CASE ~ExtendsBack(lane, relayer)
  <2>1. new = [lane EXCEPT !.relayers = Append(q, g)]
    BY <1>4 DEF PushDispatched, ExtendsBack
  <2>2. g = [relayer |-> relayer, begin |-> nonce, end |-> nonce, dispatch_results |-> <<r>>]
    BY DEF NewDeliveredMessages
  <2>3. g \in UnrewardedRelayer
    <3>1. <<r>> \in Seq(BOOLEAN)
      BY <1>2
    <3> HIDE DEF g, r
    <3> QED BY <1>2, <2>2, <3>1 DEF UnrewardedRelayer
  <2> HIDE DEF g
  <2>4. p = Append(q, g) /\ new.last_confirmed_nonce = lane.last_confirmed_nonce
        /\ new = [relayers |-> p, last_confirmed_nonce |-> lane.last_confirmed_nonce]
    BY <1>1, <2>1
  <2> HIDE DEF p, new
  <2>5. /\ p \in Seq(UnrewardedRelayer) /\ Len(p) = back + 1
        /\ \A j \in 1..back : p[j] = q[j]
        /\ p[back + 1] = g
    BY <1>1, <2>3, <2>4, AppendProperties
  <2>6. new \in InboundLaneData
    BY <1>1, <2>4, <2>5 DEF InboundLaneData
  <2> QED BY <1>4, <2>2, <2>4, <2>5, <2>6 DEF new, p
<1> QED BY <1>3, <1>4

\* Two lanes with the same entries are the same.
LEMMA SameLane ==
    ASSUME NEW a \in InboundLaneData, NEW b \in InboundLaneData,
           a.last_confirmed_nonce = b.last_confirmed_nonce,
           Len(a.relayers) = Len(b.relayers),
           \A j \in 1..Len(a.relayers) : a.relayers[j] = b.relayers[j]
    PROVE  a = b
<1>1. a.relayers \in Seq(UnrewardedRelayer) /\ b.relayers \in Seq(UnrewardedRelayer)
  BY DEF InboundLaneData
<1>2. a.relayers = b.relayers
  BY <1>1, SeqEqual
<1> QED BY <1>2 DEF InboundLaneData

\* The entry that a relayer's batch ends in, when it starts with entry e and when it
\* starts a new one.
GrownEntry(relayer, e, rs) ==
    [relayer |-> relayer, begin |-> e.begin, end |-> e.end + Len(rs),
     dispatch_results |-> e.dispatch_results \o rs]
FreshEntry(relayer, first, rs) ==
    [relayer |-> relayer, begin |-> first, end |-> first + Len(rs) - 1, dispatch_results |-> rs]

\* One more result in an entry.
LEMMA EntryPushed ==
    ASSUME NEW relayer, NEW e \in UnrewardedRelayer, NEW rs \in Seq(BOOLEAN), NEW r \in BOOLEAN
    PROVE  GrownEntry(relayer, e, Append(rs, r)) =
             [relayer |-> relayer, begin |-> e.begin, end |-> (e.end + Len(rs)) + 1,
              dispatch_results |-> Append(e.dispatch_results \o rs, r)]
<1> DEFINE more == Append(rs, r)
           d == e.dispatch_results
           n == e.end + Len(more)
<1>1. e.end \in Nat /\ d \in Seq(BOOLEAN)
  BY DEF UnrewardedRelayer
<1>2. Len(more) = Len(rs) + 1 /\ Len(rs) \in Nat
  BY AppendProperties, LenProperties
<1>3. Append(d \o rs, r) = d \o more
  <2> HIDE DEF d
  <2>1. d \o rs \in Seq(BOOLEAN) /\ <<r>> \in Seq(BOOLEAN)
    BY <1>1, ConcatProperties
  <2>2. more = rs \o <<r>>
    BY AppendIsConcat
  <2>3. Append(d \o rs, r) = (d \o rs) \o <<r>>
    <3> DEFINE w == d \o rs
    <3>1. w \in Seq(BOOLEAN)
      BY <2>1
    <3> HIDE DEF w
    <3>2. Append(w, r) = w \o <<r>>
      BY <3>1, AppendIsConcat
    <3> QED BY <3>2 DEF w
  <2>4. (d \o rs) \o <<r>> = d \o (rs \o <<r>>)
    <3> DEFINE u == <<r>>
    <3> HIDE DEF u
    <3>1. u \in Seq(BOOLEAN)
      BY <2>1 DEF u
    <3>2. (d \o rs) \o u = d \o (rs \o u)
      BY <1>1, <3>1, ConcatAssociative
    <3> QED BY <3>2 DEF u
  <2> HIDE DEF more
  <2> QED BY <2>2, <2>3, <2>4, Zenon
<1>4. n = (e.end + Len(rs)) + 1
  <2> HIDE DEF more
  <2> QED BY <1>1, <1>2
<1>5. GrownEntry(relayer, e, more) =
        [relayer |-> relayer, begin |-> e.begin, end |-> n, dispatch_results |-> d \o more]
  BY Zenon DEF GrownEntry
<1> QED BY <1>3, <1>4, <1>5, Zenon

\* The first result of a batch in an entry.
LEMMA EntryPushedOnce ==
    ASSUME NEW relayer, NEW e \in UnrewardedRelayer, NEW r \in BOOLEAN
    PROVE  GrownEntry(relayer, e, <<r>>) =
             [relayer |-> relayer, begin |-> e.begin, end |-> e.end + 1,
              dispatch_results |-> Append(e.dispatch_results, r)]
<1> DEFINE d == e.dispatch_results
           n == e.end + Len(<<r>>)
<1>1. e.end \in Nat /\ d \in Seq(BOOLEAN)
  BY DEF UnrewardedRelayer
<1>2. Append(d, r) = d \o <<r>> /\ Len(<<r>>) = 1
  BY <1>1, AppendIsConcat
<1>3. n = e.end + 1
  BY <1>2
<1>4. GrownEntry(relayer, e, <<r>>) =
        [relayer |-> relayer, begin |-> e.begin, end |-> n, dispatch_results |-> d \o <<r>>]
  BY Zenon DEF GrownEntry
<1> QED BY <1>2, <1>3, <1>4, Zenon

\* What noting results makes of a queue.
NotedQueue(p, q, relayer, first, rs) ==
    IF q # <<>> /\ q[Len(q)].relayer = relayer
    THEN /\ Len(p) = Len(q)
         /\ \A j \in 1..(Len(q) - 1) : p[j] = q[j]
         /\ p[Len(q)] = GrownEntry(relayer, q[Len(q)], rs)
    ELSE /\ Len(p) = Len(q) + 1
         /\ \A j \in 1..Len(q) : p[j] = q[j]
         /\ p[Len(q) + 1] = FreshEntry(relayer, first, rs)

\* NoteDispatched makes that of the queue.
LEMMA NotedIs ==
    ASSUME NEW lane \in InboundLaneData, NEW relayer \in Relayers, NEW first \in Nat,
           NEW rs \in Seq(BOOLEAN), rs # <<>>, first = LastDelivered(lane) + 1
    PROVE  NotedQueue(NoteDispatched(lane, relayer, first, rs).relayers, lane.relayers, relayer, first, rs)
<1>1. CASE ExtendsBack(lane, relayer)
  BY <1>1, NoteDispatchedExtends DEF NotedQueue, ExtendsBack, GrownEntry
<1>2. CASE ~ExtendsBack(lane, relayer)
  BY <1>2, NoteDispatchedAppends DEF NotedQueue, ExtendsBack, FreshEntry
<1> QED BY <1>1, <1>2

\* A queue is determined by what is noted in it.
LEMMA NotedOnce ==
    ASSUME NEW q \in Seq(UnrewardedRelayer), NEW p1, NEW p2, NEW relayer, NEW first, NEW rs,
           NotedQueue(p1, q, relayer, first, rs), NotedQueue(p2, q, relayer, first, rs)
    PROVE  Len(p1) = Len(p2) /\ \A j \in 1..Len(p1) : p1[j] = p2[j]
<1>1. Len(q) \in Nat /\ (q # <<>> => Len(q) >= 1)
  BY LenProperties, EmptySeq
<1>2. CASE q # <<>> /\ q[Len(q)].relayer = relayer
  <2>1. Len(p1) = Len(q) /\ Len(p2) = Len(q) /\ p1[Len(q)] = p2[Len(q)]
        /\ \A j \in 1..(Len(q) - 1) : p1[j] = p2[j]
    BY <1>2 DEF NotedQueue
  <2> QED BY <1>1, <1>2, <2>1
<1>3. CASE ~(q # <<>> /\ q[Len(q)].relayer = relayer)
  <2>1. Len(p1) = Len(q) + 1 /\ Len(p2) = Len(q) + 1 /\ p1[Len(q) + 1] = p2[Len(q) + 1]
        /\ \A j \in 1..Len(q) : p1[j] = p2[j]
    BY <1>3 DEF NotedQueue
  <2> QED BY <1>1, <1>3, <2>1
<1> QED BY <1>2, <1>3

\* Pushing one more dispatched message is noting one more result.
LEMMA NotePush ==
    ASSUME NEW lane \in InboundLaneData, NEW relayer \in Relayers, NEW first \in Nat,
           NEW rs \in Seq(BOOLEAN), first = LastDelivered(lane) + 1,
           NEW nonce \in Nonces, nonce = first + Len(rs)
    PROVE  PushDispatched(NoteDispatched(lane, relayer, first, rs), relayer, nonce)
             = NoteDispatched(lane, relayer, first, Append(rs, ResultOf[nonce]))
<1> DEFINE q == lane.relayers
           e == q[Len(q)]
           r == ResultOf[nonce]
           more == Append(rs, r)
           noted == NoteDispatched(lane, relayer, first, rs)
           pushed == PushDispatched(noted, relayer, nonce)
           new == NoteDispatched(lane, relayer, first, more)
<1>1. r \in BOOLEAN /\ q \in Seq(UnrewardedRelayer) /\ Len(q) \in Nat /\ Len(rs) \in Nat
      /\ (q # <<>> => Len(q) >= 1 /\ Len(q) \in 1..Len(q))
  BY LoopsAssumption, LenProperties, EmptySeq DEF InboundLaneData
<1>2. more \in Seq(BOOLEAN) /\ more # <<>>
  BY <1>1, AppendProperties
<1>3. /\ noted \in InboundLaneData
      /\ noted.last_confirmed_nonce = lane.last_confirmed_nonce
  BY NoteDispatchedProperties
<1>4. /\ new \in InboundLaneData
      /\ new.last_confirmed_nonce = lane.last_confirmed_nonce
      /\ NotedQueue(new.relayers, q, relayer, first, more)
  <2> HIDE DEF more
  <2> QED BY <1>2, NoteDispatchedProperties, NotedIs
<1>5. /\ pushed \in InboundLaneData
      /\ pushed.last_confirmed_nonce = lane.last_confirmed_nonce
  <2> HIDE DEF noted
  <2> QED BY <1>3, PushFacts, ZenonT(40)
<1>6. NotedQueue(pushed.relayers, q, relayer, first, more)
  <2>1. CASE rs = <<>>
    <3>1. noted = lane /\ more = <<r>> /\ Len(rs) = 0
      BY <2>1 DEF NoteDispatched
    <3>2. nonce = first
      BY <1>1, <3>1
    <3>3. CASE ExtendsBack(lane, relayer)
      <4>1. q # <<>> /\ e.relayer = relayer /\ e \in UnrewardedRelayer
        BY <1>1, <3>3, EntryType DEF ExtendsBack
      <4>2. GrownEntry(relayer, e, <<r>>) =
              [relayer |-> relayer, begin |-> e.begin, end |-> e.end + 1,
               dispatch_results |-> Append(e.dispatch_results, r)]
        <5> HIDE DEF e, r
        <5> QED BY <1>1, <4>1, EntryPushedOnce
      <4>3. LET p == PushDispatched(lane, relayer, nonce).relayers
            IN  /\ Len(p) = Len(q)
                /\ \A j \in 1..(Len(q) - 1) : p[j] = q[j]
                /\ p[Len(q)] = GrownEntry(relayer, e, <<r>>)
        BY <3>3, <4>2, PushFacts, ZenonT(40)
      <4> QED BY <3>1, <4>1, <4>3 DEF NotedQueue
    <3>4. CASE ~ExtendsBack(lane, relayer)
      <4>1. FreshEntry(relayer, first, <<r>>) =
              [relayer |-> relayer, begin |-> nonce, end |-> nonce, dispatch_results |-> <<r>>]
        <5> DEFINE c == first + Len(<<r>>) - 1
        <5>1. c = first
          OBVIOUS
        <5> HIDE DEF c
        <5>2. FreshEntry(relayer, first, <<r>>) =
              [relayer |-> relayer, begin |-> first, end |-> c, dispatch_results |-> <<r>>]
          BY Zenon DEF FreshEntry, c
        <5> QED BY <3>2, <5>1, <5>2, Zenon
      <4>2. LET p == PushDispatched(lane, relayer, nonce).relayers
            IN  /\ Len(p) = Len(q) + 1
                /\ \A j \in 1..Len(q) : p[j] = q[j]
                /\ p[Len(q) + 1] = FreshEntry(relayer, first, <<r>>)
        BY <3>4, <4>1, PushFacts, ZenonT(40)
      <4> QED BY <3>1, <3>4, <4>2 DEF NotedQueue, ExtendsBack
    <3> QED BY <3>3, <3>4
  <2>2. CASE rs # <<>>
    <3> DEFINE p == noted.relayers
               z == pushed.relayers
    <3>1. NotedQueue(p, q, relayer, first, rs)
      BY <2>2, NotedIs
    <3>2. /\ Len(p) \in Nat /\ p \in Seq(UnrewardedRelayer)
          /\ Len(p) # 0 => p # <<>>
      BY <1>3, LenProperties, EmptySeq DEF InboundLaneData
    <3>3. CASE ExtendsBack(lane, relayer)
      <4>1. q # <<>> /\ e.relayer = relayer /\ e \in UnrewardedRelayer
        BY <1>1, <3>3, EntryType DEF ExtendsBack
      <4> DEFINE f == GrownEntry(relayer, e, rs)
      <4>2. Len(p) = Len(q) /\ p[Len(q)] = f /\ (\A j \in 1..(Len(q) - 1) : p[j] = q[j])
        BY <3>1, <4>1 DEF NotedQueue
      <4>3. /\ f.relayer = relayer /\ f.begin = e.begin /\ f.end = e.end + Len(rs)
            /\ f.dispatch_results = e.dispatch_results \o rs
        BY DEF GrownEntry
      <4> HIDE DEF f
      <4>4. ExtendsBack(noted, relayer)
        BY <1>1, <3>2, <4>1, <4>2, <4>3 DEF ExtendsBack
      <4> HIDE DEF noted
      <4>5. /\ Len(z) = Len(p)
            /\ \A j \in 1..(Len(p) - 1) : z[j] = p[j]
            /\ z[Len(p)] = [relayer |-> relayer, begin |-> p[Len(p)].begin, end |-> p[Len(p)].end + 1,
                            dispatch_results |-> Append(p[Len(p)].dispatch_results, r)]
        BY <1>3, <4>4, PushFacts, ZenonT(40)
      <4> HIDE DEF p, z, e, r
      <4>6. GrownEntry(relayer, e, Append(rs, r)) =
              [relayer |-> relayer, begin |-> e.begin, end |-> (e.end + Len(rs)) + 1,
               dispatch_results |-> Append(e.dispatch_results \o rs, r)]
        BY <1>1, <4>1, EntryPushed
      <4>7. z[Len(q)] = GrownEntry(relayer, e, Append(rs, r))
        BY <4>2, <4>3, <4>5, <4>6
      <4> QED BY <1>1, <4>1, <4>2, <4>5, <4>7 DEF NotedQueue, z, e
    <3>4. CASE ~ExtendsBack(lane, relayer)
      <4> DEFINE f == FreshEntry(relayer, first, rs)
                 L == Len(q) + 1
      <4>2. Len(p) = L /\ p[L] = f /\ (\A j \in 1..Len(q) : p[j] = q[j])
        BY <3>1, <3>4 DEF NotedQueue, ExtendsBack
      <4>3. /\ f.relayer = relayer /\ f.begin = first /\ f.end = first + Len(rs) - 1
            /\ f.dispatch_results = rs
        BY DEF FreshEntry
      <4> HIDE DEF f
      <4>4. ExtendsBack(noted, relayer)
        BY <1>1, <3>2, <4>2, <4>3 DEF ExtendsBack
      <4> HIDE DEF noted
      <4>5. /\ Len(z) = Len(p)
            /\ \A j \in 1..(Len(p) - 1) : z[j] = p[j]
            /\ z[Len(p)] = [relayer |-> relayer, begin |-> p[Len(p)].begin, end |-> p[Len(p)].end + 1,
                            dispatch_results |-> Append(p[Len(p)].dispatch_results, r)]
        BY <1>3, <4>4, PushFacts
      <4> HIDE DEF p, z, r
      <4>6. FreshEntry(relayer, first, Append(rs, r)) =
              [relayer |-> relayer, begin |-> first, end |-> (first + Len(rs) - 1) + 1,
               dispatch_results |-> Append(rs, r)]
        <5> DEFINE a == Len(Append(rs, r))
                   c == first + a - 1
        <5>1. a = Len(rs) + 1
          BY <1>1, AppendProperties
        <5> HIDE DEF a
        <5>2. c = (first + Len(rs) - 1) + 1
          BY <1>1, <5>1
        <5>3. FreshEntry(relayer, first, Append(rs, r)) =
              [relayer |-> relayer, begin |-> first, end |-> c, dispatch_results |-> Append(rs, r)]
          BY Zenon DEF FreshEntry, a
        <5> QED BY <5>2, <5>3, Zenon
      <4>7. z[L] = FreshEntry(relayer, first, Append(rs, r))
        BY <4>2, <4>3, <4>5, <4>6
      <4>8. L - 1 = Len(q)
        BY <1>1
      <4>9. ~(q # <<>> /\ q[Len(q)].relayer = relayer)
        BY <3>4 DEF ExtendsBack
      <4> QED BY <4>2, <4>5, <4>7, <4>8, <4>9 DEF NotedQueue, z
    <3> QED BY <3>3, <3>4
  <2> QED BY <2>1, <2>2
<1> HIDE DEF pushed, new, more
<1>7. Len(pushed.relayers) = Len(new.relayers)
      /\ \A j \in 1..Len(pushed.relayers) : pushed.relayers[j] = new.relayers[j]
  BY <1>1, <1>4, <1>6, NotedOnce
<1>8. pushed = new
  BY <1>4, <1>5, <1>7, SameLane
<1> QED BY <1>8 DEF pushed, new, more

\* AcceptedCount, of numbers only.
CountOf(delivered, entries, extends, limit, start, processed) ==
    LET byEntries == IF entries >= MaxUnrewardedRelayerEntries THEN delivered
                     ELSE IF extends \/ entries + 1 < MaxUnrewardedRelayerEntries
                     THEN processed ELSE delivered + 1
        last == Lesser(processed, Lesser(byEntries, limit))
    IN  IF start <= delivered + 1 /\ last > delivered THEN last - delivered ELSE 0

\* The length of the queue once accepted messages are noted.
EntriesWith(entries, extends, accepted) ==
    IF accepted = 0 \/ extends THEN entries ELSE entries + 1

\* One more processed message is accepted if it is the next one and there is room for it.
LEMMA CountNext ==
    ASSUME NEW d \in Nat, NEW entries \in Nat, NEW extends \in BOOLEAN, NEW limit \in Nat,
           NEW start \in Nat, NEW n \in Nat, start <= n + 1
    PROVE  LET a == CountOf(d, entries, extends, limit, start, n)
               b == CountOf(d, entries, extends, limit, start, n + 1)
           IN  IF /\ n + 1 = d + a + 1
                  /\ EntriesWith(entries, extends, a) < MaxUnrewardedRelayerEntries
                  /\ n + 1 <= limit
               THEN b = a + 1 /\ start <= d + 1
               ELSE b = a
<1>1. MaxUnrewardedRelayerEntries \in Nat
  BY LaneAssumption
<1>2. CASE extends
  BY <1>1, <1>2 DEF CountOf, EntriesWith, Lesser
<1>3. CASE ~extends
  BY <1>1, <1>3 DEF CountOf, EntriesWith, Lesser
<1> QED BY <1>2, <1>3

\* No message is accepted before the first one.
LEMMA CountNothing ==
    ASSUME NEW d \in Nat, NEW entries \in Nat, NEW extends \in BOOLEAN, NEW limit \in Nat,
           NEW start \in Nat
    PROVE  CountOf(d, entries, extends, limit, start, start - 1) = 0
<1>1. MaxUnrewardedRelayerEntries \in Nat
  BY LaneAssumption
<1> QED BY <1>1 DEF CountOf, Lesser

\* The number of messages of a batch that are accepted, and the room for one more.
Limit(lane) == lane.last_confirmed_nonce + MaxUnconfirmedMessages
CanAccept(lane, relayer, start, n) ==
    LET a == AcceptedCount(lane, relayer, start, n)
    IN  /\ n + 1 = LastDelivered(lane) + a + 1
        /\ EntriesWith(Len(lane.relayers), ExtendsBack(lane, relayer), a) < MaxUnrewardedRelayerEntries
        /\ n + 1 <= Limit(lane)

\* The same of the lane: receive_message accepts the next message if it can.
LEMMA AcceptedNext ==
    ASSUME NEW lane \in InboundLaneData, NEW relayer, NEW start \in Nat, NEW n \in Nat, start <= n + 1
    PROVE  /\ CanAccept(lane, relayer, start, n) =>
                /\ AcceptedCount(lane, relayer, start, n + 1) = AcceptedCount(lane, relayer, start, n) + 1
                /\ start <= LastDelivered(lane) + 1
           /\ ~CanAccept(lane, relayer, start, n) =>
                AcceptedCount(lane, relayer, start, n + 1) = AcceptedCount(lane, relayer, start, n)
<1> DEFINE d == LastDelivered(lane)
           entries == Len(lane.relayers)
           extends == ExtendsBack(lane, relayer)
           limit == Limit(lane)
<1>1. d \in Nat /\ entries \in Nat /\ extends \in BOOLEAN /\ limit \in Nat
  BY LastDeliveredType, LenProperties, LaneAssumption DEF InboundLaneData, Limit, ExtendsBack
<1>2. \A p : AcceptedCount(lane, relayer, start, p) = CountOf(d, entries, extends, limit, start, p)
  BY Zenon DEF AcceptedCount, CountOf, Limit
<1>3. CanAccept(lane, relayer, start, n) <=>
        LET a == CountOf(d, entries, extends, limit, start, n)
        IN  /\ n + 1 = d + a + 1
            /\ EntriesWith(entries, extends, a) < MaxUnrewardedRelayerEntries
            /\ n + 1 <= limit
  BY <1>2, Zenon DEF CanAccept
<1> HIDE DEF d, entries, extends, limit
<1>4. LET a == CountOf(d, entries, extends, limit, start, n)
          b == CountOf(d, entries, extends, limit, start, n + 1)
      IN  IF /\ n + 1 = d + a + 1
             /\ EntriesWith(entries, extends, a) < MaxUnrewardedRelayerEntries
             /\ n + 1 <= limit
          THEN b = a + 1 /\ start <= d + 1
          ELSE b = a
  BY <1>1, CountNext
<1> QED BY <1>2, <1>3, <1>4 DEF d

\* Nothing is accepted from an empty batch.
LEMMA AcceptedNothing ==
    ASSUME NEW lane \in InboundLaneData, NEW relayer, NEW start \in Nat
    PROVE  AcceptedCount(lane, relayer, start, start - 1) = 0
<1> DEFINE d == LastDelivered(lane)
           entries == Len(lane.relayers)
           extends == ExtendsBack(lane, relayer)
           limit == Limit(lane)
<1>1. d \in Nat /\ entries \in Nat /\ extends \in BOOLEAN /\ limit \in Nat
  BY LastDeliveredType, LenProperties, LaneAssumption DEF InboundLaneData, Limit, ExtendsBack
<1>2. \A p : AcceptedCount(lane, relayer, start, p) = CountOf(d, entries, extends, limit, start, p)
  BY Zenon DEF AcceptedCount, CountOf, Limit
<1> HIDE DEF d, entries, extends, limit
<1> QED BY <1>1, <1>2, CountNothing

\* The results of count messages from first on.
ResultsFrom(first, count) == [i \in 1..count |-> ResultOf[first + i - 1]]

\* They are a sequence of that many results.
LEMMA ResultsFromType ==
    ASSUME NEW first \in Nat, NEW count \in Nat, first >= 1, first + count - 1 <= MaxNonce
    PROVE  /\ ResultsFrom(first, count) \in Seq(BOOLEAN)
           /\ Len(ResultsFrom(first, count)) = count
           /\ count = 0 => ResultsFrom(first, count) = <<>>
<1>1. MaxNonce \in Nat /\ ResultOf \in [1..MaxNonce -> BOOLEAN]
  BY LaneAssumption, LoopsAssumption DEF Nonces
<1>2. ASSUME NEW i \in 1..count PROVE ResultOf[first + i - 1] \in BOOLEAN
  <2>1. first + i - 1 \in 1..MaxNonce
    BY <1>1
  <2> QED BY <1>1, <2>1
<1>3. ResultsFrom(first, count) \in [1..count -> BOOLEAN]
  BY <1>2 DEF ResultsFrom
<1>4. ResultsFrom(first, count) \in Seq(BOOLEAN) /\ Len(ResultsFrom(first, count)) = count
  <2> DEFINE rs == ResultsFrom(first, count)
  <2> HIDE DEF rs
  <2>1. rs \in Seq(BOOLEAN)
    BY <1>3 DEF rs
  <2>2. DOMAIN rs = 1..count
    BY <1>3 DEF rs
  <2> QED BY <2>1, <2>2, LenProperties DEF rs
<1> QED BY <1>4, EmptySeq

\* One more message adds its result.
LEMMA ResultsFromNext ==
    ASSUME NEW first \in Nat, NEW count \in Nat, first >= 1, first + count <= MaxNonce
    PROVE  ResultsFrom(first, count + 1) = Append(ResultsFrom(first, count), ResultOf[first + count])
<1> DEFINE s == ResultsFrom(first, count)
           r == ResultOf[first + count]
           t == ResultsFrom(first, count + 1)
<1>1. s \in Seq(BOOLEAN) /\ Len(s) = count
  BY LaneAssumption, ResultsFromType
<1>2. t \in Seq(BOOLEAN) /\ Len(t) = count + 1
  <2>1. count + 1 \in Nat /\ first + (count + 1) - 1 <= MaxNonce
    BY LaneAssumption
  <2> QED BY <2>1, ResultsFromType
<1>3. r \in BOOLEAN
  <2>1. first + count \in 1..MaxNonce
    BY LaneAssumption
  <2> QED BY <2>1, LoopsAssumption DEF Nonces
<1>4. \A i \in 1..count : s[i] = ResultOf[first + i - 1]
  BY DEF ResultsFrom
<1>5. \A i \in 1..(count + 1) : t[i] = ResultOf[first + i - 1]
  BY DEF ResultsFrom
<1> HIDE DEF s, t, r
<1>6. /\ Append(s, r) \in Seq(BOOLEAN) /\ Len(Append(s, r)) = count + 1
      /\ \A i \in 1..count : Append(s, r)[i] = s[i]
      /\ Append(s, r)[count + 1] = r
  BY <1>1, <1>3, AppendProperties
<1>7. ASSUME NEW i \in 1..(count + 1) PROVE t[i] = Append(s, r)[i]
  <2>1. CASE i = count + 1
    <3>1. first + i - 1 = first + count
      BY <2>1
    <3> QED BY <1>5, <1>6, <2>1, <3>1 DEF r
  <2>2. CASE i # count + 1
    <3>1. i \in 1..count
      BY <2>2
    <3> QED BY <1>4, <1>5, <1>6, <3>1
  <2> QED BY <2>1, <2>2
<1>8. t = Append(s, r)
  BY <1>2, <1>6, <1>7, SeqEqual
<1> QED BY <1>8 DEF s, t, r

\* What the closed form makes of the lane.
LEMMA ClosedFacts ==
    ASSUME NEW lane \in InboundLaneData, NEW relayer \in Relayers, NEW start \in Nat,
           start >= 1, NEW p \in 0..MaxNonce
    PROVE  LET a == AcceptedCount(lane, relayer, start, p)
               c == ReceiveClosed(lane, relayer, start, p)
           IN  /\ c \in InboundLaneData
               /\ LastDelivered(c) = LastDelivered(lane) + a
               /\ c.last_confirmed_nonce = lane.last_confirmed_nonce
               /\ Len(c.relayers) = EntriesWith(Len(lane.relayers), ExtendsBack(lane, relayer), a)
               /\ a = 0 => c = lane
               /\ start <= LastDelivered(lane) + 1 =>
                    c = NoteDispatched(lane, relayer, LastDelivered(lane) + 1, ResultsFrom(LastDelivered(lane) + 1, a))
<1> DEFINE a == AcceptedCount(lane, relayer, start, p)
           d == LastDelivered(lane)
           first == FirstNew(lane, start)
           rs == ResultsFrom(first, a)
           c == ReceiveClosed(lane, relayer, start, p)
<1>1. /\ a \in Nat /\ d \in Nat /\ p \in Int /\ p <= MaxNonce /\ MaxNonce \in Nat
      /\ a # 0 => d + a <= p /\ first = d + 1
  BY LaneAssumption, LastDeliveredType, AcceptedCountProperties
<1>2. first \in Nat /\ first >= 1 /\ (start <= d + 1 => first = d + 1)
  BY <1>1 DEF FirstNew, Greater
<1>3. c = NoteDispatched(lane, relayer, first, rs)
  BY DEF ReceiveClosed, ResultsFrom
<1>4. Len(lane.relayers) \in Nat
  BY LenProperties DEF InboundLaneData
<1> HIDE DEF a, d, first, c
<1>5. CASE a = 0
  <2>1. rs = <<>>
    BY <1>5, EmptySeq DEF ResultsFrom
  <2>2. c = lane
    BY <1>3, <2>1 DEF NoteDispatched
  <2>3. start <= d + 1 => rs = ResultsFrom(d + 1, a)
    BY <1>2
  <2> QED BY <1>1, <1>2, <1>3, <1>5, <2>2, <2>3 DEF EntriesWith, a, c, d
<1>6. CASE a # 0
  <2>1. first = d + 1 /\ first + a - 1 <= MaxNonce
    BY <1>1, <1>6
  <2>2. rs \in Seq(BOOLEAN) /\ Len(rs) = a
    BY <1>1, <1>2, <2>1, ResultsFromType
  <2> HIDE DEF rs
  <2>3. rs # <<>>
    BY <1>6, <2>2
  <2>4. /\ c \in InboundLaneData
        /\ LastDelivered(c) = d + a
        /\ c.last_confirmed_nonce = lane.last_confirmed_nonce
    BY <1>2, <1>3, <2>1, <2>2, NoteDispatchedProperties DEF d
  <2>5. NotedQueue(c.relayers, lane.relayers, relayer, first, rs)
    BY <1>2, <1>3, <2>1, <2>2, <2>3, NotedIs DEF d
  <2>6. Len(c.relayers) = EntriesWith(Len(lane.relayers), ExtendsBack(lane, relayer), a)
    BY <1>6, <2>5 DEF EntriesWith, NotedQueue, ExtendsBack
  <2> QED BY <1>3, <1>6, <2>1, <2>4, <2>6 DEF a, c, d, rs
<1> QED BY <1>5, <1>6

\* receive_message on the lane of the closed form.
LEMMA ClosedRound ==
    ASSUME NEW lane \in InboundLaneData, NEW relayer \in Relayers, NEW start \in Nat,
           start >= 1, NEW n \in Nat, start <= n + 1, n + 1 <= MaxNonce
    PROVE  LET c == ReceiveClosed(lane, relayer, start, n)
               next == ReceiveClosed(lane, relayer, start, n + 1)
           IN  /\ CanAccept(lane, relayer, start, n) =>
                    /\ PushDispatched(c, relayer, n + 1) = next
                    /\ LastDelivered(c) = n
               /\ ~CanAccept(lane, relayer, start, n) => next = c
               /\ \A refused : ReceivalResult(c, n + 1, refused) = "Dispatched" <=>
                                 CanAccept(lane, relayer, start, n) /\ n + 1 \notin refused
<1> DEFINE a == AcceptedCount(lane, relayer, start, n)
           b == AcceptedCount(lane, relayer, start, n + 1)
           d == LastDelivered(lane)
           c == ReceiveClosed(lane, relayer, start, n)
           next == ReceiveClosed(lane, relayer, start, n + 1)
           can == CanAccept(lane, relayer, start, n)
<1>1. /\ MaxNonce \in Nat /\ MaxUnconfirmedMessages \in Nat /\ MaxUnrewardedRelayerEntries \in Nat
      /\ n \in 0..MaxNonce /\ n + 1 \in 0..MaxNonce /\ n + 1 \in Nonces
  BY LaneAssumption DEF Nonces
<1>2. a \in Nat /\ d \in Nat /\ lane.last_confirmed_nonce \in Nat
  BY AcceptedCountProperties, LastDeliveredType DEF InboundLaneData
<1>3. (can => b = a + 1 /\ start <= d + 1) /\ (~can => b = a)
  BY AcceptedNext
<1>4. /\ c \in InboundLaneData
      /\ LastDelivered(c) = d + a
      /\ c.last_confirmed_nonce = lane.last_confirmed_nonce
      /\ Len(c.relayers) = EntriesWith(Len(lane.relayers), ExtendsBack(lane, relayer), a)
      /\ a = 0 => c = lane
      /\ start <= d + 1 => c = NoteDispatched(lane, relayer, d + 1, ResultsFrom(d + 1, a))
  BY <1>1, ClosedFacts
<1>5. /\ b = 0 => next = lane
      /\ start <= d + 1 => next = NoteDispatched(lane, relayer, d + 1, ResultsFrom(d + 1, b))
  BY <1>1, ClosedFacts
<1>6. can => /\ n + 1 = d + a + 1
             /\ EntriesWith(Len(lane.relayers), ExtendsBack(lane, relayer), a) < MaxUnrewardedRelayerEntries
             /\ n + 1 <= Limit(lane)
  BY DEF CanAccept
<1>7. ASSUME NEW refused
      PROVE  ReceivalResult(c, n + 1, refused) = "Dispatched" <=> can /\ n + 1 \notin refused
  <2> DEFINE entries == EntriesWith(Len(lane.relayers), ExtendsBack(lane, relayer), a)
  <2>1. can <=> /\ n + 1 = d + a + 1 /\ entries < MaxUnrewardedRelayerEntries
                /\ n + 1 <= lane.last_confirmed_nonce + MaxUnconfirmedMessages
    BY Zenon DEF CanAccept, Limit
  <2>2. entries \in Nat
    <3>1. Len(lane.relayers) \in Nat
      BY LenProperties DEF InboundLaneData
    <3> HIDE DEF a
    <3> QED BY <3>1 DEF EntriesWith
  <2> HIDE DEF a, c, d, can, entries
  <2>3. LastDelivered(c) = d + a /\ Len(c.relayers) = entries
        /\ c.last_confirmed_nonce = lane.last_confirmed_nonce
    BY <1>4 DEF entries
  <2>4. CASE n + 1 # d + a + 1
    BY <2>1, <2>3, <2>4 DEF ReceivalResult
  <2>5. CASE n + 1 = d + a + 1 /\ entries >= MaxUnrewardedRelayerEntries
    BY <1>1, <2>1, <2>2, <2>3, <2>5 DEF ReceivalResult
  <2>6. CASE n + 1 = d + a + 1 /\ entries < MaxUnrewardedRelayerEntries
    BY <1>1, <1>2, <2>1, <2>2, <2>3, <2>6 DEF ReceivalResult
  <2> QED BY <1>1, <2>2, <2>4, <2>5, <2>6
<1>8. ASSUME can PROVE PushDispatched(c, relayer, n + 1) = next
  <2> DEFINE first == d + 1
             rs == ResultsFrom(first, a)
  <2>1. /\ first \in Nat /\ first >= 1 /\ first + a - 1 <= MaxNonce /\ first + a <= MaxNonce
        /\ n + 1 = first + a /\ n + 1 \in Nonces
    BY <1>1, <1>2, <1>6, <1>8
  <2>2. rs \in Seq(BOOLEAN) /\ Len(rs) = a
    BY <1>2, <2>1, ResultsFromType
  <2>3. ResultsFrom(first, a + 1) = Append(rs, ResultOf[n + 1])
    BY <1>2, <2>1, ResultsFromNext
  <2>4. c = NoteDispatched(lane, relayer, first, rs)
        /\ next = NoteDispatched(lane, relayer, first, ResultsFrom(first, a + 1))
    BY <1>3, <1>4, <1>5, <1>8
  <2> DEFINE m == n + 1
  <2>5. m \in Nonces /\ m = first + Len(rs) /\ first = LastDelivered(lane) + 1
    BY <2>1, <2>2
  <2> HIDE DEF rs, first, c, next, m
  <2>6. PushDispatched(NoteDispatched(lane, relayer, first, rs), relayer, m)
          = NoteDispatched(lane, relayer, first, Append(rs, ResultOf[m]))
    BY <2>1, <2>2, <2>5, NotePush
  <2> QED BY <2>3, <2>4, <2>6 DEF m
<1>9. ASSUME ~can PROVE next = c
  <2>1. b = a
    BY <1>3, <1>9
  <2> QED BY <2>1 DEF ReceiveClosed
<1>10. can => LastDelivered(c) = n
  BY <1>2, <1>4, <1>6
<1> QED BY <1>7, <1>8, <1>9, <1>10

\* Nothing processed leaves the lane as it is.
LEMMA ClosedStart ==
    ASSUME NEW lane \in InboundLaneData, NEW relayer \in Relayers, NEW start \in Nonces
    PROVE  ReceiveClosed(lane, relayer, start, start - 1) = lane
<1>1. start \in Nat /\ start >= 1 /\ start - 1 \in 0..MaxNonce
  BY LaneAssumption DEF Nonces
<1>2. AcceptedCount(lane, relayer, start, start - 1) = 0
  BY <1>1, AcceptedNothing
<1> QED BY <1>1, <1>2, ClosedFacts

-----------------------------------------------------------------------------
\* The states of the message loop.
ReceiveState == [lane : InboundLaneData, dispatch_weight_left : Int, stopped : BOOLEAN]
NotReceived(lane, weight) == [lane |-> lane, dispatch_weight_left |-> weight, stopped |-> FALSE]

\* The weight that a dispatched message uses.
SpentOn(nonce) == MessageWeight[nonce] - Lesser(UnspentWeight[nonce], MessageWeight[nonce])

\* It is at most the weight of the message.
LEMMA SpentOnType ==
    ASSUME NEW nonce \in Nonces
    PROVE  MessageWeight[nonce] \in Nat /\ SpentOn(nonce) \in Nat /\ SpentOn(nonce) <= MessageWeight[nonce]
<1>1. MessageWeight[nonce] \in Nat /\ UnspentWeight[nonce] \in Nat
  BY LoopsAssumption
<1> QED BY <1>1 DEF SpentOn, Lesser

\* What one round makes of state s.
RoundOutcome(s, t, relayer, nonce, refused) ==
    /\ t \in ReceiveState
    /\ s.stopped \/ MessageWeight[nonce] > s.dispatch_weight_left =>
         t.lane = s.lane /\ t.stopped = TRUE
    /\ ~s.stopped /\ ~(MessageWeight[nonce] > s.dispatch_weight_left) =>
         IF ReceivalResult(s.lane, nonce, refused) = "Dispatched"
         THEN /\ t.lane = PushDispatched(s.lane, relayer, nonce)
              /\ t.dispatch_weight_left = s.dispatch_weight_left - SpentOn(nonce)
              /\ t.stopped = FALSE
         ELSE t = s

\* A round of the message loop does that.
LEMMA ReceiveRoundFacts ==
    ASSUME NEW s \in ReceiveState, NEW relayer \in Relayers, NEW nonce \in Nonces, NEW refused
    PROVE  RoundOutcome(s, ReceiveRound(s, relayer, nonce, refused), relayer, nonce, refused)
<1> DEFINE t == ReceiveRound(s, relayer, nonce, refused)
           u == PushDispatched(s.lane, relayer, nonce)
           w == s.dispatch_weight_left - SpentOn(nonce)
<1>1. /\ s.lane \in InboundLaneData /\ s.dispatch_weight_left \in Int /\ s.stopped \in BOOLEAN
      /\ s = [lane |-> s.lane, dispatch_weight_left |-> s.dispatch_weight_left, stopped |-> s.stopped]
  BY DEF ReceiveState
<1>2. u \in InboundLaneData
  BY <1>1, PushFacts
<1>3. w \in Int
  BY <1>1, SpentOnType
<1>4. CASE s.stopped \/ MessageWeight[nonce] > s.dispatch_weight_left
  <2>1. t = [s EXCEPT !.stopped = TRUE]
    BY <1>4 DEF ReceiveRound
  <2>2. t = [lane |-> s.lane, dispatch_weight_left |-> s.dispatch_weight_left, stopped |-> TRUE]
    BY <1>1, <2>1
  <2> QED BY <1>1, <1>4, <2>2 DEF ReceiveState, RoundOutcome
<1>5. CASE ~s.stopped /\ ~(MessageWeight[nonce] > s.dispatch_weight_left)
           /\ ReceivalResult(s.lane, nonce, refused) # "Dispatched"
  <2>1. t = s
    BY <1>5 DEF ReceiveRound
  <2> QED BY <1>5, <2>1 DEF RoundOutcome
<1>6. CASE ~s.stopped /\ ~(MessageWeight[nonce] > s.dispatch_weight_left)
           /\ ReceivalResult(s.lane, nonce, refused) = "Dispatched"
  <2>1. t = [s EXCEPT !.lane = u, !.dispatch_weight_left = w]
    BY <1>6 DEF ReceiveRound, SpentOn
  <2> HIDE DEF u, w
  <2>2. t = [lane |-> u, dispatch_weight_left |-> w, stopped |-> s.stopped]
    BY <1>1, <2>1
  <2>3. s.stopped = FALSE
    BY <1>1, <1>6
  <2> HIDE DEF t
  <2>4. t \in ReceiveState /\ t.lane = u /\ t.dispatch_weight_left = w /\ t.stopped = FALSE
    BY <1>2, <1>3, <2>2, <2>3 DEF ReceiveState
  <2> QED BY <1>6, <2>4 DEF RoundOutcome, t, u, w
<1> QED BY <1>4, <1>5, <1>6

\* F is the message loop.
IsReceiving(F, lane, relayer, start, end, refused, weight) ==
    /\ F[start - 1] = NotReceived(lane, weight)
    /\ \A n \in start..end : F[n] = ReceiveRound(F[n - 1], relayer, n, refused)
    /\ \A n \in (start - 1)..end : F[n] \in ReceiveState

\* receive_messages_proof runs through the rounds of its message loop.
LEMMA ReceivingExists ==
    ASSUME NEW lane \in InboundLaneData, NEW relayer \in Relayers, NEW start \in Nonces,
           NEW end \in Nonces, start <= end, NEW refused, NEW weight \in Int
    PROVE  \E F : /\ IsReceiving(F, lane, relayer, start, end, refused, weight)
                  /\ ReceiveLoop(lane, relayer, start, end, refused, weight) = F[end].lane
<1> DEFINE lo == start - 1
           V == ReceiveState
           a == NotReceived(lane, weight)
           Round(s, n) == ReceiveRound(s, relayer, n, refused)
           step == [n \in start..end |-> [s \in V |-> Round(s, n)]]
           Def(g) == [n \in lo..end |-> IF n = lo THEN a ELSE Round(g[n - 1], n)]
<1>1. /\ lo \in Nat /\ end \in Nat /\ lo <= end /\ lo + 1 = start
      /\ \A n \in start..end : n \in Nonces /\ n \in lo..end /\ n # lo /\ n - 1 \in lo..end
      /\ \A n \in lo..end : n # lo => n \in start..end
      /\ lo \in lo..end /\ end \in lo..end
  BY LaneAssumption DEF Nonces
<1>2. \A n \in start..end : \A s \in V : Round(s, n) \in V
  BY <1>1, ReceiveRoundFacts DEF RoundOutcome
<1>3. a \in V
  BY DEF NotReceived, ReceiveState
<1>4. ReceiveLoop(lane, relayer, start, end, refused, weight) = (CHOOSE f : f = Def(f))[end].lane
  BY DEF ReceiveLoop, NotReceived
<1> HIDE DEF lo, V, Round, a
<1>5. step \in [(lo + 1)..end -> [V -> V]]
  BY <1>1, <1>2
<1>6. PICK g \in [lo..end -> V] : IsLoop(g, lo, end, a, step)
  <2> HIDE DEF step
  <2> QED BY <1>1, <1>3, <1>5, LoopExists
<1>7. \A n \in start..end : step[n][g[n - 1]] = Round(g[n - 1], n)
  BY <1>1, <1>6
<1>8. g = Def(g)
  <2>1. g = [n \in lo..end |-> IF n = lo THEN a ELSE step[n][g[n - 1]]]
    BY <1>6 DEF IsLoop
  <2> HIDE DEF step
  <2>2. ASSUME NEW n \in lo..end
        PROVE  g[n] = IF n = lo THEN a ELSE Round(g[n - 1], n)
    <3>1. g[n] = IF n = lo THEN a ELSE step[n][g[n - 1]]
      BY <2>1, Zenon
    <3> QED BY <1>1, <1>7, <3>1
  <2> QED BY <1>6, <2>2
<1> DEFINE F == CHOOSE f : f = Def(f)
<1>9. F = Def(F)
  BY <1>8, Zenon
<1>10. ReceiveLoop(lane, relayer, start, end, refused, weight) = F[end].lane
  BY <1>4
<1> HIDE DEF F
<1>11. F[lo] = a
  BY <1>1, <1>9
<1>12. \A n \in start..end : F[n] = Round(F[n - 1], n)
  <2> SUFFICES ASSUME NEW n \in start..end PROVE F[n] = Round(F[n - 1], n)
    OBVIOUS
  <2>1. n \in lo..end /\ n # lo
    BY <1>1
  <2> QED BY <1>9, <2>1
<1> DEFINE S == {n \in lo..end : F[n] \in V}
<1>13. lo \in S
  BY <1>1, <1>3, <1>11
<1>14. ASSUME NEW n \in lo..end, n \in S, n < end PROVE n + 1 \in S
  <2>1. n + 1 \in lo..end /\ n + 1 \in start..end /\ (n + 1) - 1 = n
    BY <1>1, <1>14
  <2>2. F[n + 1] = Round(F[n], n + 1) /\ F[n] \in V
    BY <1>12, <1>14, <2>1
  <2> QED BY <1>2, <2>1, <2>2
<1> HIDE DEF S
<1>15. \A n \in lo..end : n \in S
  BY <1>1, <1>13, <1>14, SetOfInterval
<1>16. \A n \in lo..end : F[n] \in V
  BY <1>15 DEF S
<1>17. IsReceiving(F, lane, relayer, start, end, refused, weight)
  BY <1>11, <1>12, <1>16 DEF IsReceiving, lo, V, Round, a
<1> QED BY <1>10, <1>17

-----------------------------------------------------------------------------
\* The lane in the loop is the closed form up to some message: the last one processed, or
\* one after which no message can be accepted.
CutOff(s, lane, relayer, start, n) ==
    \E p \in (start - 1)..n :
        /\ s.lane = ReceiveClosed(lane, relayer, start, p)
        /\ p = n \/ s.stopped \/ LastDelivered(s.lane) + 1 <= n

\* A round of the loop keeps that.
LEMMA CutOffNext ==
    ASSUME NEW lane \in InboundLaneData, NEW relayer \in Relayers, NEW start \in Nonces,
           NEW n \in Nat, start <= n + 1, n + 1 <= MaxNonce, NEW refused,
           NEW s \in ReceiveState, CutOff(s, lane, relayer, start, n)
    PROVE  CutOff(ReceiveRound(s, relayer, n + 1, refused), lane, relayer, start, n + 1)
<1> DEFINE m == n + 1
           t == ReceiveRound(s, relayer, m, refused)
           C(p) == ReceiveClosed(lane, relayer, start, p)
           can == CanAccept(lane, relayer, start, n)
<1>1. /\ m \in Nonces /\ m \in Nat /\ start \in Nat /\ start >= 1 /\ m = n + 1
      /\ \A p \in (start - 1)..n : p \in (start - 1)..m /\ p \in Nat
      /\ m \in (start - 1)..m
  BY LaneAssumption DEF Nonces
<1>2. PICK p \in (start - 1)..n : s.lane = C(p) /\ (p = n \/ s.stopped \/ LastDelivered(s.lane) + 1 <= n)
  BY DEF CutOff
<1>3. s.lane \in InboundLaneData /\ LastDelivered(s.lane) \in Nat
  BY LastDeliveredType DEF ReceiveState
<1>4. /\ can => PushDispatched(C(n), relayer, m) = C(m) /\ LastDelivered(C(n)) = n
      /\ ~can => C(m) = C(n)
      /\ ReceivalResult(C(n), m, refused) = "Dispatched" <=> can /\ m \notin refused
  BY <1>1, ClosedRound
<1> HIDE DEF m, C, can
<1>5. /\ s.stopped \/ MessageWeight[m] > s.dispatch_weight_left => t.lane = s.lane /\ t.stopped = TRUE
      /\ ~s.stopped /\ ~(MessageWeight[m] > s.dispatch_weight_left) =>
           IF ReceivalResult(s.lane, m, refused) = "Dispatched"
           THEN t.lane = PushDispatched(s.lane, relayer, m)
           ELSE t = s
  <2>1. RoundOutcome(s, t, relayer, m, refused)
    BY <1>1, ReceiveRoundFacts
  <2> HIDE DEF t
  <2> QED BY <2>1 DEF RoundOutcome
<1> HIDE DEF t
<1>6. SUFFICES \E k \in (start - 1)..m :
                  /\ t.lane = C(k)
                  /\ k = m \/ t.stopped \/ LastDelivered(t.lane) + 1 <= m
  BY DEF CutOff, C, t, m
<1>7. CASE s.stopped \/ MessageWeight[m] > s.dispatch_weight_left
  BY <1>1, <1>2, <1>5, <1>7
<1>8. CASE ~s.stopped /\ ~(MessageWeight[m] > s.dispatch_weight_left) /\ p # n
  <2>1. LastDelivered(s.lane) + 1 <= n
    BY <1>2, <1>8
  <2>2. m # LastDelivered(s.lane) + 1 /\ LastDelivered(s.lane) + 1 <= m
    BY <1>1, <1>3, <2>1
  <2>3. ReceivalResult(s.lane, m, refused) # "Dispatched"
    BY <2>2 DEF ReceivalResult
  <2>4. t.lane = s.lane
    BY <1>5, <1>8, <2>3
  <2> QED BY <1>1, <1>2, <2>2, <2>4
<1>9. CASE ~s.stopped /\ ~(MessageWeight[m] > s.dispatch_weight_left) /\ p = n
  <2>1. s.lane = C(n)
    BY <1>2, <1>9
  <2>2. CASE ~can
    <3>1. t.lane = C(m)
      BY <1>4, <1>5, <1>9, <2>1, <2>2
    <3> QED BY <1>1, <3>1
  <2>3. CASE can /\ m \notin refused
    <3>1. t.lane = C(m)
      BY <1>4, <1>5, <1>9, <2>1, <2>3
    <3> QED BY <1>1, <3>1
  <2>4. CASE can /\ m \in refused
    <3>1. t.lane = C(n) /\ LastDelivered(C(n)) = n
      BY <1>4, <1>5, <1>9, <2>1, <2>4
    <3>2. LastDelivered(t.lane) + 1 <= m /\ n \in (start - 1)..m
      BY <1>1, <1>2, <1>9, <3>1
    <3> QED BY <3>1, <3>2
  <2> QED BY <2>2, <2>3, <2>4
<1> QED BY <1>7, <1>8, <1>9

\* Every outcome of the loop is the closed form at some cut-off point.
LEMMA LoopIsCutOff ==
    ASSUME NEW lane \in InboundLaneData, NEW relayer \in Relayers, NEW start \in Nonces,
           NEW end \in Nonces, start <= end, NEW refused, NEW weight \in Int
    PROVE  \E p \in (start - 1)..end :
              ReceiveLoop(lane, relayer, start, end, refused, weight) = ReceiveClosed(lane, relayer, start, p)
<1> DEFINE lo == start - 1
<1>1. PICK F : /\ IsReceiving(F, lane, relayer, start, end, refused, weight)
               /\ ReceiveLoop(lane, relayer, start, end, refused, weight) = F[end].lane
  BY ReceivingExists
<1>2. /\ lo \in Nat /\ end \in Nat /\ lo <= end /\ end <= MaxNonce /\ start = lo + 1 /\ MaxNonce \in Nat
      /\ lo \in lo..end /\ end \in lo..end /\ lo \in lo..lo
  BY LaneAssumption DEF Nonces
<1> DEFINE S == {n \in lo..end : CutOff(F[n], lane, relayer, start, n)}
<1>3. lo \in S
  <2>1. F[lo].lane = lane
    BY <1>1 DEF IsReceiving, NotReceived
  <2>2. ReceiveClosed(lane, relayer, start, lo) = lane
    BY ClosedStart
  <2>3. CutOff(F[lo], lane, relayer, start, lo)
    BY <1>2, <2>1, <2>2 DEF CutOff
  <2> QED BY <1>2, <2>3
<1>4. ASSUME NEW n \in lo..end, n \in S, n < end PROVE n + 1 \in S
  <2>1. /\ n \in Nat /\ start <= n + 1 /\ n + 1 <= MaxNonce /\ n + 1 \in start..end
        /\ (n + 1) - 1 = n /\ n + 1 \in lo..end
    BY <1>2, <1>4
  <2>2. F[n + 1] = ReceiveRound(F[n], relayer, n + 1, refused) /\ F[n] \in ReceiveState
    BY <1>1, <1>4, <2>1 DEF IsReceiving
  <2>3. CutOff(F[n], lane, relayer, start, n)
    BY <1>4
  <2>4. CutOff(F[n + 1], lane, relayer, start, n + 1)
    BY <2>1, <2>2, <2>3, CutOffNext
  <2> QED BY <2>1, <2>4
<1> HIDE DEF S, lo
<1>5. \A n \in lo..end : n \in S
  BY <1>2, <1>3, <1>4, SetOfInterval
<1>6. CutOff(F[end], lane, relayer, start, end)
  BY <1>2, <1>5 DEF S
<1> QED BY <1>1, <1>6 DEF CutOff

\* Declared for all messages at the largest weight, the dispatch weight is enough for the
\* next one: left is what k messages left of total, m the number of messages.
LEMMA ShareLeft ==
    ASSUME NEW m \in Nat, NEW left \in Int, NEW w \in Nat, NEW u \in Nat, u <= w,
           NEW total \in Nat, NEW k \in Nat, k + 1 <= m,
           m * left >= total * (m - k), m * w <= total
    PROVE  w <= left /\ m * (left - u) >= total * (m - (k + 1)) /\ m * left >= total * (m - (k + 1))
<1> DEFINE c == m - (k + 1)
<1>1. c \in Nat /\ m - k = c + 1 /\ m >= 1
  OBVIOUS
<1> HIDE DEF c
<1> DEFINE x == total * c
           y == m * left
           z == m * w
           v == m * u
<1>2. total * (m - k) = x + total
  BY <1>1
<1>3. x \in Int /\ x >= 0 /\ y \in Int /\ z \in Int /\ v \in Int
  BY <1>1
<1>4. v <= z
  <2>1. w = u + (w - u) /\ w - u \in Nat
    OBVIOUS
  <2> DEFINE h == w - u
  <2>2. m * (u + h) = m * u + m * h /\ m * h >= 0
    BY <2>1
  <2> QED BY <2>1, <2>2
<1>5. m * (left - u) = y - v
  OBVIOUS
<1>6. ~(left < w)
  <2> SUFFICES ASSUME left < w PROVE FALSE
    OBVIOUS
  <2> DEFINE h == w - left
  <2>1. h \in Nat /\ h >= 1 /\ w = left + h
    OBVIOUS
  <2> HIDE DEF h
  <2>2. z = y + m * h /\ m * h >= m
    <3>1. m * (left + h) = m * left + m * h
      BY <2>1
    <3>2. m * h >= m
      <4> DEFINE g == h - 1
      <4>1. g \in Nat /\ h = g + 1
        BY <2>1
      <4> HIDE DEF g
      <4>2. m * (g + 1) = m * g + m /\ m * g >= 0
        BY <4>1
      <4> QED BY <4>1, <4>2
    <3> QED BY <2>1, <3>1, <3>2
  <2> DEFINE q == m * h
  <2>3. y >= x + total /\ z <= total /\ z = y + q /\ q >= m /\ q \in Int
    BY <1>2, <2>1, <2>2
  <2> HIDE DEF x, y, z, q
  <2> QED BY ONLY <1>1, <1>3, <2>3, m \in Nat, total \in Nat
<1>7. y >= x + total /\ z <= total
  BY <1>2
<1> HIDE DEF x, y, z, v
<1>8. y - v >= x /\ y >= x
  BY ONLY <1>3, <1>4, <1>7, total \in Nat
<1> QED BY <1>5, <1>6, <1>8 DEF c, x, y

\* The loop with the largest weight, in which the messages after p are refused.
Reaches(s, lane, relayer, start, n, p) ==
    /\ s.stopped = FALSE
    /\ s.lane = ReceiveClosed(lane, relayer, start, Lesser(n, p))
    /\ MaxNonce * s.dispatch_weight_left >= MaxWeight * (MaxNonce - (n - start + 1))

\* A round of this loop never runs out of weight, and stops accepting at p.
LEMMA ReachesNext ==
    ASSUME NEW lane \in InboundLaneData, NEW relayer \in Relayers, NEW start \in Nonces,
           NEW end \in Nonces, NEW n \in Nat, start <= n + 1, n + 1 <= end,
           NEW p \in (start - 1)..end,
           NEW s \in ReceiveState, Reaches(s, lane, relayer, start, n, p)
    PROVE  Reaches(ReceiveRound(s, relayer, n + 1, {j \in start..end : j > p}),
                   lane, relayer, start, n + 1, p)
<1> DEFINE m == n + 1
           refused == {j \in start..end : j > p}
           t == ReceiveRound(s, relayer, m, refused)
           C(i) == ReceiveClosed(lane, relayer, start, i)
           can == CanAccept(lane, relayer, start, n)
           left == s.dispatch_weight_left
           k == n - start + 1
<1>1. /\ m \in Nonces /\ m \in Nat /\ start \in Nat /\ start >= 1 /\ p \in Nat /\ MaxNonce \in Nat
      /\ n + 1 <= MaxNonce /\ MaxWeight \in Nat /\ k \in Nat /\ k + 1 <= MaxNonce
      /\ m - start + 1 = k + 1
  BY LaneAssumption, LoopsAssumption DEF Nonces
<1>2. left \in Int /\ s.stopped = FALSE /\ s.lane = C(Lesser(n, p))
      /\ MaxNonce * left >= MaxWeight * (MaxNonce - k)
  BY DEF ReceiveState, Reaches
<1>3. m \in refused <=> m > p
  BY <1>1
<1>4. /\ MessageWeight[m] \in Nat /\ SpentOn(m) \in Nat /\ SpentOn(m) <= MessageWeight[m]
      /\ MaxNonce * MessageWeight[m] <= MaxWeight
  BY <1>1, SpentOnType, LoopsAssumption
<1>5. /\ can => PushDispatched(C(n), relayer, m) = C(m)
      /\ ~can => C(m) = C(n)
      /\ ReceivalResult(C(n), m, refused) = "Dispatched" <=> can /\ m \notin refused
  BY <1>1, ClosedRound
<1>6. RoundOutcome(s, t, relayer, m, refused)
  <2> HIDE DEF m, refused
  <2> QED BY <1>1, ReceiveRoundFacts
<1> DEFINE w == MessageWeight[m]
           u == SpentOn(m)
<1> HIDE DEF m, refused, t, C, can, left, k, w, u
<1>7. w <= left /\ MaxNonce * (left - u) >= MaxWeight * (MaxNonce - (k + 1))
      /\ MaxNonce * left >= MaxWeight * (MaxNonce - (k + 1))
  <2>1. w \in Nat /\ u \in Nat /\ u <= w /\ MaxNonce * w <= MaxWeight
    BY <1>4 DEF w, u
  <2> QED BY ONLY <1>1, <1>2, <2>1, ShareLeft
<1>8. IF ReceivalResult(s.lane, m, refused) = "Dispatched"
      THEN t.lane = PushDispatched(s.lane, relayer, m) /\ t.dispatch_weight_left = left - u /\ t.stopped = FALSE
      ELSE t = s
  <2>1. ~(MessageWeight[m] > s.dispatch_weight_left)
    BY <1>2, <1>4, <1>7 DEF left, w
  <2> QED BY <1>2, <1>6, <2>1 DEF RoundOutcome, left, u
<1>9. /\ t.stopped = FALSE
      /\ MaxNonce * t.dispatch_weight_left >= MaxWeight * (MaxNonce - (k + 1))
  BY <1>2, <1>7, <1>8 DEF left
<1>10. t.lane = C(Lesser(m, p))
  <2>1. CASE n < p
    <3>1. Lesser(n, p) = n /\ Lesser(m, p) = m /\ m \notin refused
      BY <1>1, <1>3, <2>1 DEF Lesser, m
    <3> QED BY <1>2, <1>5, <1>8, <3>1
  <2>2. CASE ~(n < p)
    <3>1. Lesser(n, p) = p /\ Lesser(m, p) = p /\ m \in refused
      BY <1>1, <1>3, <2>2 DEF Lesser, m
    <3>2. ReceivalResult(s.lane, m, refused) # "Dispatched"
      BY <3>1 DEF ReceivalResult
    <3> QED BY <1>2, <1>8, <3>1, <3>2
  <2> QED BY <2>1, <2>2
<1>11. Reaches(t, lane, relayer, start, m, p)
  BY <1>1, <1>9, <1>10 DEF Reaches, C
<1> QED BY <1>11 DEF t, m, refused

\* Every cut-off point of the closed form is an outcome of the loop.
LEMMA CutOffIsLoop ==
    ASSUME NEW lane \in InboundLaneData, NEW relayer \in Relayers, NEW start \in Nonces,
           NEW end \in Nonces, start <= end, NEW p \in (start - 1)..end
    PROVE  ReceiveClosed(lane, relayer, start, p)
             = ReceiveLoop(lane, relayer, start, end, {j \in start..end : j > p}, MaxWeight)
<1> DEFINE lo == start - 1
           refused == {j \in start..end : j > p}
<1>1. /\ lo \in Nat /\ end \in Nat /\ lo <= end /\ start = lo + 1 /\ MaxNonce \in Nat /\ p \in Nat
      /\ lo \in lo..end /\ end \in lo..end /\ lo <= p /\ p <= end /\ MaxWeight \in Nat
      /\ lo - start + 1 = 0
  BY LaneAssumption, LoopsAssumption DEF Nonces
<1>2. PICK F : /\ IsReceiving(F, lane, relayer, start, end, refused, MaxWeight)
               /\ ReceiveLoop(lane, relayer, start, end, refused, MaxWeight) = F[end].lane
  <2> HIDE DEF refused
  <2>1. MaxWeight \in Int
    BY <1>1
  <2> QED BY <2>1, ReceivingExists
<1> DEFINE S == {n \in lo..end : Reaches(F[n], lane, relayer, start, n, p)}
<1>3. lo \in S
  <2>1. F[lo].lane = lane /\ F[lo].stopped = FALSE /\ F[lo].dispatch_weight_left = MaxWeight
    BY <1>2 DEF IsReceiving, NotReceived
  <2>2. ReceiveClosed(lane, relayer, start, lo) = lane
    BY ClosedStart
  <2>3. Lesser(lo, p) = lo
    BY <1>1 DEF Lesser
  <2>4. MaxNonce * MaxWeight >= MaxWeight * (MaxNonce - (lo - start + 1))
    <3>1. MaxNonce - (lo - start + 1) = MaxNonce
      BY <1>1
    <3>2. MaxNonce * MaxWeight = MaxWeight * MaxNonce /\ MaxNonce * MaxWeight \in Int
      BY <1>1
    <3> QED BY <3>1, <3>2
  <2> HIDE DEF lo
  <2>5. Reaches(F[lo], lane, relayer, start, lo, p)
    BY <2>1, <2>2, <2>3, <2>4 DEF Reaches
  <2> QED BY <1>1, <2>5
<1>4. ASSUME NEW n \in lo..end, n \in S, n < end PROVE n + 1 \in S
  <2>1. /\ n \in Nat /\ start <= n + 1 /\ n + 1 <= end /\ n + 1 \in start..end
        /\ (n + 1) - 1 = n /\ n + 1 \in lo..end
    BY <1>1, <1>4
  <2>2. F[n + 1] = ReceiveRound(F[n], relayer, n + 1, refused) /\ F[n] \in ReceiveState
    BY <1>2, <1>4, <2>1 DEF IsReceiving
  <2>3. Reaches(F[n], lane, relayer, start, n, p)
    BY <1>4
  <2>4. Reaches(F[n + 1], lane, relayer, start, n + 1, p)
    BY <2>1, <2>2, <2>3, ReachesNext
  <2> QED BY <2>1, <2>4
<1> HIDE DEF S, lo
<1>5. \A n \in lo..end : n \in S
  BY <1>1, <1>3, <1>4, SetOfInterval
<1>6. Reaches(F[end], lane, relayer, start, end, p)
  BY <1>1, <1>5 DEF S
<1>7. Lesser(end, p) = p
  BY <1>1 DEF Lesser
<1> QED BY <1>2, <1>6, <1>7 DEF Reaches

\* The message loop of receive_messages_proof and the closed form of MessageLane have the
\* same outcomes in every state of the lane, for every batch and every number of messages:
\* whatever the weights, the refusals of pre_dispatch and the results, a batch is cut off
\* at one message and accepted up to it.
THEOREM ReceiveLoopClosed == Spec => []ReceiveLoopIsClosedForm
<1>1. TypeOK => ReceiveLoopIsClosedForm
  <2> SUFFICES ASSUME TypeOK PROVE ReceiveLoopIsClosedForm
    OBVIOUS
  <2>1. inbound \in InboundLaneData
    BY DEF TypeOK
  <2>2. ASSUME NEW relayer \in Relayers, NEW start \in Nonces, NEW end \in Nonces, start <= end
        PROVE  {ReceiveLoop(inbound, relayer, start, end, refused, weight) :
                  refused \in SUBSET (start..end), weight \in 0..MaxWeight}
             = {ReceiveClosed(inbound, relayer, start, processed) :
                  processed \in (start - 1)..end}
    <3>1. ASSUME NEW refused \in SUBSET (start..end), NEW weight \in 0..MaxWeight
          PROVE  \E p \in (start - 1)..end : ReceiveLoop(inbound, relayer, start, end, refused, weight)
                    = ReceiveClosed(inbound, relayer, start, p)
      <4>1. weight \in Int
        OBVIOUS
      <4> QED BY <2>1, <2>2, <4>1, LoopIsCutOff
    <3>2. ASSUME NEW p \in (start - 1)..end
          PROVE  \E refused \in SUBSET (start..end), weight \in 0..MaxWeight :
                    ReceiveClosed(inbound, relayer, start, p)
                      = ReceiveLoop(inbound, relayer, start, end, refused, weight)
      <4>1. MaxWeight \in 0..MaxWeight
        BY LoopsAssumption
      <4>2. {j \in start..end : j > p} \in SUBSET (start..end)
        OBVIOUS
      <4>3. ReceiveClosed(inbound, relayer, start, p)
              = ReceiveLoop(inbound, relayer, start, end, {j \in start..end : j > p}, MaxWeight)
        BY <2>1, <2>2, CutOffIsLoop
      <4> QED BY <4>1, <4>2, <4>3
    <3> QED BY <3>1, <3>2
  <2> QED BY <2>2 DEF ReceiveLoopIsClosedForm
<1> QED BY <1>1, TypeCorrectness, PTL
=============================================================================
