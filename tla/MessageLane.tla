---------------------------- MODULE MessageLane ----------------------------
(***************************************************************************)
(* One lane of the messages pallet: the outbound lane at the source chain, *)
(* the inbound lane at the target chain, and the relayers that carry       *)
(* storage proofs between them.                                            *)
(*                                                                         *)
(* Every action is one transaction, executed atomically by its chain: a    *)
(* call that returns an error is rolled back, so it is not a step.  The    *)
(* chains never see each other's current state: a transaction proves the   *)
(* state of the other chain at a header that the on-chain light client has *)
(* imported and still keeps.  Since a relayer may use any kept header and  *)
(* submit any call at any time, any number of times, calls are lost,       *)
(* delayed, duplicated and reordered.                                      *)
(***************************************************************************)
EXTENDS Integers, Sequences

CONSTANTS
    Relayers,                     \* relayers, by their account at the source chain
    DispatchResults,              \* outcomes of a dispatch at the target chain
    MaxNonce,                     \* bound: messages sent over the lane
    MaxUnconfirmedMessages,       \* MaxUnconfirmedMessagesAtInboundLane
    MaxUnrewardedRelayerEntries,  \* MaxUnrewardedRelayerEntriesAtInboundLane
    MaxMessagesToPruneAtOnce,
    MaxPendingMessages,           \* maximal_pending_messages_at_outbound_lane()
    HeadersToKeep,                \* headers kept by the light client
    Modes,                        \* operating modes the pallet owners choose from
    FilterObsolete                \* is BridgeRuntimeFilterCall in the runtime?

ASSUME LaneAssumption ==
    /\ DispatchResults \subseteq BOOLEAN
    /\ MaxNonce \in Nat
    /\ MaxUnconfirmedMessages \in Nat
    /\ MaxUnrewardedRelayerEntries \in Nat
    /\ MaxMessagesToPruneAtOnce \in Nat
    /\ MaxPendingMessages \in Nat
    /\ HeadersToKeep \in Nat \ {0}
    /\ Modes \subseteq {"Normal", "Halted", "RejectingOutboundMessages"}
    /\ FilterObsolete \in BOOLEAN

VARIABLES
    outbound,          \* OutboundLanes at the source: OutboundLaneData
    outboundMessages,  \* OutboundMessages at the source: the stored nonces
    inbound,           \* InboundLanes at the target: InboundLaneData
    sourceMode,        \* PalletOperatingMode at the source
    targetMode,        \* PalletOperatingMode at the target
    sourceHeaders,     \* source states at the headers kept at the target, newest first
    targetHeaders,     \* target states at the headers kept at the source, newest first
    dispatched,        \* history: the messages the target dispatched
    rewarded           \* history: the deliveries the source confirmed and paid for

sourceVars == <<outbound, outboundMessages, sourceMode>>
targetVars == <<inbound, targetMode>>
vars == <<outbound, outboundMessages, inbound, sourceMode, targetMode,
          sourceHeaders, targetHeaders, dispatched, rewarded>>

-----------------------------------------------------------------------------
(* Types. *)

Slots == 1..HeadersToKeep

OutboundLaneData == [oldest_unpruned_nonce : Nat,
                     latest_received_nonce : Nat,
                     latest_generated_nonce : Nat]

\* UnrewardedRelayer with its DeliveredMessages: dispatch_results[i] is the
\* result of message begin + i - 1.
UnrewardedRelayer == [relayer : Relayers, begin : Nat, end : Nat,
                      dispatch_results : Seq(BOOLEAN)]

InboundLaneData == [relayers : Seq(UnrewardedRelayer),
                    last_confirmed_nonce : Nat]

\* What a proof from a source header can show: the lane and its messages.
SourceState == [lane : OutboundLaneData, messages : SUBSET Nat]

\* One delivered message: who delivered it, and what its dispatch returned.
Delivery == [nonce : Nat, relayer : Relayers, result : BOOLEAN]

Lesser(a, b) == IF a < b THEN a ELSE b
Greater(a, b) == IF a < b THEN b ELSE a

-----------------------------------------------------------------------------
(* The outbound lane (source chain). *)

InitOutboundLane == [oldest_unpruned_nonce |-> 1,
                     latest_received_nonce |-> 0,
                     latest_generated_nonce |-> 0]

\* Mutant: pruning follows the generated nonce instead of the received one.
LastPrunedGenerated(lane) ==
    Lesser(lane.oldest_unpruned_nonce + MaxMessagesToPruneAtOnce - 1,
           lane.latest_generated_nonce)

\* OutboundLane::prune_messages: the last nonce pruned (oldest - 1 if none).
LastPruned(lane) ==
    IF lane.oldest_unpruned_nonce <= lane.latest_received_nonce
    THEN Lesser(lane.oldest_unpruned_nonce + MaxMessagesToPruneAtOnce - 1,
                lane.latest_received_nonce)
    ELSE lane.oldest_unpruned_nonce - 1

\* FromThisChainMessageVerifier: reject if there are too many pending messages.
\* (Its origin and fee checks do not read the lane.)
AcceptedByLaneVerifier(lane) ==
    lane.latest_generated_nonce - lane.latest_received_nonce <= MaxPendingMessages

\* total_unrewarded_messages: what the relayer declares as total_messages.
TotalUnrewardedMessages(relayers) ==
    IF relayers = <<>> \/ relayers[Len(relayers)].end < relayers[1].begin
    THEN 0
    ELSE relayers[Len(relayers)].end - relayers[1].begin + 1

\* The checks extract_dispatch_results makes on every entry.
ValidEntries(relayers, latest_delivered_nonce) ==
    \A i \in 1..Len(relayers) :
        /\ relayers[i].begin <= relayers[i].end
        /\ i > 1 => relayers[i].begin = relayers[i-1].end + 1
        /\ relayers[i].end <= latest_delivered_nonce
        /\ Len(relayers[i].dispatch_results) = relayers[i].end - relayers[i].begin + 1

\* OutboundLane::confirm_delivery returns ConfirmedMessages (and no error).
ConfirmsDelivery(lane, relayers, latest_delivered_nonce) ==
    /\ latest_delivered_nonce <= lane.latest_generated_nonce
    /\ latest_delivered_nonce - lane.latest_received_nonce
         <= TotalUnrewardedMessages(relayers)
    /\ ValidEntries(relayers, latest_delivered_nonce)

\* Mutant: the results of an entry are read from its end.
DeliveryReversed(relayers, nonce) ==
    LET i == CHOOSE j \in 1..Len(relayers) :
                 relayers[j].begin <= nonce /\ nonce <= relayers[j].end
    IN  [nonce   |-> nonce,
         relayer |-> relayers[i].relayer,
         result  |-> relayers[i].dispatch_results[relayers[i].end - nonce + 1]]

\* The delivery of message nonce according to the relayers vec of the proof: the
\* relayer that is paid for it and the dispatch result given to the sender.
DeliveryOf(relayers, nonce) ==
    LET i == CHOOSE j \in 1..Len(relayers) :
                 relayers[j].begin <= nonce /\ nonce <= relayers[j].end
    IN  [nonce   |-> nonce,
         relayer |-> relayers[i].relayer,
         result  |-> relayers[i].dispatch_results[nonce - relayers[i].begin + 1]]

-----------------------------------------------------------------------------
(* The inbound lane (target chain). *)

InitInboundLane == [relayers |-> <<>>, last_confirmed_nonce |-> 0]

\* Mutant: an empty queue reads as a lane that never received a message.
LastDeliveredOrZero(lane) ==
    IF lane.relayers = <<>> THEN 0 ELSE lane.relayers[Len(lane.relayers)].end

\* InboundLaneData::last_delivered_nonce
LastDelivered(lane) ==
    IF lane.relayers = <<>> THEN lane.last_confirmed_nonce
                            ELSE lane.relayers[Len(lane.relayers)].end

\* Mutant: an entry is dropped as soon as its first message is confirmed.
FirstUnconfirmedByBegin(relayers, new_confirmed_nonce) ==
    CHOOSE i \in 1..(Len(relayers) + 1) :
        /\ \A j \in 1..(i - 1) : relayers[j].begin <= new_confirmed_nonce
        /\ i <= Len(relayers) => relayers[i].begin > new_confirmed_nonce

\* The first entry that pop_front leaves: Len + 1 if it removes them all.
FirstUnconfirmed(relayers, new_confirmed_nonce) ==
    CHOOSE i \in 1..(Len(relayers) + 1) :
        /\ \A j \in 1..(i - 1) : relayers[j].end <= new_confirmed_nonce
        /\ i <= Len(relayers) => relayers[i].end > new_confirmed_nonce

\* Mutant: split_off one result too late.
TrimEntryShort(entry, new_confirmed_nonce) ==
    IF entry.begin < new_confirmed_nonce
    THEN [entry EXCEPT
            !.dispatch_results = SubSeq(@, new_confirmed_nonce + 1 - entry.begin, Len(@)),
            !.begin = new_confirmed_nonce + 1]
    ELSE entry

\* The front entry that is partly confirmed loses its confirmed messages.
TrimEntry(entry, new_confirmed_nonce) ==
    IF entry.begin < new_confirmed_nonce
    THEN [entry EXCEPT
            !.dispatch_results = SubSeq(@, new_confirmed_nonce + 1 - entry.begin + 1, Len(@)),
            !.begin = new_confirmed_nonce + 1]
    ELSE entry

\* The queue once the source is known to have confirmed new_confirmed_nonce.
DropConfirmed(relayers, new_confirmed_nonce) ==
    LET first == FirstUnconfirmed(relayers, new_confirmed_nonce)
    IN  [i \in 1..(Len(relayers) - first + 1) |->
            IF i = 1 THEN TrimEntry(relayers[first], new_confirmed_nonce)
                     ELSE relayers[first + i - 1]]

\* Mutant: a stale lane state is applied too.
ReceiveStaleStateUpdate(lane, latest_received_nonce) ==
    IF latest_received_nonce > LastDelivered(lane) THEN lane
    ELSE [relayers |-> DropConfirmed(lane.relayers, latest_received_nonce),
          last_confirmed_nonce |-> latest_received_nonce]

\* Mutant: the lane state in the proof is ignored.
IgnoreStateUpdate(lane, latest_received_nonce) == lane

\* InboundLane::receive_state_update
ReceiveStateUpdate(lane, latest_received_nonce) ==
    IF \/ latest_received_nonce > LastDelivered(lane)
       \/ latest_received_nonce <= lane.last_confirmed_nonce
    THEN lane
    ELSE [relayers |-> DropConfirmed(lane.relayers, latest_received_nonce),
          last_confirmed_nonce |-> latest_received_nonce]

\* Mutant: the back entry is extended whoever delivers.
ExtendsAnyBack(lane, relayer) == lane.relayers # <<>>

\* Does the back entry of the queue belong to this relayer?
ExtendsBack(lane, relayer) ==
    lane.relayers # <<>> /\ lane.relayers[Len(lane.relayers)].relayer = relayer

\* The first message of a proof of start, start + 1, ... that is not delivered yet.
FirstNew(lane, start) == Greater(start, LastDelivered(lane) + 1)

\* Mutant: any message that is not delivered yet is accepted.
AcceptedWithGaps(lane, relayer, start, processed) ==
    LET byEntries == IF Len(lane.relayers) >= MaxUnrewardedRelayerEntries
                     THEN LastDelivered(lane) ELSE processed
    IN  Greater(0, byEntries - FirstNew(lane, start) + 1)

\* Mutant: the queue is tested with > instead of >=.
AcceptedOverfull(lane, relayer, start, processed) ==
    LET delivered == LastDelivered(lane)
        last == Lesser(processed, lane.last_confirmed_nonce + MaxUnconfirmedMessages)
    IN  IF /\ start <= delivered + 1
           /\ last > delivered
           /\ Len(lane.relayers) <= MaxUnrewardedRelayerEntries
        THEN last - delivered ELSE 0

\* How many messages are accepted when InboundLane::receive_message is called for
\* start, start + 1, ... in turn; processed is the last message before the
\* declared dispatch weight runs out or pre_dispatch refuses one.  A message is
\* accepted only right after the last delivered one, so the first refusal makes
\* every later nonce invalid.  A full queue refuses even the back entry's
\* relayer, hence an entry that fills the queue holds a single message.
AcceptedCount(lane, relayer, start, processed) ==
    LET delivered == LastDelivered(lane)
        entries == Len(lane.relayers)
        byEntries == IF entries >= MaxUnrewardedRelayerEntries
                     THEN delivered
                     ELSE IF ExtendsBack(lane, relayer)
                               \/ entries + 1 < MaxUnrewardedRelayerEntries
                     THEN processed
                     ELSE delivered + 1
        byUnconfirmed == lane.last_confirmed_nonce + MaxUnconfirmedMessages
        last == Lesser(processed, Lesser(byEntries, byUnconfirmed))
    IN  IF start <= delivered + 1 /\ last > delivered THEN last - delivered ELSE 0

\* Mutant: the entry records the relayer's account at the wrong chain.
NoteDispatchedAtTarget(lane, relayer, first, results) ==
    IF results = <<>> THEN lane
    ELSE [lane EXCEPT !.relayers =
            Append(@, [relayer |-> "relayer_at_this_chain",
                       begin   |-> first,
                       end     |-> first + Len(results) - 1,
                       dispatch_results |-> results])]

\* The queue after the relayer's messages first, first + 1, ... were dispatched
\* with these results.
NoteDispatched(lane, relayer, first, results) ==
    LET back == Len(lane.relayers)
    IN  IF results = <<>> THEN lane
        ELSE IF ExtendsBack(lane, relayer)
        THEN [lane EXCEPT !.relayers[back].end = @ + Len(results),
                          !.relayers[back].dispatch_results = @ \o results]
        ELSE [lane EXCEPT !.relayers =
                Append(@, [relayer |-> relayer,
                           begin   |-> first,
                           end     |-> first + Len(results) - 1,
                           dispatch_results |-> results])]

-----------------------------------------------------------------------------
(* Actions. *)

\* send_message at the source chain, with the pruning that ends it.
SendMessage ==
    LET nonce == outbound.latest_generated_nonce + 1
        pruned == LastPruned(outbound)
    IN  /\ nonce <= MaxNonce
        /\ sourceMode = "Normal"
        /\ AcceptedByLaneVerifier(outbound)
        /\ outbound' = [outbound EXCEPT !.latest_generated_nonce = nonce,
                                        !.oldest_unpruned_nonce = pruned + 1]
        /\ outboundMessages' = (outboundMessages \cup {nonce})
                                 \ (outbound.oldest_unpruned_nonce..pruned)
        /\ UNCHANGED <<targetVars, sourceMode, sourceHeaders, targetHeaders,
                       dispatched, rewarded>>

\* verify_messages_proof_with_parser: the header proves every message in
\* start..end; an empty range is accepted only with the lane state.
ProvesMessages(header, proveState, start, end) ==
    /\ start..end \subseteq header.messages
    /\ start <= end \/ proveState

\* BridgeRuntimeFilterCall: a delivery with nothing new never enters a block.  (A
\* confirmation with nothing new changes no state in any case.)
IsNewDelivery(lane, end) == end > LastDelivered(lane)

\* receive_messages_proof at the target chain: the relayer proves the messages
\* start..end and, if proveState, the outbound lane state at a kept header.
ReceiveMessagesProof(relayer, header, proveState, start, end, processed) ==
    LET updated == IF proveState
                   THEN ReceiveStateUpdate(inbound, header.lane.latest_received_nonce)
                   ELSE inbound
        first == FirstNew(updated, start)
        accepted == AcceptedCount(updated, relayer, start, processed)
    IN  /\ FilterObsolete => IsNewDelivery(inbound, end)
        /\ targetMode # "Halted"
        /\ end - start + 1 <= MaxUnconfirmedMessages
        /\ ProvesMessages(header, proveState, start, end)
        /\ \E results \in [1..accepted -> DispatchResults] :
             /\ inbound' = NoteDispatched(updated, relayer, first, results)
             /\ dispatched' = dispatched \o
                  [i \in 1..accepted |-> [nonce   |-> first + i - 1,
                                          relayer |-> relayer,
                                          result  |-> results[i]]]
        /\ UNCHANGED <<sourceVars, targetMode, sourceHeaders, targetHeaders, rewarded>>

\* receive_messages_delivery_proof at the source chain: lane is the inbound lane
\* at a kept header, the relayer declares its UnrewardedRelayersState.
ReceiveMessagesDeliveryProof(lane) ==
    LET delivered == LastDelivered(lane)
        received == outbound.latest_received_nonce
    IN  /\ sourceMode # "Halted"
        /\ delivered > received
        /\ ConfirmsDelivery(outbound, lane.relayers, delivered)
        /\ outbound' = [outbound EXCEPT !.latest_received_nonce = delivered]
        /\ rewarded' = rewarded \o
             [i \in 1..(delivered - received) |-> DeliveryOf(lane.relayers, received + i)]
        /\ UNCHANGED <<targetVars, outboundMessages, sourceMode, sourceHeaders,
                       targetHeaders, dispatched>>

\* set_operating_mode, called by the owner of the pallet or by root.
SetSourceMode(mode) ==
    /\ sourceMode' = mode
    /\ UNCHANGED <<targetVars, outbound, outboundMessages, sourceHeaders,
                   targetHeaders, dispatched, rewarded>>

SetTargetMode(mode) ==
    /\ targetMode' = mode
    /\ UNCHANGED <<sourceVars, inbound, sourceHeaders, targetHeaders,
                   dispatched, rewarded>>

\* The light client of one chain imports a newer header of the other one and
\* forgets the oldest header it keeps (insert_header, its ring buffer).
ImportHeader(headers, state) ==
    [i \in Slots |-> IF i = 1 THEN state ELSE headers[i-1]]

ImportSourceHeader ==
    /\ sourceHeaders' = ImportHeader(sourceHeaders,
                                     [lane |-> outbound, messages |-> outboundMessages])
    /\ UNCHANGED <<sourceVars, targetVars, targetHeaders, dispatched, rewarded>>

ImportTargetHeader ==
    /\ targetHeaders' = ImportHeader(targetHeaders, inbound)
    /\ UNCHANGED <<sourceVars, targetVars, sourceHeaders, dispatched, rewarded>>

-----------------------------------------------------------------------------
Init ==
    /\ outbound = InitOutboundLane
    /\ outboundMessages = {}
    /\ inbound = InitInboundLane
    /\ sourceMode = "Normal"
    /\ targetMode = "Normal"
    /\ sourceHeaders = [i \in Slots |-> [lane |-> InitOutboundLane, messages |-> {}]]
    /\ targetHeaders = [i \in Slots |-> InitInboundLane]
    /\ dispatched = <<>>
    /\ rewarded = <<>>

ReceiveSomeMessagesProof ==
    \E relayer \in Relayers, h \in Slots, proveState \in BOOLEAN,
       start \in 1..(MaxNonce + 2), end \in 1..(MaxNonce + 1) :
      \E processed \in (start - 1)..end :
        ReceiveMessagesProof(relayer, sourceHeaders[h], proveState, start, end, processed)

ReceiveSomeDeliveryProof ==
    \E h \in Slots : ReceiveMessagesDeliveryProof(targetHeaders[h])

Next ==
    \/ SendMessage
    \/ ReceiveSomeMessagesProof
    \/ ReceiveSomeDeliveryProof
    \/ ImportSourceHeader
    \/ ImportTargetHeader
    \/ \E mode \in Modes : SetSourceMode(mode)
    \/ \E mode \in Modes : SetTargetMode(mode)

Spec == Init /\ [][Next]_vars

\* What an honest relayer keeps doing while there is something to do: prove the
\* messages after the last delivered one with the lane state, with the newest
\* header and enough dispatch weight for the whole batch.
HonestDelivery ==
    \E relayer \in Relayers, end \in 1..MaxNonce :
        LET start == LastDelivered(inbound) + 1
        IN  /\ start <= end
            /\ ReceiveMessagesProof(relayer, sourceHeaders[1], TRUE, start, end, end)

HonestConfirmation == ReceiveMessagesDeliveryProof(targetHeaders[1])

\* The light clients keep following the chains, and an honest relayer serves the
\* lane in both directions.
Fairness ==
    /\ WF_vars(ImportSourceHeader)
    /\ WF_vars(ImportTargetHeader)
    /\ WF_vars(HonestDelivery)
    /\ WF_vars(HonestConfirmation)

FairSpec == Spec /\ Fairness

-----------------------------------------------------------------------------
(* Properties. *)

\* Every variable has its type.
TypeOK ==
    /\ outbound \in OutboundLaneData
    /\ outboundMessages \subseteq Nat
    /\ inbound \in InboundLaneData
    /\ sourceMode \in {"Normal", "Halted", "RejectingOutboundMessages"}
    /\ targetMode \in {"Normal", "Halted", "RejectingOutboundMessages"}
    /\ sourceHeaders \in [Slots -> SourceState]
    /\ targetHeaders \in [Slots -> InboundLaneData]
    /\ dispatched \in Seq(Delivery)
    /\ rewarded \in Seq(Delivery)

\* Whatever stale proofs are submitted, the two chains agree on how far the lane
\* is: what the target believes confirmed was confirmed by the source, what the
\* source confirmed was delivered, and what was delivered had been sent.
NonceOrder ==
    /\ inbound.last_confirmed_nonce <= outbound.latest_received_nonce
    /\ outbound.latest_received_nonce <= LastDelivered(inbound)
    /\ LastDelivered(inbound) <= outbound.latest_generated_nonce

\* The target dispatches every message at most once and in the order of nonces,
\* although deliveries are repeated, overlap and arrive in any order; the last
\* delivered nonce recovered from the relayers queue counts the dispatches.
DispatchedInOrderOnce ==
    /\ Len(dispatched) = LastDelivered(inbound)
    /\ \A i \in 1..Len(dispatched) : dispatched[i].nonce = i

\* The source pays for every delivery exactly once, to the relayer that made it,
\* and hands the sender the dispatch result the target really got.
RewardsMatchDispatches ==
    /\ Len(rewarded) = outbound.latest_received_nonce
    /\ Len(rewarded) <= Len(dispatched)
    /\ \A i \in 1..Len(rewarded) : rewarded[i] = dispatched[i]

\* Pruning removes confirmed messages only: every message the target may still
\* have to be shown is in the storage, and a pruned nonce is never left behind.
StoredMessagesExact ==
    /\ outboundMessages = outbound.oldest_unpruned_nonce..outbound.latest_generated_nonce
    /\ outbound.oldest_unpruned_nonce <= outbound.latest_received_nonce + 1

\* The queue of an inbound lane is a chain of non-empty consecutive ranges, each
\* with one result per message, that starts at most one nonce too early.
QueueConsecutive(lane) ==
    LET q == lane.relayers
    IN  /\ \A i \in 1..Len(q) :
             /\ q[i].begin <= q[i].end
             /\ Len(q[i].dispatch_results) = q[i].end - q[i].begin + 1
             /\ i > 1 => q[i].begin = q[i-1].end + 1
        /\ q # <<>> => /\ q[1].begin \in {lane.last_confirmed_nonce, lane.last_confirmed_nonce + 1}
                       /\ q[1].end > lane.last_confirmed_nonce

\* The relayers queue of the target is well formed and within the limits that
\* bound the size of its storage value and of the delivery proof.
InboundLaneBounded ==
    /\ QueueConsecutive(inbound)
    /\ Len(inbound.relayers) <= MaxUnrewardedRelayerEntries
    /\ LastDelivered(inbound) - inbound.last_confirmed_nonce <= MaxUnconfirmedMessages

\* The source never refuses the truth: the proof of any target state it knows,
\* fresh or stale, either brings nothing new or passes every check of
\* confirm_delivery, whose errors the code calls signs of a corrupted storage.
DeliveryProofsAccepted ==
    \A h \in Slots :
        LET lane == targetHeaders[h]
        IN  LastDelivered(lane) > outbound.latest_received_nonce =>
                ConfirmsDelivery(outbound, lane.relayers, LastDelivered(lane))

\* A lane state proved to the target never confirms more than was delivered: the
\* first return of receive_state_update "should never happen".
StateUpdatesNeverAhead ==
    \A h \in Slots :
        sourceHeaders[h].lane.latest_received_nonce <= LastDelivered(inbound)

\* The verifier keeps the undelivered messages of the lane bounded.
PendingMessagesBounded ==
    outbound.latest_generated_nonce - outbound.latest_received_nonce
        <= MaxPendingMessages + 1

\* No stale proof moves a lane back: confirmations, deliveries and pruning only
\* advance, on both chains.
LaneNeverRewinds ==
    [][/\ inbound'.last_confirmed_nonce >= inbound.last_confirmed_nonce
       /\ LastDelivered(inbound') >= LastDelivered(inbound)
       /\ outbound'.latest_received_nonce >= outbound.latest_received_nonce
       /\ outbound'.oldest_unpruned_nonce >= outbound.oldest_unpruned_nonce]_vars

\* A message that was sent is eventually delivered, and its delivery confirmed at
\* the source, once neither chain is halted any more and whatever other relayers
\* do: no limit of the inbound lane and no filter of obsolete calls blocks the lane
\* for good, and a source that rejects outbound messages still drains.
EveryMessageConfirmed ==
    <>[](sourceMode # "Halted" /\ targetMode # "Halted") =>
        \A n \in 1..MaxNonce :
            (outbound.latest_generated_nonce >= n) ~> (outbound.latest_received_nonce >= n)

\* What a chain can prove to the other one lies in its past: the headers kept by
\* the light clients show nothing that has not happened.
HeadersBehind ==
    /\ \A m \in outboundMessages : m <= outbound.latest_generated_nonce
    /\ \A h \in Slots :
         /\ sourceHeaders[h].lane.latest_received_nonce <= outbound.latest_received_nonce
         /\ \A m \in sourceHeaders[h].messages : m <= outbound.latest_generated_nonce
         /\ LastDelivered(targetHeaders[h]) <= LastDelivered(inbound)

\* The inductive invariant of the lane's nonces.
LaneInv == TypeOK /\ NonceOrder /\ DispatchedInOrderOnce /\ HeadersBehind

\* The queue of a lane tells the truth about a log of deliveries: each entry names
\* the relayer of its messages and the results of their dispatches.
QueueFaithful(lane, log) ==
    LET q == lane.relayers
    IN  \A i \in 1..Len(q) :
          /\ 1 <= q[i].begin
          /\ q[i].end <= LastDelivered(lane)
          /\ \A n \in q[i].begin..q[i].end :
               /\ log[n].relayer = q[i].relayer
               /\ log[n].result = q[i].dispatch_results[n - q[i].begin + 1]

\* The queue of the target, now and at every header the source keeps, is well
\* formed and tells the truth, and the source knows what the target has confirmed.
QueuesFaithful ==
    /\ QueueConsecutive(inbound) /\ QueueFaithful(inbound, dispatched)
    /\ \A h \in Slots :
         /\ QueueConsecutive(targetHeaders[h])
         /\ QueueFaithful(targetHeaders[h], dispatched)
         /\ targetHeaders[h].last_confirmed_nonce <= outbound.latest_received_nonce

\* The inductive invariant of the relayers queue and of the rewards paid from it.
QueueInv == LaneInv /\ QueuesFaithful /\ InboundLaneBounded /\ RewardsMatchDispatches

-----------------------------------------------------------------------------
(* What the lane promises to its users. *)

\* The lane seen by its users.
Channel == INSTANCE ReliableChannel
    WITH sent <- outbound.latest_generated_nonce,
         deliveries <- dispatched,
         acknowledged <- rewarded

\* The lane implements the reliable channel: sending, dispatching at the target
\* and confirming at the source are its only visible steps.
ImplementsReliableChannel == Channel!ChannelSpec

=============================================================================
