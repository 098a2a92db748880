----------------------------- MODULE LaneLoops -----------------------------
(***************************************************************************)
(* The loops of the messages pallet, iteration by iteration, and the       *)
(* statement that the closed forms MessageLane uses for them (to be        *)
(* provable) compute the same on every reachable lane.                     *)
(***************************************************************************)
EXTENDS MessageLane

CONSTANTS
    MessageWeight,  \* dispatch_weight of every message
    UnspentWeight,  \* the unspent_weight that its dispatch reports
    ResultOf,       \* the dispatch_result
    MaxWeight       \* bound: the dispatch weight a relayer declares

Nonces == 1..MaxNonce

ASSUME LoopsAssumption ==
    /\ MessageWeight \in [Nonces -> Nat]
    /\ UnspentWeight \in [Nonces -> Nat]
    /\ ResultOf \in [Nonces -> BOOLEAN]
    /\ MaxWeight \in Nat
    \* a relayer can declare enough for any batch
    /\ \A n \in Nonces : MaxNonce * MessageWeight[n] <= MaxWeight

\* InboundLane::receive_message: the ReceivalResult; refused is the set of messages
\* that pre_dispatch refuses.
ReceivalResult(lane, nonce, refused) ==
    IF nonce # LastDelivered(lane) + 1 THEN "InvalidNonce"
    ELSE IF Len(lane.relayers) >= MaxUnrewardedRelayerEntries THEN "TooManyUnrewardedRelayers"
    ELSE IF nonce - lane.last_confirmed_nonce > MaxUnconfirmedMessages
    THEN "TooManyUnconfirmedMessages"
    ELSE IF nonce \in refused THEN "PreDispatchValidateFailed" ELSE "Dispatched"

\* DeliveredMessages::new and note_dispatched_message, in the entry of a relayer
NewDeliveredMessages(relayer, nonce, result) ==
    [relayer |-> relayer, begin |-> nonce, end |-> nonce, dispatch_results |-> <<result>>]
NoteDispatchedMessage(entry, result) ==
    [entry EXCEPT !.end = @ + 1, !.dispatch_results = Append(@, result)]

\* InboundLane::receive_message, once the message is accepted and dispatched.
PushDispatched(lane, relayer, nonce) ==
    LET q == lane.relayers
    IN  [lane EXCEPT !.relayers =
          IF q # <<>> /\ q[Len(q)].relayer = relayer
          THEN [q EXCEPT ![Len(q)] = NoteDispatchedMessage(@, ResultOf[nonce])]
          ELSE Append(q, NewDeliveredMessages(relayer, nonce, ResultOf[nonce]))]

\* One round of the message loop of receive_messages_proof; stopped is
\* is_lane_processing_stopped_no_weight_left.
ReceiveRound(state, relayer, nonce, refused) ==
    IF state.stopped \/ MessageWeight[nonce] > state.dispatch_weight_left
    THEN [state EXCEPT !.stopped = TRUE]
    ELSE IF ReceivalResult(state.lane, nonce, refused) # "Dispatched" THEN state
    ELSE [state EXCEPT
            !.lane = PushDispatched(@, relayer, nonce),
            !.dispatch_weight_left =
              @ - (MessageWeight[nonce] - Lesser(UnspentWeight[nonce], MessageWeight[nonce]))]

\* The message loop of receive_messages_proof over start..end.
ReceiveLoop(lane, relayer, start, end, refused, dispatch_weight) ==
    LET state[nonce \in (start - 1)..end] ==
          IF nonce = start - 1
          THEN [lane |-> lane, dispatch_weight_left |-> dispatch_weight, stopped |-> FALSE]
          ELSE ReceiveRound(state[nonce - 1], relayer, nonce, refused)
    IN  state[end].lane

\* The while loop of receive_state_update.
PopRound(relayers, new_confirmed_nonce) ==
    IF relayers # <<>> /\ Head(relayers).end <= new_confirmed_nonce
    THEN Tail(relayers) ELSE relayers
PopFront(relayers, new_confirmed_nonce) ==
    LET popped[n \in 0..Len(relayers)] ==
          IF n = 0 THEN relayers ELSE PopRound(popped[n - 1], new_confirmed_nonce)
    IN  popped[Len(relayers)]

\* One round of extract_dispatch_results: the first error ends the loop; last_entry_end
\* holds at most one nonce.
ExtractRound(state, entry, received, latest) ==
    LET newBegin == Greater(entry.begin, received + 1)
        newEnd == Lesser(entry.end, latest)
        bits == IF newBegin > newEnd THEN <<>>
                ELSE SubSeq(entry.dispatch_results, newBegin - entry.begin + 1,
                            Len(entry.dispatch_results))
        Failed(error) == [state EXCEPT !.result = error]
    IN  IF state.result # "ConfirmedMessages" THEN state
        ELSE IF entry.end < entry.begin THEN Failed("EmptyUnrewardedRelayerEntry")
        ELSE IF ~(state.last_entry_end \subseteq {entry.begin - 1})
        THEN Failed("NonConsecutiveUnrewardedRelayerEntries")
        ELSE IF entry.end > latest THEN Failed("FailedToConfirmFutureMessages")
        ELSE IF Len(entry.dispatch_results) # entry.end - entry.begin + 1
        THEN Failed("InvalidNumberOfDispatchResults")
        ELSE [state EXCEPT !.last_entry_end = {entry.end}, !.dispatch_results = @ \o bits]

\* extract_dispatch_results: the error of the first entry that is not in order, or the
\* results of the newly confirmed messages.
ExtractDispatchResults(relayers, received, latest) ==
    LET state[i \in 0..Len(relayers)] ==
          IF i = 0
          THEN [result |-> "ConfirmedMessages", last_entry_end |-> {}, dispatch_results |-> <<>>]
          ELSE ExtractRound(state[i - 1], relayers[i], received, latest)
    IN  state[Len(relayers)]

\* OutboundLane::confirm_delivery: its ReceivalConfirmationResult with the results.
ConfirmDelivery(lane, max_allowed_messages, latest_delivered_nonce, relayers) ==
    LET received == lane.latest_received_nonce
        Failed(error) == [result |-> error, last_entry_end |-> {}, dispatch_results |-> <<>>]
    IN  IF latest_delivered_nonce <= received THEN Failed("NoNewConfirmations")
        ELSE IF latest_delivered_nonce > lane.latest_generated_nonce
        THEN Failed("FailedToConfirmFutureMessages")
        ELSE IF latest_delivered_nonce - received > max_allowed_messages
        THEN Failed("TryingToConfirmMoreMessagesThanExpected")
        ELSE ExtractDispatchResults(relayers, received, latest_delivered_nonce)

\* The while loop of prune_messages: the oldest unpruned nonce.
PruneRound(oldest, received) == IF oldest <= received THEN oldest + 1 ELSE oldest
PruneLoop(lane) ==
    LET oldest[pruned \in 0..MaxMessagesToPruneAtOnce] ==
          IF pruned = 0 THEN lane.oldest_unpruned_nonce
          ELSE PruneRound(oldest[pruned - 1], lane.latest_received_nonce)
    IN  oldest[MaxMessagesToPruneAtOnce]

-----------------------------------------------------------------------------
\* What MessageLane makes of a proof of start..end whose messages are processed
\* up to processed.
ReceiveClosed(lane, relayer, start, processed) ==
    LET first == FirstNew(lane, start)
        accepted == AcceptedCount(lane, relayer, start, processed)
    IN  NoteDispatched(lane, relayer, first, [i \in 1..accepted |-> ResultOf[first + i - 1]])

\* For every batch a relayer may deliver to the current lane, the outcomes of the
\* message loop over all declared weights and all refusals of pre_dispatch are
\* exactly the outcomes of the closed form over all cut-off points.
ReceiveLoopIsClosedForm ==
    \A relayer \in Relayers, start \in Nonces, end \in Nonces :
        start <= end =>
            {ReceiveLoop(inbound, relayer, start, end, refused, weight) :
                refused \in SUBSET (start..end), weight \in 0..MaxWeight}
          = {ReceiveClosed(inbound, relayer, start, processed) :
                processed \in (start - 1)..end}

\* Popping confirmed entries one by one and trimming the front is DropConfirmed,
\* for every nonce the source may report.
PopFrontMatches ==
    \A c \in 0..LastDelivered(inbound) :
        LET popped == PopFront(inbound.relayers, c)
        IN  DropConfirmed(inbound.relayers, c) =
              IF popped = <<>> THEN <<>> ELSE <<TrimEntry(Head(popped), c)>> \o Tail(popped)

\* A queue, and the queues with one entry corrupted.
Corruptions(relayers) ==
    {relayers} \cup
    UNION {{[relayers EXCEPT ![i].begin = @ + 1], [relayers EXCEPT ![i].end = @ + 1],
            [relayers EXCEPT ![i].end = @ - 1],
            [relayers EXCEPT ![i].dispatch_results = Tail(@)],
            [relayers EXCEPT ![i].end = @ + 1, ![i].dispatch_results = Append(@, TRUE)]} :
              i \in 1..Len(relayers)}

\* confirm_delivery confirms a queue exactly if ConfirmsDelivery does, and the results
\* that it extracts, in order from the first newly confirmed message, are those that
\* DeliveryOf looks up by nonce.
ConfirmMatches ==
    \A h \in Slots : \A relayers \in Corruptions(targetHeaders[h].relayers) :
        LET received == outbound.latest_received_nonce
            latest == LastDelivered([targetHeaders[h] EXCEPT !.relayers = relayers])
            confirmed == ConfirmDelivery(outbound, TotalUnrewardedMessages(relayers), latest, relayers)
        IN  IF latest > received /\ ConfirmsDelivery(outbound, relayers, latest)
            THEN /\ confirmed.result = "ConfirmedMessages"
                 /\ confirmed.dispatch_results =
                      [i \in 1..(latest - received) |-> DeliveryOf(relayers, received + i).result]
            ELSE confirmed.result # "ConfirmedMessages"

\* The loops over the queue of unrewarded relayers (receive_state_update and
\* extract_dispatch_results, on corrupted queues too) and over the messages to prune
\* (prune_messages) compute what the closed forms of MessageLane say, in every state of
\* the lane.
QueueLoopsAreClosedForms ==
    /\ PopFrontMatches
    /\ ConfirmMatches
    /\ PruneLoop(outbound) = LastPruned(outbound) + 1

=============================================================================
