----------------------------- MODULE FeeMarket -----------------------------
(***************************************************************************)
(* The fee market of the source chain: relayers lock collateral and quote  *)
(* a fee, the cheapest of them that still have capacity are assigned to    *)
(* every message that is sent, and the confirmation of its delivery pays   *)
(* the relayers involved and slashes the assigned ones that were late.     *)
(*                                                                         *)
(* Every action is one transaction, or the end of a block.  Messages are   *)
(* numbered by the outbound lane; the lane confirms every nonce once, in   *)
(* order, and names the relayer that delivered it.  Balances count whole   *)
(* units; existential deposits are left out (the fund holds its own).      *)
(***************************************************************************)
EXTENDS Integers, Sequences, FiniteSets, Functions, SequencesExt

CONSTANTS
    Accounts,              \* accounts that enroll, deliver and confirm
    Carriers,              \* bound: the accounts that deliver and confirm
    Collaterals,           \* bound: collaterals that each account asks to lock
    Fees,                  \* bound: fees that each account quotes
    OtherLocks,            \* bound: what other pallets lock of each account
    Overpayments,          \* bound: what a sender pays above the market fee
    SlashProtects,         \* bound: values root gives to CollateralSlashProtect
    AssignedNumbers,       \* bound: values root gives to AssignedRelayersNumber
    DefaultAssignedRelayersNumber,
    InitBalance,           \* bound: free balance of an account at genesis
    MaxMessages,           \* bound: messages sent
    MaxBlock,              \* bound: block number
    CollateralPerOrder,
    MinimumRelayFee,
    Slot,                  \* blocks in the slot of an assigned relayer
    DutyRelayersRewardRatio, MessageRelayersRewardRatio,   \* in percent
    ConfirmRelayersRewardRatio, AssignedRelayerSlashRatio, \* in percent
    SlashPerBlock          \* Slasher: dynamic slash for one block of delay

ASSUME MarketAssumption ==
    /\ IsFiniteSet(Accounts) /\ Carriers \subseteq Accounts
    /\ {InitBalance, MaxMessages, MaxBlock, MinimumRelayFee, SlashPerBlock} \subseteq Nat
    /\ {CollateralPerOrder, Slot} \subseteq Nat \ {0}
    /\ Collaterals \in [Accounts -> SUBSET Nat] /\ Fees \in [Accounts -> SUBSET Nat]
    /\ OtherLocks \in [Accounts -> SUBSET Nat]
    /\ Overpayments \cup SlashProtects \subseteq Nat
    /\ AssignedNumbers \cup {DefaultAssignedRelayersNumber} \subseteq Nat
    /\ DutyRelayersRewardRatio \in 0..100
    /\ AssignedRelayerSlashRatio \in 0..100
    /\ MessageRelayersRewardRatio \in 0..100
    /\ ConfirmRelayersRewardRatio \in 0..(100 - MessageRelayersRewardRatio)

VARIABLES
    relayers,       \* Relayers: enrolled accounts, in the order of enrollment
    collateral,     \* RelayersMap[_].collateral (0 when not enrolled)
    fee,            \* RelayersMap[_].fee (0 when not enrolled)
    assigned,       \* AssignedRelayers (<<>> when killed)
    orders,         \* Orders, by message nonce
    slashProtect,   \* CollateralSlashProtect, or NoProtect
    assignedNumber, \* AssignedRelayersNumber
    free,           \* free balance of every account
    fund,           \* balance of the relayer fund above its existential deposit
    block,          \* current block number
    generated,      \* messages accepted by the lane
    received,       \* messages confirmed by the lane
    otherLocks,     \* what other pallets, and other fee markets, lock of the free balance
    unpaid          \* history: rewards whose transfer failed

registry == <<relayers, collateral, fee>>
lane == <<generated, received>>
marketVars == <<relayers, collateral, fee, assigned, orders, slashProtect, assignedNumber,
                free, fund, block, generated, received, unpaid, otherLocks>>

NoProtect == -1
NotConfirmed == -1

-----------------------------------------------------------------------------
(* Arithmetic of balances. *)

AtMost(a, b) == IF a < b THEN a ELSE b
AtLeast(a, b) == IF a < b THEN b ELSE a
SaturatingSub(a, b) == IF a > b THEN a - b ELSE 0

\* Permill * balance: rounded to the nearest integer, a half rounded down.
Ratio(percent, x) ==
    LET q == (percent * x) \div 100
    IN  IF 2 * ((percent * x) % 100) > 100 THEN q + 1 ELSE q

-----------------------------------------------------------------------------
(* The market. *)

Confirmed(order) == order.confirm_time # NotConfirmed

OrderIds(order) == [i \in 1..Len(order.assigned_relayers) |-> order.assigned_relayers[i].id]

\* Order::fee: the quote of the last assigned relayer.
OrderFee(order) == order.assigned_relayers[Len(order.assigned_relayers)].fee

\* The orders that wait for their confirmation, and those that who is responsible for.
OpenOrders(os) == {n \in DOMAIN os : ~Confirmed(os[n])}
OpenOrdersOf(os, who) == {n \in OpenOrders(os) : who \in Range(OrderIds(os[n]))}

\* What every order locks of the collateral of each of its relayers.
LockedPerOrder(os) == [n \in DOMAIN os |-> os[n].collateral_per_assigned_relayer]

\* occupied: the collateral locked by the orders who is responsible for.
OrdersLocked(os, who) == SumFunctionOnSet(LockedPerOrder(os), OpenOrdersOf(os, who))
Occupied(os, who) == OpenOrdersOf(os, who) # {}

OrderCapacity(amount) == amount \div CollateralPerOrder

\* is_enrolled, relayer_locked_collateral
IsEnrolled(who) == who \in Range(relayers)
LockedCollateral(coll, who) == coll[who]

\* usable_order_capacity
UsableCapacity(os, coll, who) ==
    OrderCapacity(SaturatingSub(LockedCollateral(coll, who), OrdersLocked(os, who)))

\* Ord for Relayer: by fee, then by collateral from the largest; sort() is stable,
\* so equal relayers keep the order of enrollment.
Precedes(rs, coll, quote, a, b) ==
    LET Position(who) == CHOOSE i \in 1..Len(rs) : rs[i] = who
    IN  \/ quote[a] < quote[b]
        \/ quote[a] = quote[b] /\ coll[a] > coll[b]
        \/ quote[a] = quote[b] /\ coll[a] = coll[b] /\ Position(a) < Position(b)

\* The sorted relayers.
Ranked(rs, coll, quote, able) ==
    CHOOSE s \in [1..Cardinality(able) -> able] :
        \A i, j \in 1..Cardinality(able) : i < j => Precedes(rs, coll, quote, s[i], s[j])

\* Mutant: relayers without spare collateral are not left out.
MarketOfEveryone(rs, coll, quote, os, number) ==
    LET ranked == Ranked(rs, coll, quote, Range(rs))
    IN  IF Len(ranked) < number THEN <<>>
        ELSE [i \in 1..number |-> [id |-> ranked[i],
                                   collateral |-> coll[ranked[i]],
                                   fee |-> quote[ranked[i]]]]

\* update_market: what AssignedRelayers is set to.
Market(rs, coll, quote, os, number) ==
    LET able == {who \in Range(rs) : UsableCapacity(os, coll, who) >= 1}
        ranked == Ranked(rs, coll, quote, able)
    IN  IF Len(ranked) < number THEN <<>>
        ELSE [i \in 1..number |-> [id |-> ranked[i],
                                   collateral |-> coll[ranked[i]],
                                   fee |-> quote[ranked[i]]]]

UpdateMarket == assigned' = Market(relayers', collateral', fee', orders', assignedNumber')

\* market_fee, when some relayers are assigned.
MarketFee == assigned[Len(assigned)].fee

-----------------------------------------------------------------------------
(* Calls of relayers and of root. *)

\* enroll_and_lock_collateral (relay_fee None is the fee MinimumRelayFee)
Enroll(who, lock_collateral, relay_fee) ==
    /\ ~IsEnrolled(who)
    /\ free[who] >= lock_collateral
    /\ OrderCapacity(lock_collateral) > 0
    /\ relay_fee >= MinimumRelayFee
    /\ relayers' = Append(relayers, who)
    /\ collateral' = [collateral EXCEPT ![who] = lock_collateral]
    /\ fee' = [fee EXCEPT ![who] = relay_fee]
    /\ UNCHANGED <<orders, slashProtect, assignedNumber, free, fund, block, lane, unpaid, otherLocks>>
    /\ UpdateMarket

SetCollateral(who, new_collateral) ==
    /\ IsEnrolled(who)
    /\ free[who] >= new_collateral
    /\ collateral' = [collateral EXCEPT ![who] = new_collateral]
    /\ UNCHANGED <<relayers, fee, orders, slashProtect, assignedNumber, free, fund, block,
                   lane, unpaid, otherLocks>>
    /\ UpdateMarket

\* increase_locked_collateral
IncreaseLockedCollateral(who, new_collateral) ==
    /\ new_collateral > collateral[who]
    /\ SetCollateral(who, new_collateral)

\* Mutant: collateral is released although orders need it.
DecreaseUnchecked(who, new_collateral) ==
    /\ new_collateral < collateral[who]
    /\ SetCollateral(who, new_collateral)

\* decrease_locked_collateral
DecreaseLockedCollateral(who, new_collateral) ==
    /\ new_collateral < collateral[who]
    /\ Occupied(orders, who) => new_collateral >= OrdersLocked(orders, who)
    /\ SetCollateral(who, new_collateral)

\* update_relay_fee
UpdateRelayFee(who, new_fee) ==
    /\ IsEnrolled(who)
    /\ new_fee >= MinimumRelayFee
    /\ fee' = [fee EXCEPT ![who] = new_fee]
    /\ UNCHANGED <<relayers, collateral, orders, slashProtect, assignedNumber, free, fund,
                   block, lane, unpaid, otherLocks>>
    /\ UpdateMarket

\* retain: the other relayers, in their order.
Retain(rs, who) ==
    LET kept[i \in 0..Len(rs)] ==
          IF i = 0 THEN <<>>
          ELSE IF rs[i] = who THEN kept[i - 1] ELSE Append(kept[i - 1], rs[i])
    IN  kept[Len(rs)]

\* cancel_enrollment
CancelEnrollment(who) ==
    /\ IsEnrolled(who)
    /\ ~Occupied(orders, who)
    /\ relayers' = Retain(relayers, who)
    /\ collateral' = [collateral EXCEPT ![who] = 0]
    /\ fee' = [fee EXCEPT ![who] = 0]
    /\ UNCHANGED <<orders, slashProtect, assignedNumber, free, fund, block, lane, unpaid, otherLocks>>
    /\ UpdateMarket

\* set_slash_protect (root); it does not touch the market.
SetSlashProtect(value) ==
    /\ slashProtect' = value
    /\ UNCHANGED <<registry, assigned, orders, assignedNumber, free, fund, block, lane, unpaid, otherLocks>>

\* set_assigned_relayers_number (root)
SetAssignedRelayersNumber(number) ==
    /\ assignedNumber' = number
    /\ UNCHANGED <<registry, orders, slashProtect, free, fund, block, lane, unpaid, otherLocks>>
    /\ UpdateMarket

\* The owner of an account spends whatever the locks let go (pallet-balances): locks
\* overlap, so the largest one counts.
Spend(who) ==
    /\ free' = [free EXCEPT ![who] = AtLeast(collateral[who], otherLocks[who])]
    /\ UNCHANGED <<registry, assigned, orders, slashProtect, assignedNumber, fund, block,
                   lane, unpaid, otherLocks>>

\* Another pallet, or the fee market of another bridge, locks a part of the balance or
\* lets it go: enroll_and_lock_collateral of either one looks at the free balance only.
LockElsewhere(who, amount) ==
    /\ amount <= free[who]
    /\ otherLocks' = [otherLocks EXCEPT ![who] = amount]
    /\ UNCHANGED <<registry, assigned, orders, slashProtect, assignedNumber, free, fund, block,
                   lane, unpaid>>

-----------------------------------------------------------------------------
(* Messages: the calls of the outbound lane into the market. *)

\* pay_delivery_and_dispatch_fee: the sender, whose fee the lane verifier found to
\* be at least the market fee, pays it to the fund.
PayDeliveryFee(overpayment) == fund' = fund + MarketFee + overpayment

\* AssignedRelayer::new: the range of blocks of a slot, without its end.
ValidRange(start_time) == [start |-> start_time, end |-> start_time + Slot]

\* Order::new: every assigned relayer has a slot of its own, one after the other.
NewOrder(rs) ==
    [sent_time |-> block,
     confirm_time |-> NotConfirmed,
     collateral_per_assigned_relayer |-> CollateralPerOrder,
     assigned_relayers |->
         [i \in 1..Len(rs) |-> [id |-> rs[i].id, fee |-> rs[i].fee,
                                valid_range |-> ValidRange(block + (i - 1) * Slot)]]]

\* send_message: the fee is paid, and on_messages_accepted creates the order.
SendMessage(overpayment) ==
    /\ generated < MaxMessages
    /\ assigned # <<>>
    /\ generated' = generated + 1
    /\ PayDeliveryFee(overpayment)
    /\ orders' = [n \in DOMAIN orders \cup {generated + 1} |->
                    IF n \in DOMAIN orders THEN orders[n] ELSE NewOrder(assigned)]
    /\ UNCHANGED <<registry, slashProtect, assignedNumber, free, block, received, unpaid, otherLocks>>
    /\ UpdateMarket

\* range_end, comfirm_delay: the end of the last slot, and the blocks since then.
RangeEnd(order) == order.assigned_relayers[Len(order.assigned_relayers)].valid_range.end
ConfirmDelay(order) == SaturatingSub(order.confirm_time, RangeEnd(order))

\* confirmed_info: the slot the order was confirmed in, or 0 if it is out of slots.
ConfirmedSlot(order) ==
    LET slots == {i \in 1..Len(order.assigned_relayers) :
                    LET range == order.assigned_relayers[i].valid_range
                    IN  range.start <= order.confirm_time /\ order.confirm_time < range.end}
    IN  IF slots = {} THEN 0 ELSE CHOOSE i \in slots : TRUE

\* Mutant: split_off one too late, the relayer on duty is slashed too.
OffendersWithDuty(order) ==
    {OrderIds(order)[i] : i \in IF ConfirmedSlot(order) = 0
                                 THEN 1..Len(order.assigned_relayers)
                                 ELSE 1..ConfirmedSlot(order)}

\* The assigned relayers whose slot had passed when the order was confirmed.
Offenders(order) ==
    {OrderIds(order)[i] : i \in IF ConfirmedSlot(order) = 0
                                 THEN 1..Len(order.assigned_relayers)
                                 ELSE 1..(ConfirmedSlot(order) - 1)}

\* The relayers that share the duty reward (none out of slots).
OnDuty(order) ==
    {OrderIds(order)[i] : i \in IF ConfirmedSlot(order) = 0
                                 THEN {}
                                 ELSE ConfirmedSlot(order)..Len(order.assigned_relayers)}

\* Slasher::calc_amount
CalcAmount(timeout) == SlashPerBlock * timeout

\* What every offender of the order is slashed.
SlashAmount(order) ==
    LET fixed == Ratio(AssignedRelayerSlashRatio, order.collateral_per_assigned_relayer)
        total == fixed + CalcAmount(ConfirmDelay(order))
        amount == IF ConfirmedSlot(order) # 0 THEN fixed
                  ELSE IF slashProtect = NoProtect THEN total
                  ELSE AtMost(total, slashProtect)
    IN  AtMost(amount, order.collateral_per_assigned_relayer)

\* update_relayer_after_slash, for all offenders that paid: the new collateral is
\* locked and noted.  (The market is updated too; the last update of the transaction
\* counts.)
UpdateRelayerAfterSlash(coll, paying, amount) ==
    [who \in Accounts |-> IF who \in paying THEN SaturatingSub(coll[who], amount) ELSE coll[who]]

\* transfer, after remove_lock of the own lock: the other locks still hold.
CanPay(ledger, who, amount) ==
    ledger.free[who] >= amount /\ ledger.free[who] - amount >= otherLocks[who]

\* Mutant: a slash is given away in rewards although its transfer failed.
SlashOffendersOnPaper(ledger, order) ==
    LET amount == SlashAmount(order)
        paying == {who \in Offenders(order) : CanPay(ledger, who, amount)}
    IN  [ledger EXCEPT
           !.collateral = UpdateRelayerAfterSlash(@, paying, amount),
           !.free = [who \in Accounts |-> IF who \in paying THEN @[who] - amount ELSE @[who]],
           !.fund = @ + amount * Cardinality(paying),
           !.slashed = amount * Cardinality(Offenders(order))]

\* slash_assigned_relayer for every offender of the order: what it pays goes to the
\* fund and is taken off its collateral; of a transfer that fails nothing remains.
SlashOffenders(ledger, order) ==
    LET amount == SlashAmount(order)
        paying == {who \in Offenders(order) : CanPay(ledger, who, amount)}
        slashed == amount * Cardinality(paying)
    IN  [ledger EXCEPT
           !.collateral = UpdateRelayerAfterSlash(@, paying, amount),
           !.free = [who \in Accounts |-> IF who \in paying THEN @[who] - amount ELSE @[who]],
           !.fund = @ + slashed,
           !.slashed = slashed]

\* RewardItem::new, summed up over all orders: nobody is rewarded yet.
NoRewards ==
    LET nobody == [who \in Accounts |-> 0]
    IN  [collateral |-> collateral, free |-> free, fund |-> fund, slashed |-> 0,
         confirm |-> 0, deliver |-> nobody, duty |-> nobody, treasury |-> 0]

\* One round of calculate_rewards: the slashes happen at once, the rewards are
\* added up in the ledger.
SettleOrder(ledger, order, deliverer) ==
    LET slot == ConfirmedSlot(order)
        after == SlashOffenders(ledger, order)
        price == IF slot = 0 THEN OrderFee(order) ELSE order.assigned_relayers[slot].fee
        surplus == SaturatingSub(OrderFee(order), price)
        duty == OnDuty(order)
        average == IF duty = {} THEN 0
                   ELSE Ratio(DutyRelayersRewardRatio, surplus) \div Cardinality(duty)
        treasury == IF slot = 0 THEN 0
                    ELSE SaturatingSub(surplus, average * Cardinality(duty))
        reward == price + after.slashed
    IN  [after EXCEPT
           !.confirm = @ + Ratio(ConfirmRelayersRewardRatio, reward),
           !.deliver[deliverer] = @ + Ratio(MessageRelayersRewardRatio, reward),
           !.duty = [who \in Accounts |-> @[who] + (IF who \in duty THEN average ELSE 0)],
           !.treasury = @ + treasury]

\* do_reward: a transfer that the fund cannot make is logged and forgotten.
Treasury == "treasury"
DoReward(purse, payment) ==
    IF payment.amount > purse.fund
    THEN [purse EXCEPT !.unpaid = @ + payment.amount]
    ELSE [purse EXCEPT !.fund = @ - payment.amount,
                       !.free = [who \in Accounts |->
                                   IF who = payment.to THEN @[who] + payment.amount
                                                       ELSE @[who]]]

\* on_messages_delivered: the orders, with the confirmed ones marked.
OnMessagesDelivered(confirmed) ==
    [n \in DOMAIN orders |->
       IF n \in confirmed /\ ~Confirmed(orders[n])
       THEN [orders[n] EXCEPT !.confirm_time = block]
       ELSE orders[n]]

\* calculate_rewards: the orders of the messages up to nonce upto are settled one by one.
CalculateRewards(marked, upto, deliverer) ==
    LET settled[n \in received..upto] ==
          IF n = received THEN NoRewards
          ELSE IF n \notin DOMAIN marked THEN settled[n - 1]
          ELSE SettleOrder(settled[n - 1], marked[n], deliverer[n])
    IN  settled[upto]

\* The payments of pay_relayers_rewards, in their order.
Payments(ledger, confirmer) ==
    LET everyone == SetToSeq(Accounts)
        ToEach(sums) == [i \in 1..Len(everyone) |->
                           [to |-> everyone[i], amount |-> sums[everyone[i]]]]
    IN  <<[to |-> confirmer, amount |-> ledger.confirm]>>
          \o ToEach(ledger.deliver) \o ToEach(ledger.duty)
          \o <<[to |-> Treasury, amount |-> ledger.treasury]>>

\* pay_relayers_rewards, after the orders were settled.
PayRelayersRewards(ledger, payments) ==
    LET paid[i \in 0..Len(payments)] ==
          IF i = 0 THEN [fund |-> ledger.fund, free |-> ledger.free, unpaid |-> unpaid]
          ELSE DoReward(paid[i - 1], payments[i])
    IN  paid[Len(payments)]

\* receive_messages_delivery_proof: the lane confirms the messages up to nonce
\* upto; on_messages_delivered marks their orders, pay_relayers_rewards settles
\* them and then pays the sums.
ReceiveDeliveryProof(upto, deliverer, confirmer) ==
    LET marked == OnMessagesDelivered((received + 1)..upto)
        ledger == CalculateRewards(marked, upto, deliverer)
        purse == PayRelayersRewards(ledger, Payments(ledger, confirmer))
    IN  /\ received' = upto
        /\ orders' = marked
        /\ collateral' = ledger.collateral
        /\ free' = purse.free
        /\ fund' = purse.fund
        /\ unpaid' = purse.unpaid
        /\ UNCHANGED <<relayers, fee, slashProtect, assignedNumber, block, generated, otherLocks>>
        /\ UpdateMarket

\* Mutant: orders are cleaned up when their slots have passed.
CleanExpired ==
    LET keep == {n \in DOMAIN orders : block < RangeEnd(orders[n])}
    IN  /\ block < MaxBlock
        /\ block' = block + 1
        /\ orders' = [n \in keep |-> orders[n]]
        /\ UNCHANGED <<registry, assigned, slashProtect, assignedNumber, free, fund, lane,
                       unpaid, otherLocks>>

\* on_finalize removes the confirmed orders; the next block begins.
OnFinalize ==
    LET keep == {n \in DOMAIN orders : ~Confirmed(orders[n])}
    IN  /\ block < MaxBlock
        /\ block' = block + 1
        /\ orders' = [n \in keep |-> orders[n]]
        /\ UNCHANGED <<registry, assigned, slashProtect, assignedNumber, free, fund, lane,
                       unpaid, otherLocks>>

-----------------------------------------------------------------------------
Init ==
    /\ relayers = <<>>
    /\ collateral = [who \in Accounts |-> 0]
    /\ fee = [who \in Accounts |-> 0]
    /\ assigned = <<>>
    /\ orders = [n \in {} |-> 0]
    /\ slashProtect = NoProtect
    /\ assignedNumber = DefaultAssignedRelayersNumber
    /\ free = [who \in Accounts |-> InitBalance]
    /\ fund = 0
    /\ block = 1
    /\ generated = 0
    /\ received = 0
    /\ unpaid = 0
    /\ otherLocks = [who \in Accounts |-> 0]

RelayerCall ==
    \E who \in Accounts :
        \/ \E c \in Collaterals[who], f \in Fees[who] : Enroll(who, c, f)
        \/ \E c \in Collaterals[who] : IncreaseLockedCollateral(who, c)
        \/ \E c \in Collaterals[who] : DecreaseLockedCollateral(who, c)
        \/ \E f \in Fees[who] : UpdateRelayFee(who, f)
        \/ CancelEnrollment(who)
        \/ Spend(who)
        \/ \E amount \in OtherLocks[who] : LockElsewhere(who, amount)

RootCall ==
    \/ \E value \in SlashProtects : SetSlashProtect(value)
    \/ \E number \in AssignedNumbers : SetAssignedRelayersNumber(number)

LaneCall ==
    \/ \E overpayment \in Overpayments : SendMessage(overpayment)
    \/ \E upto \in (received + 1)..generated :
          \E deliverer \in [(received + 1)..upto -> Carriers], confirmer \in Carriers :
            ReceiveDeliveryProof(upto, deliverer, confirmer)

Next == RelayerCall \/ RootCall \/ LaneCall \/ OnFinalize

Spec == Init /\ [][Next]_marketVars

-----------------------------------------------------------------------------
(* Properties. *)

\* Enrolled, with the collateral for one more order.
Able(who) == /\ who \in Range(relayers)
             /\ collateral[who] - OrdersLocked(orders, who) >= CollateralPerOrder

\* The cached AssignedRelayers are never stale: the relayers the next message
\* would be given to are enrolled at the quoted fee and have the collateral for
\* one more order, nobody cheaper with spare collateral is passed over, and the
\* market is closed whenever fewer than the required number could serve.
AssignedAreBest ==
    LET chosen == {assigned[i].id : i \in 1..Len(assigned)}
    IN  /\ Len(assigned) = (IF Cardinality({who \in Accounts : Able(who)}) >= assignedNumber
                            THEN assignedNumber ELSE 0)
        /\ Cardinality(chosen) = Len(assigned)
        /\ \A i \in 1..Len(assigned) :
             /\ Able(assigned[i].id)
             /\ assigned[i].fee = fee[assigned[i].id]
             /\ \A other \in Accounts \ chosen : Able(other) => fee[other] >= assigned[i].fee

\* Whatever the relayers withdraw or cancel, and whether their slashes succeed or fail
\* because another pallet holds the balance too, an open order is always backed: its
\* assigned relayers are enrolled, the collateral noted for them covers all their open
\* orders, and they own at least that much.
CollateralCoversOrders ==
    \A who \in Accounts :
        /\ Occupied(orders, who) => who \in Range(relayers)
        /\ OrdersLocked(orders, who) <= collateral[who]
        /\ collateral[who] <= free[who]

OrderFees(os) == [n \in DOMAIN os |-> OrderFee(os[n])]

\* The fund can always pay: it holds the fee of every open order, and no reward
\* was ever dropped by do_reward, in spite of the rounding of every share and of slashes
\* that were not paid.
FundSolvent ==
    /\ fund >= SumFunctionOnSet(OrderFees(orders), OpenOrders(orders))
    /\ unpaid = 0

\* calculate_rewards: "The order created when message was accepted, so we can
\* always get the order info": every message waiting for its confirmation has an
\* open order, and the others are gone by the end of the block.
EveryPendingMessageHasOrder ==
    /\ \A n \in (received + 1)..generated : n \in DOMAIN orders /\ ~Confirmed(orders[n])
    /\ \A n \in DOMAIN orders :
         n <= received => orders[n].confirm_time = block

\* The slot of a relayer of the order has ended.
IsLate(order, who) ==
    \E i \in 1..Len(order.assigned_relayers) :
        order.assigned_relayers[i].id = who /\ block >= order.sent_time + i * Slot

\* A delivery takes collateral only from assigned relayers whose slot had ended,
\* and never more than the orders they were late for.
OnlyLateRelayersSlashed ==
    [][received' # received =>
         \A who \in Accounts :
            collateral[who] - collateral'[who] <=
              SumFunctionOnSet(LockedPerOrder(orders),
                               {n \in (received + 1)..received' : IsLate(orders[n], who)})]_marketVars

=============================================================================
