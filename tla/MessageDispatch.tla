-------------------------- MODULE MessageDispatch --------------------------
(***************************************************************************)
(* What happens to a message between its sender and the call it makes: the *)
(* origin check of the source chain, and at the target chain the loop of   *)
(* receive_messages_proof with its weight accounting and the dispatch      *)
(* pallet.  The runtime of the target chain may be upgraded while the      *)
(* message is on its way.                                                  *)
(*                                                                         *)
(* A step is one round of the loop; a delivery transaction is a sequence   *)
(* of steps that nothing else interrupts.  The limits of the inbound lane  *)
(* (module MessageLane) appear as refusals that may happen to any message. *)
(***************************************************************************)
EXTENDS Integers, Sequences, FiniteSets, Functions

CONSTANTS
    Accounts,          \* accounts of the source chain
    KeyHolders,        \* holders of keys of the target chain
    RootSender, CustomPallet, \* the other senders at the source chain
    Payloads,          \* bound: the payloads that are sent
    CallWeight,        \* static weight of every call: call -> Weight
    InvalidCalls,      \* calls that call_validate refuses
    DeclaredWeights,   \* bound: dispatch_weight that relayers declare
    InitBalance,       \* bound: balance of an account of the target at genesis
    MaxMessages,       \* bound: messages sent
    MaxVersion,        \* bound: spec versions of the target runtime
    BaseWeight,        \* weight formula of the call, without dispatch: per transaction
    MessageWeight,     \* ... and per message
    PayFeeOverhead     \* pay_inbound_dispatch_fee_overhead, part of MessageWeight

Calls == DOMAIN CallWeight
Weight == [ref_time : Nat, proof_size : Nat]
NoCall == 0

\* What the holder of a key signs: a call (NoCall if it does not decode), for a
\* source account and a spec version.
Signature == [by : KeyHolders, call : Nat, account : Accounts, spec_version : Nat]

\* CallOrigin; the fields that its kind does not use are arbitrary.
CallOrigin == [kind : {"SourceRoot", "TargetAccount", "SourceAccount"},
               account : Accounts, owner : KeyHolders, signature : Signature]

\* MessagePayload; decodes is FALSE when the payload is not one at all.
MessagePayload == [decodes : BOOLEAN, spec_version : Nat, weight : Weight,
                   origin : CallOrigin,
                   dispatch_fee_payment : {"AtSourceChain", "AtTargetChain"},
                   call : Nat]

ASSUME DispatchAssumption ==
    /\ Calls \subseteq Nat \ {0}
    /\ CallWeight \in [Calls -> Weight]
    /\ InvalidCalls \subseteq Calls
    /\ Payloads \subseteq MessagePayload
    /\ DeclaredWeights \subseteq Weight
    /\ {InitBalance, MaxMessages, MaxVersion, BaseWeight, MessageWeight} \subseteq Nat
    /\ PayFeeOverhead \in 0..MessageWeight

VARIABLES
    sent,          \* messages accepted at the source: [sender, payload]
    specVersion,   \* spec version of the target runtime
    delivered,     \* last delivered nonce
    tx,            \* the delivery transaction that is executed
    balance,       \* balances at the target chain
    earned,        \* dispatch fees that relayers got
    executed       \* history: the calls that were dispatched

dispatchVars == <<sent, specVersion, delivered, tx, balance, earned, executed>>

-----------------------------------------------------------------------------
(* Weights have two components. *)

W(r, p) == [ref_time |-> r, proof_size |-> p]
Sat(a, b) == IF a > b THEN a - b ELSE 0
SaturatingSub(v, w) == W(Sat(v.ref_time, w.ref_time), Sat(v.proof_size, w.proof_size))
AnyGt(v, w) == v.ref_time > w.ref_time \/ v.proof_size > w.proof_size

-----------------------------------------------------------------------------
(* The source chain. *)

\* verify_message_origin: may the sender use the origin?
VerifyMessageOrigin(sender, origin) ==
    CASE origin.kind = "SourceRoot"    -> sender = RootSender
      [] origin.kind = "TargetAccount" -> sender = origin.account
      [] origin.kind = "SourceAccount" -> sender \in {origin.account, RootSender}

\* send_message: the lane verifier cannot check the custom origin of a pallet.
SendMessage(sender, payload) ==
    /\ Len(sent) < MaxMessages
    /\ sender = CustomPallet \/ VerifyMessageOrigin(sender, payload.origin)
    /\ sent' = Append(sent, [sender |-> sender, payload |-> payload])
    /\ UNCHANGED <<specVersion, delivered, tx, balance, earned, executed>>

-----------------------------------------------------------------------------
(* The target chain: dispatch of one message. *)

\* The call that bytes mean to a runtime (NoCall if they do not decode): every
\* version moves the indices of the calls by one.
Decode(bytes, version) ==
    IF bytes - version + 1 \in Calls THEN bytes - version + 1 ELSE NoCall

\* The accounts calls are dispatched from: derived from an account (or root) of
\* the source chain, or held by the owner of a key.
Derived(who) == <<"derived", who>>
Owned(owner) == <<"owned", owner>>
TargetAccounts == {Derived(who) : who \in Accounts \cup {RootSender}} \cup {Owned(o) : o \in KeyHolders}

OriginAccount(origin) ==
    CASE origin.kind = "SourceRoot"    -> Derived(RootSender)
      [] origin.kind = "TargetAccount" -> Owned(origin.owner)
      [] origin.kind = "SourceAccount" -> Derived(origin.account)

\* account_ownership_digest: what the owner of the target account must have signed
\* (the chain identifiers are the same for all messages of a bridge).
OwnershipDigest(payload, call) ==
    [by |-> payload.origin.owner, call |-> call, account |-> payload.origin.account,
     spec_version |-> payload.spec_version]

\* Mutant: the signature is not looked at.
AnySignature(payload) == TRUE

SignatureMatches(payload) ==
    payload.origin.kind = "TargetAccount" =>
        payload.origin.signature = OwnershipDigest(payload, Decode(payload.call, specVersion))

\* Mutant: the version is not checked.
AnyVersion(payload) == TRUE

VersionMatches(payload) == payload.spec_version = specVersion

\* The check compares ref_time alone.
CoversCall(payload) ==
    payload.weight.ref_time >= CallWeight[Decode(payload.call, specVersion)].ref_time

\* The fee of a dispatch that is paid at the target: WeightToFee is linear here.
DispatchFee(payload) ==
    IF payload.dispatch_fee_payment = "AtTargetChain" THEN payload.weight.ref_time ELSE 0

\* Pallet::dispatch reaches the call: every check passes and the fee can be paid.
ReachesCall(payload) ==
    /\ payload.decodes
    /\ VersionMatches(payload)
    /\ Decode(payload.call, specVersion) # NoCall
    /\ SignatureMatches(payload)
    /\ Decode(payload.call, specVersion) \notin InvalidCalls
    /\ CoversCall(payload)
    /\ DispatchFee(payload) <= balance[OriginAccount(payload.origin)]

-----------------------------------------------------------------------------
(* The target chain: receive_messages_proof. *)

Idle == [active |-> FALSE, next |-> 0, end |-> 0, count |-> 0, stopped |-> FALSE,
         declared |-> W(0, 0), left |-> W(0, 0), actual |-> 0, base |-> 0, before |-> 0]

\* receive_messages_proof_weight, without the dispatch weight.
DeliveryWeight(messages_count) == BaseWeight + messages_count * MessageWeight

\* The transaction begins; before (history) is the number of calls executed so
\* far.  The weight charged is followed in ref_time.
BeginDelivery(start, end, dispatch_weight) ==
    LET base == DeliveryWeight(end - start + 1)
    IN  /\ ~tx.active
        /\ start <= end
        /\ tx' = [active |-> TRUE, next |-> start, end |-> end, count |-> end - start + 1,
                  stopped |-> FALSE, declared |-> dispatch_weight, left |-> dispatch_weight,
                  actual |-> base + dispatch_weight.ref_time, base |-> base,
                  before |-> Len(executed)]
        /\ UNCHANGED <<sent, specVersion, delivered, balance, earned, executed>>

\* The payload the current round is about, and its dispatch_weight.
Current == sent[tx.next].payload
DispatchWeight == IF Current.decodes THEN Current.weight ELSE W(0, 0)

\* Mutant: the declared weight is not enforced.
NeverOutOfWeight == FALSE

OutOfWeight == tx.stopped \/ AnyGt(DispatchWeight, tx.left)

\* The message and all later ones are skipped: not enough weight.
SkipMessage ==
    /\ tx.active /\ tx.next <= tx.end
    /\ OutOfWeight
    /\ tx' = [tx EXCEPT !.next = @ + 1, !.stopped = TRUE]
    /\ UNCHANGED <<sent, specVersion, delivered, balance, earned, executed>>

\* The end of a round: weight that was not spent is given back.
Refund(unspent, payFeeOverheadToo) ==
    LET spent == SaturatingSub(DispatchWeight, unspent)
        overhead == IF payFeeOverheadToo THEN PayFeeOverhead ELSE 0
    IN  tx' = [tx EXCEPT !.next = @ + 1,
                         !.left = W(@.ref_time - spent.ref_time,
                                    @.proof_size - spent.proof_size),
                         !.actual = Sat(Sat(@, unspent.ref_time), overhead)]

\* The lane refuses the message: a nonce out of turn, a limit, or pre_dispatch.
RejectMessage ==
    /\ tx.active /\ tx.next <= tx.end /\ ~OutOfWeight
    /\ Refund(DispatchWeight, TRUE)
    /\ UNCHANGED <<sent, specVersion, delivered, balance, earned, executed>>

\* Mutant: the fee is taken although the call is not reached.
FailDispatchCharged ==
    LET who == OriginAccount(Current.origin)
        fee == IF DispatchFee(Current) <= balance[who] THEN DispatchFee(Current) ELSE 0
    IN  /\ tx.active /\ tx.next <= tx.end /\ ~OutOfWeight
        /\ tx.next = delivered + 1
        /\ ~ReachesCall(Current)
        /\ delivered' = tx.next
        /\ balance' = [balance EXCEPT ![who] = @ - fee]
        /\ earned' = earned + fee
        /\ Refund(DispatchWeight, TRUE)
        /\ UNCHANGED <<sent, specVersion, executed>>

\* The message is delivered, but dispatch returns before the call.
FailDispatch ==
    /\ tx.active /\ tx.next <= tx.end /\ ~OutOfWeight
    /\ tx.next = delivered + 1
    /\ ~ReachesCall(Current)
    /\ delivered' = tx.next
    /\ Refund(DispatchWeight, TRUE)
    /\ UNCHANGED <<sent, specVersion, balance, earned, executed>>

\* The message is delivered and its call dispatched, successfully or not, after
\* its fee is paid to the relayer; extract_actual_weight returns actual_weight.
DispatchCall(actual_weight) ==
    LET who == OriginAccount(Current.origin)
        fee == DispatchFee(Current)
    IN  /\ tx.active /\ tx.next <= tx.end /\ ~OutOfWeight
        /\ tx.next = delivered + 1
        /\ ReachesCall(Current)
        /\ ~AnyGt(actual_weight, CallWeight[Decode(Current.call, specVersion)])
        /\ delivered' = tx.next
        /\ balance' = [balance EXCEPT ![who] = @ - fee]
        /\ earned' = earned + fee
        /\ executed' = Append(executed,
             [nonce |-> tx.next, account |-> who, call |-> Decode(Current.call, specVersion),
              weight |-> actual_weight])
        /\ Refund(SaturatingSub(Current.weight, actual_weight),
                  Current.dispatch_fee_payment # "AtTargetChain")
        /\ UNCHANGED <<sent, specVersion>>

EndDelivery ==
    /\ tx.active /\ tx.next > tx.end
    /\ tx' = Idle
    /\ UNCHANGED <<sent, specVersion, delivered, balance, earned, executed>>

\* The target chain gets a new runtime.
UpgradeRuntime ==
    /\ ~tx.active
    /\ specVersion < MaxVersion
    /\ specVersion' = specVersion + 1
    /\ UNCHANGED <<sent, delivered, tx, balance, earned, executed>>

-----------------------------------------------------------------------------
Init ==
    /\ sent = <<>>
    /\ specVersion = 1
    /\ delivered = 0
    /\ tx = Idle
    /\ balance = [who \in TargetAccounts |-> InitBalance]
    /\ earned = 0
    /\ executed = <<>>

\* What a call may report: its static weight, or nothing (Pays::No).
ActualWeights == {W(0, 0)} \cup {CallWeight[call] : call \in Calls}

BeginSomeDelivery ==
    \E start, end \in 1..Len(sent), dispatch_weight \in DeclaredWeights :
        BeginDelivery(start, end, dispatch_weight)

OtherNext ==
    \* (a message sent while a delivery executes is the same as one sent before it)
    \/ ~tx.active /\ \E sender \in Accounts \cup {RootSender, CustomPallet}, payload \in Payloads :
         SendMessage(sender, payload)
    \/ UpgradeRuntime
    \/ SkipMessage
    \/ RejectMessage
    \/ FailDispatch
    \/ \E actual_weight \in ActualWeights : DispatchCall(actual_weight)
    \/ EndDelivery

Next == BeginSomeDelivery \/ OtherNext

Spec == Init /\ [][Next]_dispatchVars

-----------------------------------------------------------------------------
(* Properties. *)

\* A call is dispatched from an account only on behalf of somebody entitled to it,
\* over both chains: root's account for root, an account's derived one for that
\* account or root, and the account of a key for a source account that the holder
\* of the key named when signing this very call.  Pallets are trusted.
OriginAuthentic ==
    \A i \in 1..Len(executed) :
        LET done == executed[i]
            message == sent[done.nonce]
        IN  \/ message.sender = CustomPallet
            \/ done.account = Derived(message.sender)
            \/ message.sender = RootSender /\ \E who \in Accounts : done.account = Derived(who)
            \/ \E owner \in KeyHolders :
                 /\ done.account = Owned(owner)
                 /\ message.payload.origin.signature =
                      [by |-> owner, call |-> done.call, account |-> message.sender,
                       spec_version |-> message.payload.spec_version]

\* The call that runs is the one its sender encoded: a message that a runtime
\* upgrade overtakes fails instead of being read as another call.
ExecutedAsEncoded ==
    \A i \in 1..Len(executed) :
        LET payload == sent[executed[i].nonce].payload
        IN  executed[i].call = Decode(payload.call, payload.spec_version)

\* The fees and times of the executed calls, and the calls of an account.
Fees == [i \in 1..Len(executed) |-> DispatchFee(sent[executed[i].nonce].payload)]
Times == [i \in 1..Len(executed) |-> executed[i].weight.ref_time]
CallsOf(who) == {i \in 1..Len(executed) : executed[i].account = who}

\* DispatchFeePayment: the fee "will be paid right before the message is
\* dispatched", so an account pays exactly for its calls that were dispatched, and
\* the relayers earn exactly that.
ChargedForDispatchedOnly ==
    /\ \A who \in TargetAccounts : balance[who] = InitBalance - SumFunctionOnSet(Fees, CallsOf(who))
    /\ earned = SumFunctionOnSet(Fees, 1..Len(executed))

\* The calls of a delivery together take the time that is missing from the weight
\* its relayer declared: no call runs beyond it, although every message gives weight
\* back, and the unchecked subtraction from dispatch_weight_left never underflows.
SpentWithinDeclared ==
    tx.active =>
        /\ tx.left \in Weight
        /\ SumFunctionOnSet(Times, (tx.before + 1)..Len(executed))
             = tx.declared.ref_time - tx.left.ref_time

\* modules/messages/src/lib.rs:403 says of the weight given back for rejected
\* messages that the "relayer pays base delivery transaction cost anyway": the
\* weight charged stays above the base cost without the refundable overhead.
BaseCostPaid ==
    tx.active => tx.actual >= tx.base - tx.count * PayFeeOverhead

=============================================================================
