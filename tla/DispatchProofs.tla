---------------------------- MODULE DispatchProofs ----------------------------
(***************************************************************************)
(* Proofs about the messages pallet of the target chain: on whose behalf   *)
(* and as what a message is dispatched, and that the pallet obeys the mode *)
(* that was decided last, for every set of accounts, calls and payloads    *)
(* and any number of messages and runtime upgrades.                        *)
(***************************************************************************)
EXTENDS MessagesAdministration, SequenceTheorems, SumProofs, TLAPS

Senders == Accounts \cup {RootSender, CustomPallet}

TxFields == {"active", "next", "end", "count", "stopped", "declared", "left", "actual",
             "base", "before"}

\* What the checks of both chains are about: the messages that were sent, the part of
\* them that the delivery transaction is working on, and the version of the runtime.
DispatchTypeOK ==
    /\ sent \in Seq([sender : Senders, payload : Payloads])
    /\ specVersion \in Nat
    /\ DOMAIN tx = TxFields
    /\ tx.active \in BOOLEAN
    /\ tx.next \in Nat
    /\ tx.end \in Nat
    /\ tx.active => tx.next >= 1 /\ tx.end <= Len(sent)
    /\ executed \in Seq([nonce : Nat, account : TargetAccounts, call : Nat, weight : ActualWeights])

\* A message in the lane passed the origin check of the source chain.
SentByEntitled ==
    \A n \in 1..Len(sent) :
        \/ sent[n].sender = CustomPallet
        \/ VerifyMessageOrigin(sent[n].sender, sent[n].payload.origin)

\* One executed call, and the message it was dispatched for.
Authentic(done, message) ==
    \/ message.sender = CustomPallet
    \/ done.account = Derived(message.sender)
    \/ message.sender = RootSender /\ \E who \in Accounts : done.account = Derived(who)
    \/ \E owner \in KeyHolders :
         /\ done.account = Owned(owner)
         /\ message.payload.origin.signature =
              [by |-> owner, call |-> done.call, account |-> message.sender,
               spec_version |-> message.payload.spec_version]

Encoded(done, message) ==
    done.call = Decode(message.payload.call, message.payload.spec_version)

ExecutedWell ==
    \A i \in 1..Len(executed) :
        /\ executed[i].nonce \in 1..Len(sent)
        /\ Authentic(executed[i], sent[executed[i].nonce])
        /\ Encoded(executed[i], sent[executed[i].nonce])

DispatchInv == DispatchTypeOK /\ SentByEntitled /\ ExecutedWell

-----------------------------------------------------------------------------
(* One message. *)

LEMMA DecodeType ==
    ASSUME NEW bytes, NEW version
    PROVE  Decode(bytes, version) \in Nat
BY DispatchAssumption DEF Decode, NoCall

LEMMA OriginAccountType ==
    ASSUME NEW payload \in Payloads
    PROVE  OriginAccount(payload.origin) \in TargetAccounts
<1>1. payload.origin \in CallOrigin
  BY DispatchAssumption DEF MessagePayload
<1>2. /\ payload.origin.kind \in {"SourceRoot", "TargetAccount", "SourceAccount"}
      /\ payload.origin.account \in Accounts /\ payload.origin.owner \in KeyHolders
  BY <1>1 DEF CallOrigin
<1>3. CASE payload.origin.kind = "SourceRoot"
  BY <1>3 DEF OriginAccount, TargetAccounts
<1>4. CASE payload.origin.kind = "TargetAccount"
  BY <1>2, <1>4 DEF OriginAccount, TargetAccounts
<1>5. CASE payload.origin.kind = "SourceAccount"
  BY <1>2, <1>5 DEF OriginAccount, TargetAccounts
<1> QED BY <1>2, <1>3, <1>4, <1>5

\* The checks of the two chains together: the sender may use the origin, the version
\* is the one of the runtime, and the signature is over this very call.
LEMMA ReachedCallIsEntitled ==
    ASSUME NEW message \in [sender : Senders, payload : Payloads],
           \/ message.sender = CustomPallet
           \/ VerifyMessageOrigin(message.sender, message.payload.origin),
           ReachesCall(message.payload),
           NEW done,
           done.account = OriginAccount(message.payload.origin),
           done.call = Decode(message.payload.call, specVersion)
    PROVE  Authentic(done, message) /\ Encoded(done, message)
<1> DEFINE origin == message.payload.origin
<1>1. message.payload \in MessagePayload
  BY DispatchAssumption
<1>2. /\ origin.kind \in {"SourceRoot", "TargetAccount", "SourceAccount"}
      /\ origin.account \in Accounts /\ origin.owner \in KeyHolders
  BY <1>1 DEF MessagePayload, CallOrigin
<1>3. message.payload.spec_version = specVersion
  BY DEF ReachesCall, VersionMatches
<1>4. Encoded(done, message)
  BY <1>3 DEF Encoded
<1>5. CASE message.sender = CustomPallet
  BY <1>4, <1>5 DEF Authentic
<1>6. CASE VerifyMessageOrigin(message.sender, origin)
  <2>1. CASE origin.kind = "SourceRoot"
    <3>1. message.sender = RootSender /\ done.account = Derived(RootSender)
      BY <1>6, <2>1 DEF VerifyMessageOrigin, OriginAccount
    <3> QED BY <1>4, <3>1 DEF Authentic
  <2>2. CASE origin.kind = "SourceAccount"
    <3>1. message.sender \in {origin.account, RootSender} /\ done.account = Derived(origin.account)
      BY <1>6, <2>2 DEF VerifyMessageOrigin, OriginAccount
    <3> QED BY <1>2, <1>4, <3>1 DEF Authentic
  <2>3. CASE origin.kind = "TargetAccount"
    <3>1. message.sender = origin.account /\ done.account = Owned(origin.owner)
      BY <1>6, <2>3 DEF VerifyMessageOrigin, OriginAccount
    <3>2. origin.signature = OwnershipDigest(message.payload, done.call)
      BY <2>3 DEF ReachesCall, SignatureMatches
    <3>3. origin.signature =
            [by |-> origin.owner, call |-> done.call, account |-> message.sender,
             spec_version |-> message.payload.spec_version]
      BY <3>1, <3>2 DEF OwnershipDigest
    <3> QED BY <1>2, <1>4, <3>1, <3>3 DEF Authentic
  <2> QED BY <1>2, <2>1, <2>2, <2>3
<1> QED BY <1>5, <1>6

-----------------------------------------------------------------------------
(* The steps of the messages pallet. *)

\* A round of the loop only moves the transaction on.
LEMMA RoundMovesOn ==
    ASSUME DispatchTypeOK,
           \/ tx' = [tx EXCEPT !.next = @ + 1, !.stopped = TRUE]
           \/ \E unspent, overhead : Refund(unspent, overhead)
    PROVE  /\ DOMAIN tx' = TxFields
           /\ tx'.active = tx.active /\ tx'.next = tx.next + 1 /\ tx'.end = tx.end
BY DEF DispatchTypeOK, TxFields, Refund

\* Steps that leave messages and executed calls alone.
LEMMA SameHistory ==
    ASSUME DispatchInv, UNCHANGED <<sent, executed>>, DispatchTypeOK'
    PROVE  DispatchInv'
BY DEF DispatchInv, SentByEntitled, ExecutedWell

LEMMA SendKeepsInv ==
    ASSUME DispatchInv, ~tx.active, NEW sender \in Senders, NEW payload \in Payloads,
           SendMessage(sender, payload)
    PROVE  DispatchInv'
<1> DEFINE message == [sender |-> sender, payload |-> payload]
           Message == [sender : Senders, payload : Payloads]
<1>1. sent \in Seq(Message) /\ Len(sent) \in Nat /\ message \in Message
  BY LenProperties DEF DispatchInv, DispatchTypeOK
<1>2. sent' = Append(sent, message) /\ UNCHANGED <<specVersion, tx, executed>>
  BY DEF SendMessage
<1>3. \/ message.sender = CustomPallet
      \/ VerifyMessageOrigin(message.sender, message.payload.origin)
  BY DEF SendMessage
<1> HIDE DEF message, Message
<1>4. /\ sent' \in Seq(Message) /\ Len(sent') = Len(sent) + 1
      /\ \A n \in 1..Len(sent) : sent'[n] = sent[n]
      /\ sent'[Len(sent) + 1] = message
  BY <1>1, <1>2, AppendProperties
<1>5. DispatchTypeOK'
  BY <1>2, <1>4 DEF DispatchInv, DispatchTypeOK, Message
<1>6. SentByEntitled'
  <2> SUFFICES ASSUME NEW n \in 1..(Len(sent) + 1)
               PROVE  \/ sent'[n].sender = CustomPallet
                      \/ VerifyMessageOrigin(sent'[n].sender, sent'[n].payload.origin)
    BY <1>4 DEF SentByEntitled, VerifyMessageOrigin
  <2>1. CASE n = Len(sent) + 1
    BY <1>3, <1>4, <2>1
  <2>2. CASE n # Len(sent) + 1
    <3>1. n \in 1..Len(sent)
      BY <1>1, <2>2
    <3> QED BY <1>4, <3>1 DEF DispatchInv, SentByEntitled
  <2> QED BY <2>1, <2>2
<1>7. ExecutedWell'
  <2> SUFFICES ASSUME NEW i \in 1..Len(executed)
               PROVE  /\ executed[i].nonce \in 1..(Len(sent) + 1)
                      /\ Authentic(executed[i], sent'[executed[i].nonce])
                      /\ Encoded(executed[i], sent'[executed[i].nonce])
    BY <1>2, <1>4 DEF ExecutedWell, Authentic, Encoded
  <2>1. /\ executed[i].nonce \in 1..Len(sent)
        /\ Authentic(executed[i], sent[executed[i].nonce])
        /\ Encoded(executed[i], sent[executed[i].nonce])
    BY DEF DispatchInv, ExecutedWell
  <2>2. sent'[executed[i].nonce] = sent[executed[i].nonce]
    BY <1>4, <2>1
  <2> QED BY <1>1, <2>1, <2>2
<1> QED BY <1>5, <1>6, <1>7 DEF DispatchInv

LEMMA DispatchKeepsInv ==
    ASSUME DispatchInv, NEW actual_weight \in ActualWeights, DispatchCall(actual_weight)
    PROVE  DispatchInv'
<1> DEFINE message == sent[tx.next]
           Message == [sender : Senders, payload : Payloads]
           Done == [nonce : Nat, account : TargetAccounts, call : Nat, weight : ActualWeights]
           done == [nonce |-> tx.next, account |-> OriginAccount(message.payload.origin),
                    call |-> Decode(message.payload.call, specVersion),
                    weight |-> actual_weight]
<1>1. /\ sent \in Seq(Message) /\ Len(sent) \in Nat
      /\ executed \in Seq(Done) /\ Len(executed) \in Nat
  BY LenProperties DEF DispatchInv, DispatchTypeOK
<1>2. /\ tx.active /\ tx.next <= tx.end /\ ReachesCall(message.payload)
      /\ executed' = Append(executed, done)
      /\ UNCHANGED <<sent, specVersion>>
      /\ Refund(SaturatingSub(Current.weight, actual_weight),
                Current.dispatch_fee_payment # "AtTargetChain")
  BY DEF DispatchCall, Current
<1>3. tx.next \in 1..Len(sent) /\ tx.next \in Nat
  BY <1>1, <1>2 DEF DispatchInv, DispatchTypeOK
<1>4. message \in Message
  BY <1>1, <1>3, ElementOfSeq
<1>5. done \in Done
  <2>1. message.payload \in Payloads
    BY <1>4
  <2>2. OriginAccount(message.payload.origin) \in TargetAccounts
    BY <2>1, OriginAccountType
  <2>3. Decode(message.payload.call, specVersion) \in Nat
    BY DecodeType
  <2> QED BY <1>3, <2>2, <2>3
<1>6. Authentic(done, message) /\ Encoded(done, message)
  <2>1. \/ message.sender = CustomPallet
        \/ VerifyMessageOrigin(message.sender, message.payload.origin)
    BY <1>3 DEF DispatchInv, SentByEntitled
  <2>2. /\ done.account = OriginAccount(message.payload.origin)
        /\ done.call = Decode(message.payload.call, specVersion)
    OBVIOUS
  <2> HIDE DEF done
  <2> QED BY <1>2, <1>4, <2>1, <2>2, ReachedCallIsEntitled
<1>7. done.nonce = tx.next
  OBVIOUS
<1> HIDE DEF done, Done, Message
<1>8. /\ executed' \in Seq(Done) /\ Len(executed') = Len(executed) + 1
      /\ \A i \in 1..Len(executed) : executed'[i] = executed[i]
      /\ executed'[Len(executed) + 1] = done
  BY <1>1, <1>2, <1>5, AppendProperties
<1>9. /\ DOMAIN tx' = TxFields
      /\ tx'.active = tx.active /\ tx'.next = tx.next + 1 /\ tx'.end = tx.end
  BY <1>2, RoundMovesOn DEF DispatchInv
<1>10. DispatchTypeOK'
  BY <1>2, <1>3, <1>8, <1>9 DEF DispatchInv, DispatchTypeOK, Done, TargetAccounts, ActualWeights
<1>11. SentByEntitled'
  BY <1>2 DEF DispatchInv, SentByEntitled
<1>12. ExecutedWell'
  <2> SUFFICES ASSUME NEW i \in 1..(Len(executed) + 1)
               PROVE  /\ executed'[i].nonce \in 1..Len(sent)
                      /\ Authentic(executed'[i], sent[executed'[i].nonce])
                      /\ Encoded(executed'[i], sent[executed'[i].nonce])
    <3>1. sent' = sent /\ 1..Len(executed') = 1..(Len(executed) + 1)
      BY <1>2, <1>8
    <3>2. ASSUME \A i \in 1..(Len(executed) + 1) :
                   /\ executed'[i].nonce \in 1..Len(sent)
                   /\ Authentic(executed'[i], sent[executed'[i].nonce])
                   /\ Encoded(executed'[i], sent[executed'[i].nonce])
          PROVE  ExecutedWell'
      BY <3>1, <3>2, ZenonT(30) DEF ExecutedWell, Authentic, Encoded
    <3> QED BY <3>2
  <2>1. CASE i = Len(executed) + 1
    BY <1>3, <1>6, <1>7, <1>8, <2>1
  <2>2. CASE i # Len(executed) + 1
    <3>1. i \in 1..Len(executed)
      BY <1>1, <2>2
    <3>2. executed'[i] = executed[i]
      BY <1>8, <3>1
    <3> QED BY <3>1, <3>2 DEF DispatchInv, ExecutedWell
  <2> QED BY <2>1, <2>2
<1> QED BY <1>10, <1>11, <1>12 DEF DispatchInv

LEMMA InitDispatchInv == Init => DispatchInv
<1> SUFFICES ASSUME Init
             PROVE  DispatchInv
  OBVIOUS
<1> USE DEF Init
<1>1. DispatchTypeOK
  BY EmptySeq DEF DispatchTypeOK, Idle, TxFields
<1>2. SentByEntitled /\ ExecutedWell
  BY EmptySeq DEF SentByEntitled, ExecutedWell
<1> QED BY <1>1, <1>2 DEF DispatchInv

LEMMA NextDispatchInv == DispatchInv /\ [Next]_dispatchVars => DispatchInv'
<1> SUFFICES ASSUME DispatchInv, [Next]_dispatchVars
             PROVE  DispatchInv'
  OBVIOUS
<1>0. DispatchTypeOK /\ Len(sent) \in Nat
  BY LenProperties DEF DispatchInv, DispatchTypeOK
<1>1. CASE BeginSomeDelivery
  <2>1. PICK start \in 1..Len(sent), end \in 1..Len(sent), dispatch_weight \in DeclaredWeights :
          BeginDelivery(start, end, dispatch_weight)
    BY <1>1 DEF BeginSomeDelivery
  <2>2. /\ DOMAIN tx' = TxFields /\ tx'.active = TRUE /\ tx'.next = start /\ tx'.end = end
        /\ UNCHANGED <<sent, specVersion, executed>>
    BY <2>1 DEF BeginDelivery, TxFields
  <2>3. DispatchTypeOK'
    <3>1. tx'.active \in BOOLEAN
      BY <2>2, Zenon
    <3>2. tx'.next \in Nat /\ tx'.end \in Nat
      BY <1>0, <2>1, <2>2
    <3>3. tx'.next >= 1 /\ tx'.end <= Len(sent')
      BY <1>0, <2>2
    <3> QED BY <1>0, <2>2, <3>1, <3>2, <3>3 DEF DispatchTypeOK
  <2> QED BY <2>2, <2>3, SameHistory
<1>2. CASE ~tx.active /\ \E sender \in Accounts \cup {RootSender, CustomPallet}, payload \in Payloads :
             SendMessage(sender, payload)
  BY <1>2, SendKeepsInv DEF Senders
<1>3. CASE UpgradeRuntime
  <2>1. DispatchTypeOK'
    BY <1>0, <1>3 DEF UpgradeRuntime, DispatchTypeOK
  <2> QED BY <1>3, <2>1, SameHistory DEF UpgradeRuntime
<1>4. CASE SkipMessage \/ RejectMessage \/ FailDispatch
  <2>1. /\ DOMAIN tx' = TxFields
        /\ tx'.active = tx.active /\ tx'.next = tx.next + 1 /\ tx'.end = tx.end
    BY <1>0, <1>4, RoundMovesOn DEF SkipMessage, RejectMessage, FailDispatch
  <2>2. UNCHANGED <<sent, specVersion, executed>>
    BY <1>4 DEF SkipMessage, RejectMessage, FailDispatch
  <2>3. DispatchTypeOK'
    BY <1>0, <2>1, <2>2 DEF DispatchTypeOK
  <2> QED BY <2>2, <2>3, SameHistory
<1>5. CASE \E actual_weight \in ActualWeights : DispatchCall(actual_weight)
  BY <1>5, DispatchKeepsInv
<1>6. CASE EndDelivery
  <2>1. DispatchTypeOK'
    BY <1>0, <1>6 DEF EndDelivery, DispatchTypeOK, Idle, TxFields
  <2> QED BY <1>6, <2>1, SameHistory DEF EndDelivery
<1>7. CASE UNCHANGED dispatchVars
  <2>1. DispatchTypeOK'
    BY <1>0, <1>7 DEF dispatchVars, DispatchTypeOK
  <2> QED BY <1>7, <2>1, SameHistory DEF dispatchVars
<1> QED BY <1>1, <1>2, <1>3, <1>4, <1>5, <1>6, <1>7 DEF Next, OtherNext

-----------------------------------------------------------------------------
(* Fees and weights. *)

\* Every account paid for its calls, and the relayers got the fees.
MoneyInv ==
    /\ balance = [who \in TargetAccounts |-> balance[who]]
    /\ ChargedForDispatchedOnly

\* What a delivery has spent, since it began.
WeightInv ==
    tx.active =>
        /\ tx.before \in 0..Len(executed)
        /\ tx.declared \in Weight
        /\ SpentWithinDeclared

PaymentInv == DispatchInv /\ MoneyInv /\ WeightInv

\* The message of the current round.
LEMMA CurrentType ==
    ASSUME DispatchInv, tx.active, tx.next <= tx.end
    PROVE  /\ Current \in Payloads /\ Current.weight \in Weight
           /\ DispatchFee(Current) \in Nat
           /\ DispatchWeight \in Weight
<1>1. sent \in Seq([sender : Senders, payload : Payloads]) /\ tx.next \in 1..Len(sent)
  BY LenProperties DEF DispatchInv, DispatchTypeOK
<1>2. sent[tx.next] \in [sender : Senders, payload : Payloads]
  BY <1>1, ElementOfSeq
<1>3. Current \in Payloads
  BY <1>2 DEF Current
<1>4. Current.weight \in Weight
  BY <1>3, DispatchAssumption DEF MessagePayload
<1>5. W(0, 0) \in Weight /\ Current.weight.ref_time \in Nat
  BY <1>4 DEF W, Weight
<1> QED BY <1>3, <1>4, <1>5 DEF DispatchFee, DispatchWeight

LEMMA FeesType ==
    ASSUME DispatchInv
    PROVE  \A i \in 1..Len(executed) : Fees[i] \in Nat
<1> SUFFICES ASSUME NEW i \in 1..Len(executed) PROVE Fees[i] \in Nat
  OBVIOUS
<1>1. executed[i].nonce \in 1..Len(sent)
  BY DEF DispatchInv, ExecutedWell
<1>2. sent[executed[i].nonce] \in [sender : Senders, payload : Payloads]
  BY <1>1, ElementOfSeq DEF DispatchInv, DispatchTypeOK
<1>3. sent[executed[i].nonce].payload \in MessagePayload
  BY <1>2, DispatchAssumption
<1>4. sent[executed[i].nonce].payload.weight.ref_time \in Nat
  BY <1>3 DEF MessagePayload, Weight
<1>5. DispatchFee(sent[executed[i].nonce].payload) \in Nat
  BY <1>4 DEF DispatchFee
<1> QED BY <1>5 DEF Fees

\* Messages that are sent do not change the fees of executed calls.
LEMMA SendKeepsFees ==
    ASSUME DispatchInv, NEW sender \in Senders, NEW payload \in Payloads,
           SendMessage(sender, payload)
    PROVE  Fees' = Fees
<1>1. sent \in Seq([sender : Senders, payload : Payloads])
  BY DEF DispatchInv, DispatchTypeOK
<1>2. sent' = Append(sent, [sender |-> sender, payload |-> payload]) /\ executed' = executed
  BY DEF SendMessage
<1>3. \A n \in 1..Len(sent) : sent'[n] = sent[n]
  BY <1>1, <1>2, AppendProperties
<1>4. \A i \in 1..Len(executed) : sent'[executed[i].nonce] = sent[executed[i].nonce]
  BY <1>3 DEF DispatchInv, ExecutedWell
<1>5. \A i \in 1..Len(executed) :
        DispatchFee(sent'[executed[i].nonce].payload) = DispatchFee(sent[executed[i].nonce].payload)
  BY <1>4
<1>6. Fees' = [i \in 1..Len(executed) |-> DispatchFee(sent'[executed[i].nonce].payload)]
  BY <1>2 DEF Fees, DispatchFee
<1> QED BY <1>5, <1>6 DEF Fees

\* Steps after which the same calls are executed and paid.
LEMMA SameMoney ==
    ASSUME MoneyInv, UNCHANGED <<balance, earned, executed, Fees>>
    PROVE  MoneyInv'
BY DEF MoneyInv, ChargedForDispatchedOnly, CallsOf, TargetAccounts, Derived, Owned

LEMMA DispatchKeepsMoney ==
    ASSUME DispatchInv, MoneyInv, NEW actual_weight \in ActualWeights, DispatchCall(actual_weight)
    PROVE  MoneyInv'
<1> DEFINE n == Len(executed)
           account == OriginAccount(Current.origin)
           fee == DispatchFee(Current)
           done == [nonce |-> tx.next, account |-> account,
                    call |-> Decode(Current.call, specVersion), weight |-> actual_weight]
           Done == [nonce : Nat, account : TargetAccounts, call : Nat, weight : ActualWeights]
<1>1. /\ tx.active /\ tx.next <= tx.end
      /\ balance' = [balance EXCEPT ![account] = @ - fee]
      /\ earned' = earned + fee
      /\ executed' = Append(executed, done)
      /\ sent' = sent
  BY DEF DispatchCall
<1>2. executed \in Seq(Done) /\ n \in Nat /\ tx.next \in Nat
  BY LenProperties DEF DispatchInv, DispatchTypeOK
<1>3. fee \in Nat /\ account \in TargetAccounts
  BY <1>1, CurrentType, OriginAccountType
<1>4. done.account = account /\ done.nonce = tx.next
  OBVIOUS
<1>5. done \in Done
  BY <1>2, <1>3, DecodeType
<1> HIDE DEF done, Done
<1>6. /\ Len(executed') = n + 1 /\ executed'[n + 1] = done
      /\ \A i \in 1..n : executed'[i] = executed[i]
  BY <1>1, <1>2, <1>5, AppendProperties
<1>7. 1..Len(executed') = (1..n) \cup {n + 1} /\ n + 1 \notin 1..n
  BY <1>2, <1>6
<1>8. Fees' = [i \in 1..Len(executed') |-> DispatchFee(sent[executed'[i].nonce].payload)]
  BY <1>1 DEF Fees, DispatchFee
<1>9. Fees'[n + 1] = fee
  BY <1>4, <1>6, <1>7, <1>8 DEF Current
<1>10. \A i \in 1..n : Fees'[i] = Fees[i]
  BY <1>6, <1>7, <1>8 DEF Fees
<1>11. \A i \in 1..n : Fees[i] \in Int
  BY FeesType
<1>12. IsFiniteSet(1..n)
  BY <1>2, FS_Interval
<1> HIDE DEF n, account, fee
<1>13. SumFunctionOnSet(Fees', (1..n) \cup {n + 1}) = fee + SumFunctionOnSet(Fees, 1..n)
  <2> DEFINE I == 1..n
             new == n + 1
  <2>1. \A i \in I : Fees[i] \in Int /\ Fees'[i] = Fees[i]
    BY <1>10, <1>11
  <2>2. new \notin I /\ IsFiniteSet(I) /\ Fees'[new] = fee /\ fee \in Int
    BY <1>3, <1>7, <1>9, <1>12
  <2> HIDE DEF I, new
  <2>3. SumFunctionOnSet(Fees', I \cup {new}) = Fees'[new] + SumFunctionOnSet(Fees, I)
    BY <2>1, <2>2, SumExtend
  <2> QED BY <2>2, <2>3 DEF I, new
<1>14. ASSUME NEW who \in TargetAccounts
       PROVE  balance'[who] = InitBalance - SumFunctionOnSet(Fees', CallsOf(who)')
  <2>1. CallsOf(who) \subseteq 1..n /\ IsFiniteSet(CallsOf(who))
    BY <1>12, FS_Subset DEF CallsOf, n
  <2>2. CallsOf(who)' = {i \in (1..n) \cup {n + 1} : executed'[i].account = who}
    BY <1>7 DEF CallsOf
  <2>3. /\ balance[who] = InitBalance - SumFunctionOnSet(Fees, CallsOf(who))
        /\ SumFunctionOnSet(Fees, CallsOf(who)) \in Int
        /\ InitBalance \in Int
    <3>1. \A i \in CallsOf(who) : Fees[i] \in Int
      BY <1>11, <2>1
    <3>2. SumFunctionOnSet(Fees, CallsOf(who)) \in Int
      BY <2>1, <3>1, SumInt
    <3> QED BY <3>2, DispatchAssumption DEF MoneyInv, ChargedForDispatchedOnly
  <2>4. CASE who = account
    <3>1. CallsOf(who)' = CallsOf(who) \cup {n + 1}
      BY <1>4, <1>6, <2>2, <2>4 DEF CallsOf, n
    <3>2. SumFunctionOnSet(Fees', CallsOf(who) \cup {n + 1}) = fee + SumFunctionOnSet(Fees, CallsOf(who))
      BY <1>3, <1>7, <1>9, <1>10, <1>11, <2>1, SumExtend
    <3>3. balance'[who] = balance[who] - fee
      BY <1>1, <2>4 DEF MoneyInv
    <3> QED BY <1>3, <2>3, <3>1, <3>2, <3>3
  <2>5. CASE who # account
    <3>1. CallsOf(who)' = CallsOf(who)
      BY <1>4, <1>6, <1>7, <2>2, <2>5 DEF CallsOf, n
    <3>2. SumFunctionOnSet(Fees', CallsOf(who)) = SumFunctionOnSet(Fees, CallsOf(who))
      BY <1>10, <2>1, SumSame
    <3>3. balance'[who] = balance[who]
      BY <1>1, <2>5 DEF MoneyInv
    <3> QED BY <2>3, <3>1, <3>2, <3>3
  <2> QED BY <2>4, <2>5
<1>15. earned' = SumFunctionOnSet(Fees', 1..Len(executed'))
  <2>1. SumFunctionOnSet(Fees, 1..n) \in Int
    BY <1>11, <1>12, SumInt
  <2>2. earned = SumFunctionOnSet(Fees, 1..n)
    BY DEF MoneyInv, ChargedForDispatchedOnly, n
  <2>3. SumFunctionOnSet(Fees', 1..Len(executed')) = fee + SumFunctionOnSet(Fees, 1..n)
    BY <1>7, <1>13
  <2>4. earned' = earned + fee
    BY <1>1
  <2> DEFINE total == SumFunctionOnSet(Fees, 1..n)
  <2>5. total \in Int /\ earned = total
    BY <2>1, <2>2
  <2>6. SumFunctionOnSet(Fees', 1..Len(executed')) = fee + total
    BY <2>3
  <2> HIDE DEF total
  <2> QED BY <1>3, <2>4, <2>5, <2>6
<1>16. balance' = [who \in TargetAccounts |-> balance'[who]]
  BY <1>1 DEF MoneyInv
<1>17. TargetAccounts' = TargetAccounts /\ InitBalance' = InitBalance
  BY DEF TargetAccounts, Derived, Owned
<1> QED BY <1>14, <1>15, <1>16, <1>17 DEF MoneyInv, ChargedForDispatchedOnly

\* What a round takes from the weight that is left is no more than there is.
LEMMA RefundKeepsWeight ==
    ASSUME DispatchTypeOK, NEW unspent \in Weight, NEW overhead, Refund(unspent, overhead),
           DispatchWeight \in Weight, tx.left \in Weight, ~OutOfWeight
    PROVE  /\ tx'.left \in Weight
           /\ tx'.left.ref_time = tx.left.ref_time
                - Sat(DispatchWeight.ref_time, unspent.ref_time)
           /\ tx'.active = tx.active /\ tx'.before = tx.before /\ tx'.declared = tx.declared
<1> DEFINE r == Sat(DispatchWeight.ref_time, unspent.ref_time)
           p == Sat(DispatchWeight.proof_size, unspent.proof_size)
<1>1. /\ DispatchWeight.ref_time \in Nat /\ DispatchWeight.proof_size \in Nat
      /\ unspent.ref_time \in Nat /\ unspent.proof_size \in Nat
      /\ tx.left.ref_time \in Nat /\ tx.left.proof_size \in Nat
  BY DEF Weight
<1>2. /\ DispatchWeight.ref_time <= tx.left.ref_time
      /\ DispatchWeight.proof_size <= tx.left.proof_size
  BY <1>1 DEF OutOfWeight, AnyGt
<1>3. /\ SaturatingSub(DispatchWeight, unspent).ref_time = r
      /\ SaturatingSub(DispatchWeight, unspent).proof_size = p
  BY DEF SaturatingSub, W
<1>4. r \in Nat /\ p \in Nat /\ r <= tx.left.ref_time /\ p <= tx.left.proof_size
  BY <1>1, <1>2 DEF Sat
<1> HIDE DEF r, p
<1>5. DOMAIN tx = TxFields
  BY DEF DispatchTypeOK
<1>6. /\ tx'.left = W(tx.left.ref_time - r, tx.left.proof_size - p)
      /\ tx'.active = tx.active /\ tx'.before = tx.before /\ tx'.declared = tx.declared
  BY <1>3, <1>5 DEF Refund, TxFields
<1>7. tx.left.ref_time - r \in Nat /\ tx.left.proof_size - p \in Nat
  BY <1>1, <1>4
<1>8. tx'.left \in Weight /\ tx'.left.ref_time = tx.left.ref_time - r
  BY <1>6, <1>7 DEF W, Weight
<1> QED BY <1>6, <1>8 DEF r

\* Rounds that execute nothing give back all of the weight.
LEMMA FailureKeepsWeight ==
    ASSUME DispatchInv, WeightInv, RejectMessage \/ FailDispatch
    PROVE  WeightInv'
<1>1. /\ tx.active /\ tx.next <= tx.end /\ ~OutOfWeight
      /\ Refund(DispatchWeight, TRUE) /\ executed' = executed
  BY DEF RejectMessage, FailDispatch
<1>2. DispatchWeight \in Weight /\ tx.left \in Weight
  BY <1>1, CurrentType DEF WeightInv, SpentWithinDeclared
<1>3. /\ tx'.left \in Weight
      /\ tx'.left.ref_time = tx.left.ref_time
           - Sat(DispatchWeight.ref_time, DispatchWeight.ref_time)
      /\ tx'.active = tx.active /\ tx'.before = tx.before /\ tx'.declared = tx.declared
  BY <1>1, <1>2, RefundKeepsWeight DEF DispatchInv
<1>4. tx'.left.ref_time = tx.left.ref_time
  BY <1>2, <1>3 DEF Sat, Weight
<1>5. Times' = Times
  BY <1>1 DEF Times
<1> QED BY <1>1, <1>3, <1>4, <1>5 DEF WeightInv, SpentWithinDeclared, Weight

\* A call takes what its round takes from the weight that is left.
LEMMA DispatchKeepsWeight ==
    ASSUME DispatchInv, WeightInv, NEW actual_weight \in ActualWeights, DispatchCall(actual_weight)
    PROVE  WeightInv'
<1> DEFINE n == Len(executed)
           time == actual_weight.ref_time
           call == Decode(Current.call, specVersion)
           unspent == SaturatingSub(Current.weight, actual_weight)
           done == [nonce |-> tx.next, account |-> OriginAccount(Current.origin), call |-> call,
                    weight |-> actual_weight]
           Done == [nonce : Nat, account : TargetAccounts, call : Nat, weight : ActualWeights]
<1>1. /\ tx.active /\ tx.next <= tx.end /\ ~OutOfWeight
      /\ ReachesCall(Current)
      /\ ~AnyGt(actual_weight, CallWeight[call])
      /\ executed' = Append(executed, done)
      /\ Refund(unspent, Current.dispatch_fee_payment # "AtTargetChain")
  BY DEF DispatchCall
<1>2. /\ Current \in Payloads /\ Current.weight \in Weight /\ DispatchWeight \in Weight
      /\ DispatchWeight = Current.weight
      /\ tx.left \in Weight /\ tx.declared \in Weight /\ tx.before \in 0..n
  BY <1>1, CurrentType DEF WeightInv, SpentWithinDeclared, ReachesCall, DispatchWeight
<1>3. actual_weight \in Weight
  BY DispatchAssumption DEF ActualWeights, W, Weight
<1>4. call \in Calls /\ CallWeight[call] \in Weight
  BY <1>1, DispatchAssumption DEF ReachesCall, Decode, NoCall
<1>5. time <= Current.weight.ref_time /\ time \in Nat /\ Current.weight.ref_time \in Nat
  <2>1. /\ CallWeight[call].ref_time <= Current.weight.ref_time
        /\ ~(time > CallWeight[call].ref_time)
    BY <1>1 DEF ReachesCall, CoversCall, AnyGt
  <2> QED BY <1>2, <1>3, <1>4, <2>1 DEF Weight
<1>6. unspent \in Weight /\ unspent.ref_time = Sat(Current.weight.ref_time, time)
  BY <1>2, <1>3, SMTT(40) DEF SaturatingSub, W, Weight, Sat
<1>7. executed \in Seq(Done) /\ n \in Nat /\ tx.next \in Nat
  BY LenProperties DEF DispatchInv, DispatchTypeOK
<1>8. done \in Done /\ done.weight = actual_weight
  BY <1>2, <1>7, DecodeType, OriginAccountType
<1> HIDE DEF unspent, call, done, Done
<1>9. /\ tx'.left \in Weight
      /\ tx'.left.ref_time = tx.left.ref_time - Sat(Current.weight.ref_time, unspent.ref_time)
      /\ tx'.active = tx.active /\ tx'.before = tx.before /\ tx'.declared = tx.declared
  BY <1>1, <1>2, <1>6, RefundKeepsWeight DEF DispatchInv
<1>10. Sat(Current.weight.ref_time, unspent.ref_time) = time
  BY <1>5, <1>6 DEF Sat
<1>11. /\ Len(executed') = n + 1 /\ executed'[n + 1] = done
       /\ \A i \in 1..n : executed'[i] = executed[i]
  BY <1>1, <1>7, <1>8, AppendProperties
<1>12. Times' = [i \in 1..(n + 1) |-> executed'[i].weight.ref_time]
  BY <1>11 DEF Times
<1> DEFINE I == (tx.before + 1)..n
           new == n + 1
<1>13. /\ IsFiniteSet(I) /\ new \notin I /\ Times'[new] = time
       /\ (tx.before + 1)..Len(executed') = I \cup {new}
  <2>1. new \notin I /\ (tx.before + 1)..Len(executed') = I \cup {new}
    BY <1>2, <1>7, <1>11
  <2>2. tx.before + 1 \in Int /\ n \in Int
    BY <1>2, <1>7
  <2>3. IsFiniteSet(I)
    BY <2>2, FS_Interval
  <2>4. new \in 1..(n + 1)
    BY <1>7
  <2>5. Times'[new] = time
    BY <1>8, <1>11, <1>12, <2>4
  <2> QED BY <2>1, <2>3, <2>5
<1>14. \A i \in I : Times[i] \in Int /\ Times'[i] = Times[i]
  <2> SUFFICES ASSUME NEW i \in I PROVE Times[i] \in Int /\ Times'[i] = Times[i]
    OBVIOUS
  <2>1. i \in 1..n /\ i \in 1..(n + 1)
    BY <1>2, <1>7
  <2>2. executed[i] \in Done
    BY <1>7, <2>1, ElementOfSeq
  <2>3. executed[i].weight \in Weight
    BY <2>2, DispatchAssumption DEF Done, ActualWeights, W, Weight
  <2>4. executed[i].weight.ref_time \in Int
    BY <2>3 DEF Weight
  <2>5. Times[i] = executed[i].weight.ref_time
    BY <2>1 DEF Times
  <2>6. Times'[i] = executed'[i].weight.ref_time /\ executed'[i] = executed[i]
    BY <1>11, <1>12, <2>1
  <2> HIDE DEF Times
  <2> QED BY <2>4, <2>5, <2>6
<1> HIDE DEF I, new, time
<1>15. SumFunctionOnSet(Times', I \cup {new}) = time + SumFunctionOnSet(Times, I)
  BY <1>5, <1>13, <1>14, SumExtend
<1>16. SumFunctionOnSet(Times, I) = tx.declared.ref_time - tx.left.ref_time
  BY <1>1 DEF WeightInv, SpentWithinDeclared, I, n
<1>17. tx.left.ref_time \in Nat /\ tx.declared.ref_time \in Nat
  BY <1>2 DEF Weight
<1>18. SumFunctionOnSet(Times', (tx'.before + 1)..Len(executed'))
         = tx'.declared.ref_time - tx'.left.ref_time
  <2>1. tx'.declared.ref_time = tx.declared.ref_time
    BY <1>9
  <2>2. SumFunctionOnSet(Times', (tx'.before + 1)..Len(executed')) = time + SumFunctionOnSet(Times, I)
    BY <1>9, <1>13, <1>15
  <2>3. tx'.left.ref_time = tx.left.ref_time - time
    BY <1>9, <1>10
  <2> QED BY <1>5, <1>16, <1>17, <2>1, <2>2, <2>3
<1>19. tx'.before \in 0..Len(executed')
  BY <1>2, <1>7, <1>9, <1>11
<1> QED BY <1>2, <1>9, <1>18, <1>19 DEF WeightInv, SpentWithinDeclared, Weight

LEMMA InitPaymentInv == Init => PaymentInv
<1> SUFFICES ASSUME Init PROVE PaymentInv
  OBVIOUS
<1>1. DispatchInv
  BY InitDispatchInv
<1>2. Len(executed) = 0 /\ 1..0 = {}
  BY EmptySeq DEF Init
<1>3. \A who : CallsOf(who) = {}
  BY <1>2 DEF CallsOf
<1>4. SumFunctionOnSet(Fees, {}) = 0 /\ InitBalance \in Nat
  BY SumEmpty, DispatchAssumption
<1>5. MoneyInv
  BY <1>2, <1>3, <1>4 DEF Init, MoneyInv, ChargedForDispatchedOnly
<1>6. WeightInv
  BY DEF Init, Idle, WeightInv
<1> QED BY <1>1, <1>5, <1>6 DEF PaymentInv

LEMMA NextPaymentInv == PaymentInv /\ [Next]_dispatchVars => PaymentInv'
<1> SUFFICES ASSUME PaymentInv, [Next]_dispatchVars PROVE PaymentInv'
  OBVIOUS
<1>0. DispatchInv /\ MoneyInv /\ WeightInv
  BY DEF PaymentInv
<1>1. DispatchInv'
  BY <1>0, NextDispatchInv
<1>2. Len(executed) \in Nat
  BY <1>0, LenProperties DEF DispatchInv, DispatchTypeOK
<1>3. ASSUME UNCHANGED <<sent, balance, earned, executed>> PROVE MoneyInv'
  <2>1. Fees' = Fees
    BY <1>3 DEF Fees, DispatchFee
  <2> QED BY <1>0, <1>3, <2>1, SameMoney
<1>4. ASSUME UNCHANGED <<tx, executed>> PROVE WeightInv'
  BY <1>0, <1>4 DEF WeightInv, SpentWithinDeclared, Times, Weight
<1>5. CASE BeginSomeDelivery
  <2>1. PICK start \in 1..Len(sent), end \in 1..Len(sent), dispatch_weight \in DeclaredWeights :
          BeginDelivery(start, end, dispatch_weight)
    BY <1>5 DEF BeginSomeDelivery
  <2>2. /\ tx'.declared = dispatch_weight /\ tx'.left = dispatch_weight
        /\ tx'.before = Len(executed) /\ executed' = executed
    BY <2>1 DEF BeginDelivery
  <2>3. dispatch_weight \in Weight /\ dispatch_weight.ref_time \in Nat
    BY DispatchAssumption DEF Weight
  <2>4. (tx'.before + 1)..Len(executed') = {}
    BY <1>2, <2>2
  <2>5. SumFunctionOnSet(Times', {}) = 0
    BY SumEmpty
  <2>6. tx'.declared.ref_time - tx'.left.ref_time = 0
    BY <2>2, <2>3
  <2>7. SpentWithinDeclared'
    BY <2>2, <2>3, <2>4, <2>5, <2>6 DEF SpentWithinDeclared, Weight
  <2>8. tx'.before \in 0..Len(executed')
    BY <1>2, <2>2
  <2>9. WeightInv'
    BY <2>2, <2>3, <2>7, <2>8 DEF WeightInv, Weight
  <2> QED BY <1>1, <1>3, <2>1, <2>9 DEF BeginDelivery, PaymentInv
<1>6. CASE ~tx.active /\ \E sender \in Accounts \cup {RootSender, CustomPallet}, payload \in Payloads :
             SendMessage(sender, payload)
  <2>1. Fees' = Fees
    BY <1>0, <1>6, SendKeepsFees DEF Senders
  <2>2. UNCHANGED <<tx, balance, earned, executed>>
    BY <1>6 DEF SendMessage
  <2>3. MoneyInv'
    BY <1>0, <2>1, <2>2, SameMoney
  <2> QED BY <1>1, <1>4, <2>2, <2>3 DEF PaymentInv
<1>7. CASE UpgradeRuntime
  BY <1>1, <1>3, <1>4, <1>7 DEF UpgradeRuntime, PaymentInv
<1>8. CASE SkipMessage
  <2>1. /\ tx'.active = tx.active /\ tx'.before = tx.before /\ tx'.declared = tx.declared
        /\ tx'.left = tx.left /\ executed' = executed
    BY <1>0, <1>8 DEF SkipMessage, DispatchInv, DispatchTypeOK, TxFields
  <2>2. WeightInv'
    BY <1>0, <2>1 DEF WeightInv, SpentWithinDeclared, Times, Weight
  <2> QED BY <1>1, <1>3, <1>8, <2>2 DEF SkipMessage, PaymentInv
<1>9. CASE RejectMessage \/ FailDispatch
  <2>1. WeightInv'
    BY <1>0, <1>9, FailureKeepsWeight
  <2>2. MoneyInv'
    BY <1>3, <1>9 DEF RejectMessage, FailDispatch
  <2> QED BY <1>1, <2>1, <2>2 DEF PaymentInv
<1>10. CASE \E actual_weight \in ActualWeights : DispatchCall(actual_weight)
  BY <1>0, <1>1, <1>10, DispatchKeepsMoney, DispatchKeepsWeight DEF PaymentInv
<1>11. CASE EndDelivery
  <2>1. WeightInv'
    BY <1>11 DEF EndDelivery, Idle, WeightInv
  <2> QED BY <1>1, <1>3, <1>11, <2>1 DEF EndDelivery, PaymentInv
<1>12. CASE UNCHANGED dispatchVars
  BY <1>1, <1>3, <1>4, <1>12 DEF dispatchVars, PaymentInv
<1> QED BY <1>5, <1>6, <1>7, <1>8, <1>9, <1>10, <1>11, <1>12 DEF Next, OtherNext

LEMMA PaymentInvariant == Spec => []PaymentInv
BY InitPaymentInv, NextPaymentInv, PTL DEF Spec

-----------------------------------------------------------------------------
(* Administration. *)

\* The storage items of the mode, in every layout that the runtime may find them in.
StoreHoldsDecision ==
    \/ /\ layout = "current"
       /\ decided \in MessagesOperatingModes
       /\ store = Items(Absent, EncodeMode(decided))
    \/ /\ layout = "basic"
       /\ decided \in Pallet!BasicOperatingModes
       /\ store = Items(Absent, EncodeBasic(decided))
    \/ /\ layout = "is_halted"
       /\ decided \in Pallet!BasicOperatingModes
       /\ store = Items(<<decided = "Halted">>, Absent)

\* A delivery is under way only on migrated storage and while the pallet is not halted.
DeliversWhileOpen == tx.active => layout = "current" /\ decided # "Halted"

AdminInv == DispatchInv /\ StoreHoldsDecision /\ DeliversWhileOpen

LEMMA ConcatBytes ==
    ASSUME NEW a \in Nat, NEW b \in Nat
    PROVE  <<a>> \o <<b>> = <<a, b>>
<1> DEFINE c == <<a>> \o <<b>>
<1>1. <<a>> \in Seq(Nat) /\ <<b>> \in Seq(Nat) /\ <<a, b>> \in Seq(Nat)
  OBVIOUS
<1>2. /\ c \in Seq(Nat) /\ Len(c) = 2
      /\ \A i \in 1..2 : c[i] = IF i <= 1 THEN <<a>>[i] ELSE <<b>>[i - 1]
  BY <1>1, ConcatProperties
<1>3. c[1] = a /\ c[2] = b
  BY <1>2
<1> HIDE DEF c
<1>4. \A i \in 1..Len(c) : c[i] = <<a, b>>[i]
  BY <1>2, <1>3
<1>5. c = <<a, b>>
  BY <1>1, <1>2, <1>4, SeqEqual
<1> QED BY <1>5 DEF c

\* PalletOperatingMode::get reads back what was put.
LEMMA ReadEncoded ==
    ASSUME NEW m \in MessagesOperatingModes
    PROVE  ReadMode(EncodeMode(m)) = m
<1> USE DEF Pallet!BasicOperatingModes
<1>1. CASE m = "RejectingOutboundMessages"
  BY <1>1 DEF ReadMode, EncodeMode, Absent
<1>2. CASE m = "Normal"
  <2>1. EncodeMode(m) = <<0, 0>>
    BY <1>2, ConcatBytes DEF EncodeMode, EncodeBasic
  <2>2. Tail(<<0, 0>>) = <<0>>
    OBVIOUS
  <2> QED BY <1>2, <2>1, <2>2 DEF ReadMode, DecodeBasic, Absent
<1>3. CASE m = "Halted"
  <2>1. EncodeMode(m) = <<0, 1>>
    BY <1>3, ConcatBytes DEF EncodeMode, EncodeBasic
  <2>2. Tail(<<0, 1>>) = <<1>>
    OBVIOUS
  <2> QED BY <1>3, <2>1, <2>2 DEF ReadMode, DecodeBasic, Absent
<1> QED BY <1>1, <1>2, <1>3 DEF MessagesOperatingModes

LEMMA StoreReadsDecision ==
    ASSUME StoreHoldsDecision, layout = "current"
    PROVE  ReadMode(store.PalletOperatingMode) = decided
<1>1. decided \in MessagesOperatingModes /\ store = Items(Absent, EncodeMode(decided))
  BY DEF StoreHoldsDecision
<1>2. store.PalletOperatingMode = EncodeMode(decided)
  BY <1>1 DEF Items
<1> QED BY <1>1, <1>2, ReadEncoded

\* The two migrations, one after the other, turn either older layout into the current
\* one without touching the decision.
LEMMA MigrationKeepsDecision ==
    ASSUME StoreHoldsDecision, OnRuntimeUpgrade
    PROVE  StoreHoldsDecision'
<1> DEFINE basic == Items(Absent, EncodeBasic(decided))
           migrated == MigratePalletOperationMode(store)
<1>1. /\ layout' = "current" /\ decided' = decided
      /\ store' = MigrateMessagePalletOperationMode(migrated)
      /\ layout # "current"
  BY DEF OnRuntimeUpgrade
<1>2. decided \in Pallet!BasicOperatingModes /\ decided \in MessagesOperatingModes
  BY <1>1 DEF StoreHoldsDecision, MessagesOperatingModes
<1>3. EncodeBasic(decided) # Absent
  BY DEF EncodeBasic, Absent
<1>4. migrated = basic
  <2>1. CASE layout = "basic"
    BY <2>1 DEF StoreHoldsDecision, MigratePalletOperationMode, Items
  <2>2. CASE layout = "is_halted"
    <3>1. store = Items(<<decided = "Halted">>, Absent)
      BY <2>2 DEF StoreHoldsDecision
    <3>2. <<decided = "Halted">> # Absent
      BY DEF Absent
    <3>3. <<decided = "Halted">>[1] = (decided = "Halted")
      OBVIOUS
    <3>4. (IF <<decided = "Halted">>[1] THEN "Halted" ELSE "Normal") = decided
      BY <1>2, <3>3 DEF Pallet!BasicOperatingModes
    <3>5. store.IsHalted = <<decided = "Halted">>
      BY <3>1 DEF Items
    <3>6. migrated = [PutPalletOperationMode(store, EncodeBasic(decided)) EXCEPT !.IsHalted = Absent]
      BY <3>2, <3>4, <3>5 DEF MigratePalletOperationMode
    <3> QED BY <3>1, <3>6 DEF PutPalletOperationMode, Items
  <2> QED BY <1>1, <2>1, <2>2 DEF StoreHoldsDecision
<1>5. DecodeBasic(EncodeBasic(decided)) = decided
  BY <1>2 DEF DecodeBasic, EncodeBasic, Pallet!BasicOperatingModes
<1>6. basic.PalletOperatingMode = EncodeBasic(decided)
  BY DEF Items
<1>7. store' = PutPalletOperationMode(basic, EncodeMode(decided))
  <2> HIDE DEF basic, migrated
  <2> QED BY <1>1, <1>3, <1>4, <1>5, <1>6 DEF MigrateMessagePalletOperationMode
<1>8. store' = Items(Absent, EncodeMode(decided))
  BY <1>7 DEF PutPalletOperationMode, Items
<1> QED BY <1>1, <1>2, <1>8 DEF StoreHoldsDecision, MessagesOperatingModes, Items, EncodeMode, EncodeBasic

\* Administration never touches deliveries: for the dispatch of messages, the steps of
\* the administered pallet are steps of MessageDispatch or none.
LEMMA AdminStepIsDispatchStep == [AdminNext]_allVars => [Next]_dispatchVars
BY DEF AdminNext, allVars, Next, OnRuntimeUpgrade, SetOwner, SetOperatingMode,
       UpdatePalletParameter, ReceiveMessagesProof

LEMMA InitAdminInv == AdminInit => AdminInv
<1> SUFFICES ASSUME AdminInit
             PROVE  AdminInv
  OBVIOUS
<1>1. DispatchInv
  BY InitDispatchInv DEF AdminInit
<1>2. StoreHoldsDecision
  BY DEF AdminInit, StoreHoldsDecision
<1>3. DeliversWhileOpen
  BY DEF AdminInit, Init, Idle, DeliversWhileOpen
<1> QED BY <1>1, <1>2, <1>3 DEF AdminInv

\* Only receive_messages_proof begins a delivery.
LEMMA OtherStepsBeginNothing ==
    ASSUME DispatchInv, OtherNext, tx'.active
    PROVE  tx.active
<1>0. DispatchTypeOK
  BY DEF DispatchInv
<1>1. CASE \E sender \in Accounts \cup {RootSender, CustomPallet}, payload \in Payloads :
             SendMessage(sender, payload)
  BY <1>1 DEF SendMessage
<1>2. CASE UpgradeRuntime
  BY <1>2 DEF UpgradeRuntime
<1>3. CASE SkipMessage \/ RejectMessage \/ FailDispatch
            \/ \E actual_weight \in ActualWeights : DispatchCall(actual_weight)
  BY <1>3 DEF SkipMessage, RejectMessage, FailDispatch, DispatchCall
<1>4. CASE EndDelivery
  BY <1>4 DEF EndDelivery
<1> QED BY <1>1, <1>2, <1>3, <1>4 DEF OtherNext

LEMMA NextAdminInv == AdminInv /\ [AdminNext]_allVars => AdminInv'
<1> SUFFICES ASSUME AdminInv, [AdminNext]_allVars
             PROVE  AdminInv'
  OBVIOUS
<1>0. DispatchInv /\ StoreHoldsDecision /\ DeliversWhileOpen
  BY DEF AdminInv
<1>1. DispatchInv'
  BY <1>0, AdminStepIsDispatchStep, NextDispatchInv
<1>2. CASE OnRuntimeUpgrade
  <2>1. StoreHoldsDecision'
    BY <1>0, <1>2, MigrationKeepsDecision
  <2>2. DeliversWhileOpen'
    BY <1>0, <1>2 DEF OnRuntimeUpgrade, dispatchVars, DeliversWhileOpen
  <2> QED BY <1>1, <2>1, <2>2 DEF AdminInv
<1>3. CASE \E origin \in Pallet!Origins, operating_mode \in MessagesOperatingModes :
             SetOperatingMode(origin, operating_mode)
  <2>1. PICK operating_mode \in MessagesOperatingModes :
          /\ layout = "current" /\ layout' = "current" /\ ~tx.active /\ tx' = tx
          /\ store' = PutPalletOperationMode(store, EncodeMode(operating_mode))
          /\ decided' = operating_mode
    BY <1>3 DEF SetOperatingMode, dispatchVars
  <2>2. store = Items(Absent, EncodeMode(decided))
    BY <1>0, <2>1 DEF StoreHoldsDecision
  <2>3. store' = Items(Absent, EncodeMode(operating_mode))
    BY <2>1, <2>2 DEF PutPalletOperationMode, Items
  <2>4. StoreHoldsDecision'
    <3>1. store' = Items(Absent, EncodeMode(decided'))
      BY <2>1, <2>3
    <3> QED BY <2>1, <3>1 DEF StoreHoldsDecision, Items, EncodeMode, EncodeBasic
  <2>5. DeliversWhileOpen'
    BY <2>1 DEF DeliversWhileOpen
  <2> QED BY <1>1, <2>4, <2>5 DEF AdminInv
<1>4. CASE \/ \E origin \in Pallet!Origins, new_owner \in Pallet!Owners : SetOwner(origin, new_owner)
           \/ \E origin \in Pallet!Origins, new_parameter \in Parameters :
                UpdatePalletParameter(origin, new_parameter)
           \/ UNCHANGED allVars
  <2>1. UNCHANGED <<tx, layout, store, decided>>
    BY <1>4 DEF SetOwner, UpdatePalletParameter, allVars, dispatchVars, adminVars
  <2>2. StoreHoldsDecision' /\ DeliversWhileOpen'
    BY <1>0, <2>1 DEF StoreHoldsDecision, DeliversWhileOpen
  <2> QED BY <1>1, <2>2 DEF AdminInv
<1>5. CASE ReceiveMessagesProof
  <2>1. layout = "current" /\ UNCHANGED <<layout, store, decided>>
    BY <1>5 DEF ReceiveMessagesProof, adminVars
  <2>2. ReadMode(store.PalletOperatingMode) = decided
    BY <1>0, <2>1, StoreReadsDecision
  <2>3. decided # "Halted"
    BY <1>5, <2>2 DEF ReceiveMessagesProof, Pallet!EnsureNotHalted, Pallet!IsHalted
  <2>4. StoreHoldsDecision' /\ DeliversWhileOpen'
    BY <1>0, <2>1, <2>3 DEF StoreHoldsDecision, DeliversWhileOpen
  <2> QED BY <1>1, <2>4 DEF AdminInv
<1>6. CASE layout = "current" /\ OtherNext /\ UNCHANGED adminVars
  <2>1. UNCHANGED <<layout, store, decided>>
    BY <1>6 DEF adminVars
  <2>2. tx'.active => tx.active
    BY <1>0, <1>6, OtherStepsBeginNothing
  <2>3. StoreHoldsDecision' /\ DeliversWhileOpen'
    BY <1>0, <2>1, <2>2 DEF StoreHoldsDecision, DeliversWhileOpen
  <2> QED BY <1>1, <2>3 DEF AdminInv
<1> QED BY <1>2, <1>3, <1>4, <1>5, <1>6 DEF AdminNext

LEMMA AdminInvariant == AdminSpec => []AdminInv
BY InitAdminInv, NextAdminInv, PTL DEF AdminSpec

-----------------------------------------------------------------------------
\* The administered pallet delivers and dispatches as MessageDispatch says, whatever
\* owner and root do and whichever layout the storage starts in.
THEOREM AdministeredPalletDispatches == AdminSpec => Spec
<1>1. AdminInit => Init
  BY DEF AdminInit
<1> QED BY <1>1, AdminStepIsDispatchStep, PTL DEF AdminSpec, Spec

\* verify_message_origin at the source chain and the checks of Pallet::dispatch at the
\* target chain together: nobody can make a call from an account that is not theirs,
\* by any sequence of messages, deliveries and runtime upgrades.
THEOREM OriginsAreAuthentic == AdminSpec => []OriginAuthentic
<1>1. AdminInv => OriginAuthentic
  BY DEF AdminInv, DispatchInv, ExecutedWell, Authentic, OriginAuthentic
<1> QED BY <1>1, AdminInvariant, PTL

\* Pallet::dispatch compares spec versions before it decodes: no runtime upgrade can
\* turn a message on its way into another call.
THEOREM CallsAreTheEncodedOnes == AdminSpec => []ExecutedAsEncoded
<1>1. AdminInv => ExecutedAsEncoded
  BY DEF AdminInv, DispatchInv, ExecutedWell, Encoded, ExecutedAsEncoded
<1> QED BY <1>1, AdminInvariant, PTL

\* A decision about the operating mode survives both migrations, and no delivery runs
\* against it.
THEOREM DecisionsAreKept == AdminSpec => []DecisionsHold
<1>1. AdminInv => DecisionsHold
  BY StoreReadsDecision DEF AdminInv, DeliversWhileOpen, DecisionsHold
<1> QED BY <1>1, AdminInvariant, PTL

\* DispatchFeePayment: an account of the target chain pays for its calls that were
\* dispatched, once and nothing else, and the relayers earn exactly what was paid.
THEOREM FeesAreForDispatches == AdminSpec => []ChargedForDispatchedOnly
<1>1. PaymentInv => ChargedForDispatchedOnly
  BY DEF PaymentInv, MoneyInv
<1> QED BY <1>1, AdministeredPalletDispatches, PaymentInvariant, PTL

\* The calls of a delivery take no more than the dispatch_weight that its relayer
\* declared, and the unchecked subtraction from dispatch_weight_left never underflows,
\* for any number of messages and any weights.
THEOREM CallsWithinDeclaredWeight == AdminSpec => []SpentWithinDeclared
<1>1. PaymentInv => SpentWithinDeclared
  BY DEF PaymentInv, WeightInv, SpentWithinDeclared
<1> QED BY <1>1, AdministeredPalletDispatches, PaymentInvariant, PTL
=============================================================================
