------------------------- MODULE MCMessageDispatch -------------------------
(* Payloads that meet every check of the dispatch pallet, and that fail    *)
(* each of them.                                                           *)
EXTENDS MessageDispatch

CONSTANTS alice, bob, keyholder

MCCallWeight == <<W(1, 1), W(2, 1), W(1, 1)>>

NoSignature == [by |-> keyholder, call |-> NoCall, account |-> alice, spec_version |-> 0]
SignedCall(call) == [by |-> keyholder, call |-> call, account |-> alice, spec_version |-> 1]

Origin(kind, account, signature) ==
    [kind |-> kind, account |-> account, owner |-> keyholder, signature |-> signature]
AsRoot == Origin("SourceRoot", alice, NoSignature)
AsAlice == Origin("SourceAccount", alice, NoSignature)
AsKeyholder(account, call) == Origin("TargetAccount", account, SignedCall(call))

Payload(decodes, spec_version, weight, origin, payment, call) ==
    [decodes |-> decodes, spec_version |-> spec_version, weight |-> weight,
     origin |-> origin, dispatch_fee_payment |-> payment, call |-> call]

MCPayloads ==
    {Payload(TRUE, 1, W(1, 1), AsRoot, "AtSourceChain", 1),
     Payload(TRUE, 1, W(2, 1), AsAlice, "AtTargetChain", 2),
     Payload(TRUE, 2, W(2, 1), AsAlice, "AtSourceChain", 2),
     Payload(TRUE, 1, W(1, 1), AsAlice, "AtTargetChain", 2),
     Payload(TRUE, 1, W(1, 0), AsAlice, "AtSourceChain", 1),
     Payload(TRUE, 1, W(1, 1), AsAlice, "AtTargetChain", 3),
     Payload(TRUE, 1, W(1, 1), AsAlice, "AtSourceChain", 9),
     Payload(FALSE, 1, W(1, 1), AsAlice, "AtSourceChain", 1),
     Payload(TRUE, 1, W(1, 1), AsKeyholder(alice, 1), "AtTargetChain", 1),
     Payload(TRUE, 1, W(1, 1), AsKeyholder(alice, 2), "AtTargetChain", 1),
     Payload(TRUE, 1, W(1, 1), AsKeyholder(bob, 1), "AtTargetChain", 1)}

MCDeclaredWeights == {W(1, 1), W(3, 2)}

=============================================================================
