--------------------------- MODULE ParachainHeads ---------------------------
(***************************************************************************)
(* The parachains pallet on top of the GRANDPA light client of the relay   *)
(* chain: relayers prove the heads of parachains at an imported relay      *)
(* header, and the pallet keeps the latest heads of every tracked one.     *)
(*                                                                         *)
(* A head is identified by its number; a parachain is not registered at    *)
(* first, its head never goes back, and it may stay the same for several   *)
(* relay blocks.  (The pallet relies on it: a head that came back exactly  *)
(* when its own ring slot is reused would be pruned as it is imported.)    *)
(***************************************************************************)
EXTENDS GrandpaLightClient, ParachainWeights, TLC, Functions

CONSTANTS
    Paras,           \* parachains of the relay chain
    Tracked,         \* TrackedParachains
    LargeHead,       \* the head that is larger than all others
    MaxParaHeadSize,
    HeadsToKeep,
    ExtraProofSizes  \* bound: bytes that relayers add to their proofs

ASSUME ParachainsAssumption ==
    /\ IsFiniteSet(Paras)
    /\ Tracked \subseteq Paras
    /\ LargeHead \in Nat
    /\ MaxParaHeadSize \in Nat \ {0}
    /\ HeadsToKeep \in Nat \ {0}
    /\ ExtraProofSizes \subseteq Nat

VARIABLES
    relayHeads,   \* relay chain storage at every finalized header: heads (None if unregistered)
    info,         \* ParasInfo: best head, the relay block it was read at, next ring position
    paraHeads,    \* ImportedParaHeads
    paraHashes,   \* ImportedParaHashes: the ring buffer of every parachain
    paraMode,     \* PalletOperatingMode
    paraOwner     \* PalletOwner

paraHeadVars == <<info, paraHeads, paraHashes>>
paraVars == <<paraHeadVars, paraMode, paraOwner>>
vars == <<grandpaVars, relayHeads, paraVars>>

\* ParaInfo with its BestParaHeadHash; NoInfo stands for no entry.
ParaInfo(at_relay_block_number, head_hash, position) ==
    [at_relay_block_number |-> at_relay_block_number, head_hash |-> head_hash,
     next_imported_hash_position |-> position]
NoInfo == ParaInfo(0, None, 0)
ParaPositions == 0..(HeadsToKeep - 1)

HeadSize(head) == IF head = LargeHead THEN MaxParaHeadSize + 1 ELSE MaxParaHeadSize

-----------------------------------------------------------------------------
\* The relay chain finalizes a header; every parachain may have a new head.
FinalizeRelayHeader(kind, advanced) ==
    LET last == IF Len(chain) = 0 THEN [p \in Paras |-> None] ELSE relayHeads[Len(chain)]
    IN  /\ FinalizeHeader(kind)
        /\ relayHeads' = Append(relayHeads,
             [p \in Paras |-> IF p \in advanced THEN last[p] + 1 ELSE last[p]])
        /\ UNCHANGED paraVars

\* Mutant: any relay block will do.
AcceptsAnyRelayBlock(stored, relay_block_number, head) ==
    stored = NoInfo \/ stored.head_hash # head

\* validate_updated_parachain_head
ValidateUpdatedHead(stored, relay_block_number, head) ==
    \/ stored = NoInfo
    \/ /\ stored.at_relay_block_number < relay_block_number
       /\ stored.head_hash # head

\* read_parachain_head: the head of p in the proved storage, if it has one; readable
\* are the parachains whose nodes are in the proof, and the read of others fails.
ReadParachainHead(p, relay_block_number, readable) ==
    {relayHeads[relay_block_number][q] : q \in {p} \cap readable} \ {None}

\* The event with which the head of p is imported or skipped; claimed is the hash that
\* the call names for it.
HeadEvent(p, relay_block_number, claimed, readable) ==
    LET head == relayHeads[relay_block_number][p]
    IN  CASE p \notin Tracked -> "UntrackedParachainRejected"
          [] p \in Tracked /\ ReadParachainHead(p, relay_block_number, readable) = {} ->
               "MissingParachainHead"
          [] OTHER ->
               CASE claimed # head -> "IncorrectParachainHeadHash"
                 [] claimed = head /\ ~ValidateUpdatedHead(info[p], relay_block_number, head) ->
                      "RejectedObsoleteParachainHead"
                 [] OTHER -> IF TryFromInner(HeadSize(head), MaxParaHeadSize)
                             THEN "UpdatedParachainHead" ELSE "RejectedLargeParachainHead"

\* Mutant: an entry is pruned one position too far.
PrunedHeadNext(p) ==
    paraHashes[p][(info[p].next_imported_hash_position + 1) % HeadsToKeep]

\* The head whose place in the ring is taken (None if the position is free).
PrunedHead(p) == paraHashes[p][info[p].next_imported_hash_position]

NextPosition(position) == (position + 1) % HeadsToKeep

\* The ParaInfo that update_parachain_head returns.
UpdatedInfo(p, relay_block_number) ==
    ParaInfo(relay_block_number, relayHeads[relay_block_number][p],
             NextPosition(info[p].next_imported_hash_position))

\* Mutant: the filter asks for a relay block two after the last one.
FilterSkipsNextBlock(relay_block_number, claims) ==
    \A p \in DOMAIN claims :
        DOMAIN claims = {p} => ValidateUpdatedHead(info[p], relay_block_number - 1, claims[p])

\* FilterCall::validate: only calls with a single head are filtered.
FilterAcceptsHeads(relay_block_number, claims) ==
    \A p \in DOMAIN claims :
        DOMAIN claims = {p} => ValidateUpdatedHead(info[p], relay_block_number, claims[p])

\* BridgeRejectObsoleteHeadersAndMessages: the filter of every pallet validates its own
\* calls, here of the light client and of the parachains pallet.
FinalityCall(finality_target) ==
    [name |-> "submit_finality_proof", finality_target |-> finality_target]
HeadsCall(at_relay_block, parachains) ==
    [name |-> "submit_parachain_heads", at_relay_block |-> at_relay_block, parachains |-> parachains]
GrandpaFilter(call) == call.name = "submit_finality_proof" => FilterAccepts(call.finality_target)
ParachainsFilter(call) ==
    call.name = "submit_parachain_heads" => FilterAcceptsHeads(call.at_relay_block, call.parachains)
Validate(call) == GrandpaFilter(call) /\ ParachainsFilter(call)

\* submit_parachain_heads: claims are the parachains of the call with the hashes that
\* it names for their heads.  (The code takes a list, which may name a parachain more
\* than once: a head with a wrong hash changes nothing, and once a head was imported
\* every other one is obsolete at the same relay block, so the call does what it does
\* with the right hash alone.)
SubmitParachainHeads(relay_block_number, claims, readable) ==
    LET updated == {p \in DOMAIN claims :
                      HeadEvent(p, relay_block_number, claims[p], readable) = "UpdatedParachainHead"}
        ParaHead(p) == relayHeads[relay_block_number][p]
    IN  /\ EnsureNotHalted(paraMode)
        /\ relay_block_number \in headers
        /\ info' = [p \in Paras |-> IF p \in updated
                                    THEN UpdatedInfo(p, relay_block_number) ELSE info[p]]
        /\ paraHashes' = [p \in Paras |->
             IF p \in updated
             THEN [paraHashes[p] EXCEPT ![info[p].next_imported_hash_position] = ParaHead(p)]
             ELSE paraHashes[p]]
        /\ paraHeads' = [p \in Paras |->
             IF p \in updated THEN (paraHeads[p] \cup {ParaHead(p)}) \ {PrunedHead(p)}
                              ELSE paraHeads[p]]
        /\ UNCHANGED <<grandpaVars, relayHeads, paraMode, paraOwner>>

\* set_owner and set_operating_mode of the parachains pallet
SetParaOwner(origin, maybe_owner) ==
    /\ EnsureOwnerOrRoot(origin, paraOwner)
    /\ paraOwner' = maybe_owner
    /\ UNCHANGED <<grandpaVars, relayHeads, paraHeadVars, paraMode>>

SetParaMode(origin, operating_mode) ==
    /\ EnsureOwnerOrRoot(origin, paraOwner)
    /\ paraMode' = operating_mode
    /\ UNCHANGED <<grandpaVars, relayHeads, paraHeadVars, paraOwner>>

-----------------------------------------------------------------------------
(* The weight of submit_parachain_heads, see ParachainWeights. *)

\* What the loop takes off for a head that was not updated, or whose update pruned none.
Refund(p, event) ==
    (IF event = "UpdatedParachainHead" THEN 0 ELSE HeadStorageWriteWeight)
      + (IF event = "UpdatedParachainHead" /\ PrunedHead(p) # None THEN 0 ELSE HeadPruningWeight)

\* The copy of actual_weight that the move closure owns and decreases, head by head;
\* heads that the loop skips early take nothing off.  It is dropped with the closure.
ClosureWeight(events, proof_size) ==
    LET compared == {p \in DOMAIN events :
                       events[p] \in {"UpdatedParachainHead", "RejectedObsoleteParachainHead",
                                      "RejectedLargeParachainHead"}}
    IN  DeclaredWeight(Cardinality(DOMAIN events), proof_size)
          - SumFunction([p \in compared |-> Refund(p, events[p])])

\* The actual_weight that the call returns: the variable outside of the closure.
ActualWeight(events, proof_size) == DeclaredWeight(Cardinality(DOMAIN events), proof_size)

\* The size of a proof of the heads of some parachains, with bytes that nobody needs.
ProofSize(relay_block_number, parachains, extra) ==
    SumFunction([p \in parachains |-> HeadSize(relayHeads[relay_block_number][p]) + HeadProofOverhead])
      + extra

-----------------------------------------------------------------------------
\* Here the light client has no owner, and root controls it.
Init ==
    /\ GrandpaInit
    /\ owner = NoOwner
    /\ relayHeads = <<>>
    /\ info = [p \in Paras |-> NoInfo]
    /\ paraHeads = [p \in Paras |-> {}]
    /\ paraHashes = [p \in Paras |-> [i \in ParaPositions |-> None]]
    /\ paraMode \in Modes
    /\ paraOwner \in Owners

\* The hashes a relayer may claim: any head (for untracked parachains, whose hashes the
\* pallet never compares, the first).
Claims ==
    {claims \in UNION {[ps -> 1..MaxHeight] : ps \in SUBSET Paras} :
        \A p \in DOMAIN claims \ Tracked : claims[p] = 1}

\* The transactions that reach the pallets.
SubmitValidProof ==
    /\ \E n \in 1..Len(chain) : Validate(FinalityCall(n)) /\ SubmitFinalityProof(n)
    /\ UNCHANGED <<relayHeads, paraVars>>
SubmitValidHeads(n, claims, readable) ==
    Validate(HeadsCall(n, claims)) /\ SubmitParachainHeads(n, claims, readable)

Next ==
    \/ PalletNext /\ UNCHANGED <<relayHeads, paraVars>>
    \/ \E kind \in Kinds, advanced \in SUBSET Paras : FinalizeRelayHeader(kind, advanced)
    \/ SubmitValidProof
    \/ \E n \in 1..Len(chain), claims \in Claims : \E readable \in SUBSET DOMAIN claims :
         SubmitValidHeads(n, claims, readable)
    \/ \E origin \in Origins, maybe_owner \in Owners : SetParaOwner(origin, maybe_owner)
    \/ \E origin \in Origins, operating_mode \in Modes : SetParaMode(origin, operating_mode)

Spec == Init /\ [][Next]_vars

\* A relayer keeps submitting the head of every tracked parachain at the best relay
\* header, each in a call of its own.
SubmitBestHead(p) ==
    best # None /\ SubmitValidHeads(best, p :> relayHeads[best][p], {p})

FairSpec ==
    /\ Spec
    /\ WF_vars(OnInitialize /\ UNCHANGED <<relayHeads, paraVars>>)
    /\ WF_vars(SubmitValidProof)
    /\ \A p \in Tracked : WF_vars(SubmitBestHead(p))

-----------------------------------------------------------------------------
(* Properties. *)

\* The storage of a parachain holds exactly the heads of its ring, and the best
\* head, which messages from the parachain are proved with, is among them.
ParaRingExact ==
    \A p \in Paras :
        /\ paraHeads[p] = {paraHashes[p][i] : i \in ParaPositions} \ {None}
        /\ info[p] # NoInfo => info[p].head_hash \in paraHeads[p]

\* Stale proofs of older relay headers are harmless: the best head is the one the
\* relay chain had at the recorded block, and no stored head is newer than it.
BestParaHeadIsNewest ==
    \A p \in Paras :
        info[p] # NoInfo =>
            /\ info[p].at_relay_block_number \in 1..best
            /\ relayHeads[info[p].at_relay_block_number][p] = info[p].head_hash
            /\ \A h \in paraHeads[p] : h <= info[p].head_hash

\* What the calls that relayers may submit would do now: their events and proof sizes.
SubmitCalls ==
    UNION {{[events |-> [p \in DOMAIN claims |-> HeadEvent(p, n, claims[p], readable)],
             proof_size |-> ProofSize(n, DOMAIN claims, extra)] :
              readable \in SUBSET DOMAIN claims} :
           n \in headers, claims \in Claims, extra \in ExtraProofSizes}

\* The heads that a call with these events updates, and those that it prunes one for.
Updates(events) == {p \in DOMAIN events : events[p] = "UpdatedParachainHead"}
Prunes(events) ==
    {p \in Updates(events) : paraHashes[p][info[p].next_imported_hash_position] # None}

\* The weight that a call returns covers the time it takes, but for the reserved bytes
\* of its proof: what it writes and prunes, and heads that are larger than the
\* benchmarked ones.  So does the weight that the closure has left, which takes off no
\* write that happened, however many heads are missing, obsolete, too large or unread.
ChargedForWork ==
    \A call \in SubmitCalls :
        LET cost == SubmitCost(Cardinality(DOMAIN call.events), Cardinality(Updates(call.events)),
                               Cardinality(Prunes(call.events)), call.proof_size)
            Reserve == StorageProofSizeOverhead(EXTRA_STORAGE_PROOF_SIZE)
        IN  /\ cost <= ClosureWeight(call.events, call.proof_size) + Reserve
            /\ ClosureWeight(call.events, call.proof_size) <= ActualWeight(call.events, call.proof_size)

\* "we're refunding weight if update has not happened and if pruning has not happened"
\* (the comment in submit_parachain_heads): a call that compares a head and does not
\* update it, or prunes nothing, returns less than the declared weight.
RefundsReturned ==
    \A call \in SubmitCalls :
        ActualWeight(call.events, call.proof_size) = ClosureWeight(call.events, call.proof_size)

\* The head that the best relay header shows.
ShownHead(p) == IF best = None THEN None ELSE relayHeads[best][p]

\* Once the pallet is not halted any more, every head that the best relay header of
\* the light client shows is eventually imported or overtaken, unless the relay
\* header comes to show one above MaxParaHeadSize.
ParaHeadsCatchUp ==
    <>[](paraMode = "Normal") =>
        \A p \in Tracked, h \in 1..MaxHeight :
            (ShownHead(p) = h) ~> (info[p].head_hash >= h \/ ShownHead(p) = LargeHead)

=============================================================================
