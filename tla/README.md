# Formal models of darwinia-bridge-substrate

TLA+ models of the bridge pallets and of the code that ties them together (storage
proofs, call filters, size and weight limits, migrations), TLC configurations that
check them on small instances, and TLAPS proofs of the safety properties for all
values of the constants.
`PROJECT.json` maps every definition to the source lines it models.

To check a run: `tlc -config <file>.cfg <Module>`. To check proofs:
`tlapm <Module>Proofs.tla`.

## 1. Inventory of the system

The repository holds the pallets two Substrate chains install to bridge each
other. Nothing runs concurrently inside a chain: a transaction is atomic, and one
that returns an error is rolled back. What is hard comes from *between* the
transactions: two chains that see each other only through proofs of past states,
relayers that anybody can run and that may submit any call in any order any number
of times, pallet owners who change modes, and calls of one pallet into another in
the middle of a transaction.

```
      source chain                                      target chain
  send_message                                   receive_messages_proof
  [messages: outbound lane]  --proof at header-> [messages: inbound lane]
   |  [fee market]                                  [dispatch pallet]
   |                                                      |
  receive_messages_delivery_proof <-proof at header-------+
  [GRANDPA client of target]                     [GRANDPA client of source]
  [parachains pallet]                            [parachains pallet]
```

| component | state | operations | interacts with | what makes it correct |
|---|---|---|---|---|
| outbound lane (`modules/messages/src/outbound_lane.rs`) | three nonces, stored messages | send, confirm_delivery, prune | verifier, fee market, light client of the target | nonces ordered, true results and relayers confirmed exactly once, nothing pruned that is needed |
| inbound lane (`inbound_lane.rs`) | last confirmed nonce, queue of unrewarded relayers with result bits | receive_state_update, receive_message | dispatch pallet, light client of the source | in-order exactly-once dispatch, queue well formed and bounded |
| messages pallet (`modules/messages/src/lib.rs`) | operating mode, owner, lanes | send_message, the two proof calls, set_operating_mode, set_owner, update_pallet_parameter | all of the above | weight accounting; a refused message does not block the lane; a decision to halt holds |
| proofs and lane verifier (`runtime-common/src/messages.rs`) | none | verify_message, verify_messages_proof, dispatch adapter | both lanes, storage proofs | only states at kept headers are provable; origin check; an accepted message can be delivered |
| obsolete call filters (`messages_extension.rs`, the two `extension.rs`, the signed extension in `runtime-common/src/lib.rs`) | none | validate | every relayer call | never block progress |
| dispatch pallet (`modules/dispatch`) | none | dispatch, verify_message_origin | messages pallet, currency | right origin, right call, fee paid iff dispatched |
| fee market (`modules/fee-market`) | enrolled relayers, quotes, assigned relayers, orders, locks, fund | enroll, increase/decrease collateral, update fee, cancel, two root calls, on_messages_accepted, on_messages_delivered, payments, on_finalize | outbound lane callbacks and payment | assigned relayers current, orders backed by collateral, fund solvent, only late relayers slashed |
| GRANDPA light client (`modules/grandpa`) | best header, ring of headers, authority set, request count, mode | initialize, submit_finality_proof, on_initialize, set_operating_mode, set_owner | header-chain primitives | ring sound, authority set follows the chain, catches up |
| justification verification (`primitives/header-chain/src/justification.rs`) | per call: votes, unvisited headers, weight | verify_justification | light client | accepts exactly what two thirds signed |
| parachains pallet (`modules/parachains`) | best heads, rings of heads, mode | submit_parachain_heads, set_operating_mode, set_owner | light client of the relay chain | best head newest, ring sound, catches up |
| owners and modes (`primitives/runtime`) | owner, mode of each pallet | set_owner, set_operating_mode | every pallet | the lane drains while it rejects new messages |
| storage proofs and keys (`primitives/runtime/src/storage_proof.rs`, `storage_keys.rs`) | none | new, read_value, read_and_decode_value; the key functions | light clients, proofs of messages, of lanes and of heads | what is read is what that block stored under that key; honest proofs are readable |
| weights, benchmarks, integrity tests (`weights_ext.rs`, `benchmarking.rs`, `integrity.rs`) | constants of a build | the weight formulas and the `ensure_*` and `assert_*` tests | every weighed call, both runtimes' limits | weights cover the work; what the tests admit can be delivered and confirmed |
| migrations (`runtime-common/src/lib.rs`) | the stored modes | migrate_* | runtime upgrade | a stored decision survives |
| chain definitions (`primitives/*-core`) | constants | - | limits | compared by the integrity tests |

The hazards, with the line where each bites and the properties aimed at it, are in
`PROJECT.json`. The main ones: stale and repeated proofs (both lanes, parachain
heads), proofs that mix blocks, pallets and lanes, splitting a partly confirmed queue
entry with its result bits, limits of the queue reached in the middle of a batch, errors
of `confirm_delivery` that would repeat for ever, ring buffers that wrap, the cached
`AssignedRelayers`, collateral that shrinks under open orders, slashes whose transfer
fails, rounding of reward shares, a runtime upgrade between sending and delivery, limits
of the other chain that are known only as constants of a build, weights extrapolated
from benchmarks that do less than assumed, weight that is given back to a copy, and the shared visited set of `AncestryChain`.

## 2. Modules

| module | models | main correspondence |
|---|---|---|
| `MessageLane` | one lane, both chains, relayers, light clients as seen by the lane | `outbound`, `inbound` are the storage records field by field; `sourceHeaders`, `targetHeaders` are the states provable at the kept headers; `dispatched`, `rewarded` are history |
| `ReliableChannel` | what a lane promises its users | abstract specification, implemented by `MessageLane` (mapping `Channel` there) |
| `LaneLoops` | the loops of the lane, round by round, as recursive functions; the weights and results of the messages are constants | compared with the closed forms of `MessageLane`, and proved to agree with them |
| `MessageDispatch` | a delivery transaction message by message: weights, refunds, dispatch pallet, origins on both sides, runtime upgrades | `tx` is the call's local state; one action per outcome of one loop iteration |
| `OwnedBridgeModule` | owner, operating mode and bounded values that all pallets share | extended or instantiated by the pallets |
| `MessagesAdministration` | owner calls, operating mode and its migrations of the target's messages pallet, over `MessageDispatch` | the mode is kept as its encoded bytes, which migrations reinterpret |
| `FeeMarket` | fee market pallet with payments and the calls of the lane into it | one action per extrinsic, callback and hook; `UpdateMarket` is the trailing refresh of each |
| `GrandpaLightClient` | GRANDPA pallet and the bridged chain | `headers`, `hashes`, `pointer` are the ring; the bridged chain is a sequence of header kinds |
| `Justification` | `verify_justification`, and the work it does | one step per precommit read; `lookups` counts the steps of the walks |
| `ParachainHeads` | parachains pallet on top of `GrandpaLightClient`, with the filters and the signed extension in front of both | composition by EXTENDS; a relay header fixes the heads it shows |
| `ParachainWeights`, `ProofSizes` | weight formulas of the parachains pallet, the benchmarks they rest on, and how the benchmarks grow a proof to a size | operators, used by `ParachainHeads` and `MessageBenchmarks` |
| `StorageProofs` | keys, tries and proofs; reading messages, lanes and parachain heads of another chain | storages are functions from keys, a proof is a set of trie nodes that the relayer chooses |
| `MessageBenchmarks` | the benchmarks of the messages pallet | what each benchmark prepares and executes, as a cost |
| `MessageLimits` | weight formulas of the messages pallet, limits of both chains, the integrity tests, and sending, delivering and confirming under them | a chain's runtime is a record of its limits and weights that the tests admit |
| `MC*` | instances for TLC | constants, symmetry |
| `MessageLaneProofs` | proofs about `MessageLane`, its refinement of `ReliableChannel`, and `LaneLoops` | section 5 |
| `DispatchProofs` | proofs about `MessageDispatch` and `MessagesAdministration` | section 5 |
| `FeeMarketProofs`, `LightClientProofs`, `JustificationProofs`, `LimitsProofs`, `StorageReadProofs` | proofs about `FeeMarket`, `GrandpaLightClient` and `ParachainHeads`, `Justification`, `MessageLimits`, `StorageProofs` | section 5 |
| `SumProofs` | lemmas about sums, recursive functions and induction over numbers | used by the other proofs |

### Modelling decisions

*Lanes.* A step is one committed transaction. Proofs are abstracted to what they
establish: the state of the other chain at one of the `HeadersToKeep` newest
imported headers, any of which a relayer may use. This is exactly how a stale,
duplicated or reordered call looks to the chain. A delivery names its relayer, the
header, whether the lane state is included, the range of messages, and how many
messages are processed before the declared weight runs out or `pre_dispatch`
refuses one. The loop over the messages has a closed form (`AcceptedCount`,
`NoteDispatched`): it is what makes the module provable, and `LaneLoops` compares it
with the loop itself, on the tested instances and by proof. The relayer of a confirmation declares the
`UnrewardedRelayersState` of the lane it proves; any other declaration is an error.

*Dispatch.* A call is a number, and the runtime version decides what its encoding
means (`Decode`), so a version mismatch really is another call. A signature records
who signed which call for which source account and version. Weights have both
components. Since a transaction is atomic, nothing is sent and no upgrade happens
while one executes.

*Fee market.* Balances are whole units, `Permill` multiplication rounds to nearest
as the library does, and an order keeps the record of its assigned relayers with
their slots. The lane is abstracted to its two counters, which is what the market
sees of it. Of several locks on a balance the largest counts, so the locks of other
pallets and of other fee market instances are one amount (`otherLocks`), which changes
at any time (`LockElsewhere`). `enroll` compares the collateral with the whole free
balance, so two locks may hold the same money: the transfer of a slash, for which the
pallet removes only its own lock, then fails, and the offender keeps money and
collateral. The existential deposit is left out: where it refuses a transfer, the slash
fails in the same way.

*Light clients.* A header is its number plus what matters about it: schedules a
change of authorities, one the pallet refuses, or too large. A justification made
by the wrong set is refused; how a justification is verified is the module
`Justification`. Authority sets are not empty, as those of a chain that finalizes
anything: an empty one would be refused by `VoterSet::new` at every later header
(`InvalidAuthoritySet`). `initialize` trusts the owner, as the code does.

Owners are modelled for the light client, the parachains pallet and the messages
pallet of the target: any account and root may call, and the owner check decides.
Genesis, an upgrade from an older storage layout, and `initialize` are the ways a
pallet gets its first mode. `migrate_message_pallet_operation_mode` is not
idempotent (it would read a converted mode as an unconverted one), so the model,
like a runtime that lists it in one upgrade, runs it once.

*Filters.* Every transaction of a relayer passes the filters before it reaches a
pallet. A call nested in a batch is not looked into, but one that the filters of
headers or heads would have refused changes nothing: `submit_finality_proof` refuses
the same headers, and `submit_parachain_heads` skips the same heads. In the lane,
`FilterObsolete` switches the filter of deliveries: off for safety, on for liveness.

*Storage proofs.* The hash of a node is the node, so hashes do not collide. A trie has
three levels (pallet, map, item), which is how the keys are built; a node holds the
hashes of its children. A proof consists of the nodes that the relayer records for its
call and all nodes of up to `MaxMixed` other blocks of any of the chains, with all their
pallets, lanes and parachains, less up to `MaxLost` nodes. The run has one of each; the
theorems have no bound, and with large ones this is every set of nodes of the chains. The
header named in the call may be an imported one or not. The bridged chain is the relay
chain itself or one of its parachains (`bridged`), which decides where the state
root comes from.

*Limits and weights.* The cost of a call is a linear function of its messages,
relayers, proof bytes and so on, with arbitrary coefficients (`Costs`); a benchmark
is the cost of what it prepares. That is the assumption under which differences of
benchmarks mean anything, and the question is whether the code takes the right
differences of the right benchmarks. Runtimes are those that pass the integrity
tests. The limits of the other chain may only grow in an upgrade: the comment at
`runtime-common/src/integrity.rs:186` warns that smaller ones "may lead to
undeliverable messages". The inbound lane is counted in messages: `entries` are the
messages of each entry, `confirmed` and `received` are `last_confirmed_nonce` and the
source's `latest_received_nonce`, counted from the first message of the lane. A state
update drops entries, trims the front or leaves one confirmed message in it, as
`receive_state_update` does. `encoded_size_hint` ignores the lengths of vectors and bit
vectors, so the reserve of `EXTRA_STORAGE_PROOF_SIZE` bytes has to cover 3 bytes
per entry and 5 more; `LimitsAssumption` states it. `GrowStep` (the bytes that one
more node adds to a benchmark's proof) divides the sizes the benchmarks ask for.

Definitions marked "Mutant" are wrong variants of the definition that follows
them. They are not used by any specification; substituting one for its original
must make a property fail, which shows that the property depends on that code.

## 3. Runs

| run | question | result |
|---|---|---|
| `lane` | safety of the lane with fresh and stale headers: nonces of both chains ordered; each message dispatched once and in order; rewards and results equal to the real dispatches; storage exactly the unpruned messages; every truthful delivery proof accepted; lane states never ahead; nothing moves back. The lane implements `ReliableChannel`. The loops that prune, drop confirmed entries and extract results compute the closed forms of the model | holds |
| `lane_limits` | with both limits of the queue reached: is it well formed and bounded, and does the message loop compute the closed form `AcceptedCount`? With one honest relayer, other relayers filling the queue, the obsolete-call filter, and owners that change modes but finally leave both chains unhalted, is every sent message confirmed? (So a source that rejects outbound messages drains.) | holds |
| `dispatch` | origins authentic over both chains; an overtaken message is never read as another call; fees charged for dispatched calls only; calls within the declared weight; the mode that was decided last is the mode the pallet obeys, through owners and migrations | holds |
| `market` | assigned relayers current; open orders backed; fund solvent; every pending message has its order; only late relayers slashed; with root changing the number of relayers and the slash protection, and with slashes that other locks make fail | holds |
| `grandpa` | ring exact and the best header in it; authority set follows the chain, except past a change with a delay; an initialized client only goes forward and only while not halted; it catches up in spite of `MaxRequests` and the filter once it is not halted any more | holds |
| `justification` | accepted iff the justification is valid by a declarative definition; accepted means two thirds signed; the walks take no more lookups than the benchmark with as many precommits and ancestors | holds |
| `parachains` | ring exact, best head newest in spite of stale relay headers; the weight charged, and what would be left of it after the decreases the call computes, covers the heads written, those pruned and the bytes of the proof; tracked heads follow the relay chain through the filters | holds |
| `storage` | what is accepted at a header is what that block stores there; faithful proofs are accepted; imported heads are heads of that parachain that a finalized relay block stored; all this with the nodes of any other block in the proof, and with nodes missing | holds |
| `limits` | an accepted message can be delivered, an inbound lane can be confirmed, unless it holds one message above the limit, of which the first is confirmed; weights cover the cost of sending, of prepaid deliveries and of confirmations | holds |
| `dispatch_docrefund`, `parachains_docrefund`, `limits_docconfirm` | statements of comments the code does not keep | violated, see section 6 |

### Bounds, and why they are enough

* Lane: two relayers are enough for a relayer change in the queue and for a third
  party that interferes; three messages give entries that are split, extended and
  refused; two headers give one fresh and one stale proof, used in either order.
  The theorems of section 5 have no bound.
* `lane_limits`: four messages, three of them unconfirmed and two entries are the
  least with which either limit can bind while the other does not. It keeps one
  header: the honest relayer uses the newest one, and safety against older ones is
  the first run's question.
* Dispatch: two messages are the least with which the weight of one can be spent
  or given back at the expense of another; the payloads meet every check and fail
  each of them; one upgrade.
* Market: two assigned relayers have a first and a last slot; two orders can
  exhaust the collateral of either; four blocks reach each slot and the time after
  the last. Each relayer has its own collaterals and fees (Alice can be the cheaper
  or the dearer one), chosen so that rounding is not exact. Alice's whole balance may be
  locked elsewhere.
* Administration: one account that may own the pallet, root, and every layout a
  mode can be stored in.
* GRANDPA: five headers of every kind (ordinary, with a change of authorities, with
  a delayed, a forced or a too large one, oversized) through a ring of three, which
  wraps. Parachains: four relay headers through rings of two; proofs with and
  without extra bytes.
* Storage: two lanes, two pallet instances, two parachains, two messages, and two
  headers kept of three blocks: every kind of confusion needs two of a thing. One other
  block mixed in gives a proof two roots and two values for every key; one lost node
  breaks a path at each of its levels.
* Limits: the two chain definitions of the repository and five whose limits are
  just enough, or just too small, for what the tests ask; lane limits on both sides
  of what the source reckons with (four messages in three entries: room for a front that
  keeps a confirmed message and a full lane behind it); costs that the tests admit and that they refuse.
* Justification: three authorities, one of them heavier; headers on the finalized
  chain above and below the target and on a fork; every justification of at most
  three precommits, in every order.

The limits named "bound" in the modules (`MaxNonce`, `MaxMessages`, `MaxBlock`,
`MaxHeight`, `MaxPrecommits`, `MaxVersion`, `MaxBlocks`, `MaxMixed`, `MaxLost`,
`MaxOutbox`) are the model's, the others are
parameters of the code. Where a run switches the deadlock check off (market,
justification, storage) the model ends because such a bound is reached or because the
verdict is given.

## 4. Fairness

* Lane: weak fairness of importing a header of either chain (a header relayer
  runs); of an honest delivery, which proves the messages after the last delivered
  one, with the lane state, at the newest header and with enough weight; and of an
  honest confirmation at the newest header. This is what a message relayer that is
  kept running does. Nothing else is assumed: the honest relayer may lose every
  single race, other relayers may fill the queue, modes may change (the
  property requires only that both chains are eventually not halted any more).
* Light client: `on_initialize` runs in every block, and a relayer submits proofs
  that the filter lets through and the pallet accepts.
* Parachains: additionally, a relayer submits the heads at the best relay header,
  through the signed extension.

## 5. Proofs

The theorems hold for every value of the constants that satisfies the named
`...Assumption` of the module: any number of relayers, authorities, parachains and
messages, any limits, ring sizes, fees and weights. The assumptions say that bounds are
natural numbers, that limits and ring sizes the code divides by or indexes with are
positive, that the sets of accounts and of parachains are finite, and what the
integrity tests check. Two of them are about benchmarks (`BenchmarksAssumption`,
`ParachainWeightsAssumption`): what a proof holds besides its payload, and a parachain
head with its overhead, is at most 1024 bytes. Otherwise the proof that a benchmark
grows to "1 KB" would be larger from the start, and the weight of a byte, which is
taken from the 15 KB between two benchmarks, too small. `LoopsAssumption` says only that
the declared weights that are considered (up to `MaxWeight`) include enough for any
batch: without it not every cut-off point would happen.

| module | theorem | statement |
|---|---|---|
| `MessageLaneProofs` | `TypeCorrectness` | `Spec => []TypeOK` |
| | `NoncesInOrder` | confirmed <= received <= delivered <= generated across the chains |
| | `ExactlyOnceDispatch` | the dispatched nonces are exactly 1, 2, ..., in order |
| | `NoStateUpdateAhead` | the return of `receive_state_update` that "should never happen" does not |
| | `PruningIsSafe` | the stored messages are those from the oldest unpruned to the last generated nonce, and no unconfirmed message is pruned |
| | `PendingBounded` | at most one message over `MaxPendingMessages` is pending |
| | `NoRewind` | no step moves a nonce of either lane back |
| | `QueueBounded` | the queue is well formed and within both limits |
| | `TrueProofsAccepted` | `receive_messages_delivery_proof` refuses no truthful proof, however stale |
| | `RewardsCorrect` | every relayer is rewarded for exactly the confirmed messages it delivered |
| | `LaneIsReliableChannel` | the lane implements `ReliableChannel` |
| | `QueueLoopsClosed` | the loops over the queue and over the messages to prune compute the closed forms, on true and on corrupted queues |
| | `ReceiveLoopClosed` | the message loop and its closed form have the same outcomes, for every batch |
| `DispatchProofs` | `AdministeredPalletDispatches` | the pallet under its owner implements the dispatch of messages alone |
| | `OriginsAreAuthentic` | calls run only from accounts that their sender is entitled to |
| | `CallsAreTheEncodedOnes` | a call that runs is the one its sender encoded |
| | `FeesAreForDispatches` | fees are paid for dispatched calls only, and relayers earn just these |
| | `CallsWithinDeclaredWeight` | the calls of a delivery use at most the weight their messages declared |
| | `DecisionsAreKept` | the mode the pallet obeys is the one decided last, through migrations |
| `FeeMarketProofs` | `PendingMessagesHaveOrders` | every message waiting for confirmation has an open order |
| | `AssignedAreAlwaysBest` | the cached assigned relayers are never stale |
| | `OpenOrdersAreBacked` | collateral covers the open orders, balances cover the collateral, also when slashes fail |
| | `FundIsSolvent` | the fund holds the fees of the open orders, and every reward is paid |
| | `SlashesAreForLateness` | a confirmation takes from a relayer at most what the orders it was late for had locked |
| `LightClientProofs` | `RingIsExact`, `ParaRingIsExact` | stored headers and heads are those of the ring buffers |
| | `FollowsAuthorities` | the authority set is that of the chain, but for delayed changes |
| | `LightClientAdvances` | an initialized client goes forward only, and only while not halted |
| | `BestHeadIsNewest` | no stored head of a parachain is newer than its best head |
| | `HeadsWeightSuffices` | the weight of `submit_parachain_heads` covers its work, even less the decreases that it computes |
| `JustificationProofs` | `AcceptedIsFinalized` | an accepted header was signed with more than two thirds of the weight |
| | `VerdictIsExactAlways` | the verdict is that of the declarative definition |
| | `WorkIsBenchmarked` | the walks look up no more headers than the benchmark |
| `LimitsProofs` | `AcceptedIsDeliverable` | an accepted message can be delivered, through all upgrades that follow |
| | `LaneIsConfirmable` | an inbound lane can be confirmed in one transaction, unless it has one message above the limit and its first is confirmed |
| | `WeightsSuffice` | weights cover the time of sending, of every waiting batch and of every confirmation |
| `StorageReadProofs` | `OnlyRealHeads` | imported heads are heads of that parachain, stored by a finalized relay block |
| | `AcceptedProofsTrue` | what is read from an accepted proof is what the bridged chain stored |
| | `FaithfulAccepted` | a faithful proof is not refused |

`SumProofs` holds what the others need about sums and loops.

### Inductive invariants

*Lane.* `NonceOrder` is not inductive. A confirmation or a lane state is taken from an
old header, so nothing in `NonceOrder` itself prevents a header from showing a state in
which more was delivered or confirmed than is now. The invariant is

    LaneInv == TypeOK /\ NonceOrder /\ DispatchedInOrderOnce /\ HeadersBehind

where `HeadersBehind` says that every kept header shows a past of its chain. With it, a
delivery accepts only messages the source had sent, a state update confirms at most what
the source confirmed, and a confirmation at most what the target delivered.
`DispatchedInOrderOnce` belongs to it because `LastDelivered` is recovered from the
queue, and the history of dispatches must keep in step with it. The argument rests on
lemmas about the queue operators: a state update never changes the last delivered nonce
although it removes, and splits, entries; a delivery appends to it exactly the accepted
messages.

*Queue.* `QueueInv` adds `QueuesFaithful`: the queue of the inbound lane, *and the one
in every kept header*, is consecutive, carries a result bit for each of its messages, and
names for each of them the relayer and the result that the history of dispatches has.
The headers are needed because a confirmation pays from the queue that an old header
shows. A front entry may begin with a nonce that is already confirmed (section 6);
`QueueConsecutive` allows just that, and `RewardsCorrect` holds with it because the
source starts after its own `latest_received_nonce`. For the refinement, `LaneIsReliableChannel` maps sending to `Send`,
one delivery of several messages to one `Deliver`, a confirmation to `Acknowledge`, and
everything else to stuttering.

*Dispatch.* `DispatchInv` relates the messages in flight to who was entitled to send
them (`SentByEntitled`) and the history of executed calls to these messages
(`ExecutedWell`); an upgrade between sending and delivery is covered because a message
keeps the version it was encoded with. `AdminInv` adds that the stored bytes of the
mode decode to the last decision in whatever layout they are, and that no delivery is
under way while it is `Halted`. `PaymentInv` adds two sums: what every account has
paid is the sum of the fees of its dispatched calls, and the weight of the calls of the
transaction is at most what its messages declared so far.

*Fee market.* `MarketInv` consists of the types (with the shape of an order: slots one
after the other, the last relayer the dearest), `OrdersInv` (open orders are exactly
those of the messages after `received`), `MarketIsFresh` (`assigned` is what
`update_market` would compute now), `CollateralCoversOrders` and `FundSolvent`. The last
two depend on each other only through a confirmation, whose loop has an invariant of its
own, `LedgerInv(n, ledger)`: with the orders up to `n` settled, the collateral covers
the later orders, the balance covers the collateral, nobody lost more than the orders it
was late for, and the fund has the fees of the later orders besides everything owed so
far. One round keeps it because the shares of one order, rounded, never exceed its fee
and slashes (`RatioShares`: two ratios with at most 100% in all, each rounded to nearest
with halves down, never round to more than the whole), and because an offender loses at
most the collateral that its order had locked, and nothing if its transfer fails; only
what was transferred is shared out. That `assigned` is the best choice needs
that `Precedes` orders the relayers strictly, so that sorting has one result
(`RankIsOrder`, `SortedExists`).

*Light clients.* `RingExact` is strengthened to `RingInv`: read backwards from the
pointer the ring descends, so a slot that is overwritten holds the oldest header, and no
header is in two slots. For parachains the same holds of each ring, and the best head is
the head of the relay block it was taken from, which with heads that only grow
(`RelayHeadsGrow`) orders the heads by the relay blocks that show them.

*Justification.* `VotesInv` ties the votes and the weight to the precommits read so far,
`VerdictInv` says that the visited headers are exactly those that the votes so far need.
The walk of one vote stops at a header visited before; that this is sound is the closure
of the visited set (`VisitedClosed`): from a visited header, the chain down to the target
is visited. `WorkInv` bounds the lookups by the visited headers and one more per vote.

*Limits.* `LimitsInv`: what the source knows of the target's limits is within those the
target has, and so is every message in the outbox. `LaneInv` of `LimitsProofs`: the
entries of the inbound lane are within the limits that the source reckons with, at most one
message is known to be confirmed (`confirmed` is 0 or 1), and there are at most
`MaxMessagesInConfirmation + confirmed` messages. It is inductive because a state update
leaves a confirmed message behind only when it is the only one of its entry that is
confirmed (`UpdateKeepsLane`). The proof
of `LaneIsConfirmable` found what the reserve of `EXTRA_STORAGE_PROOF_SIZE` depends on:
3 bytes per entry and 5 more are enough only while the number of messages of an entry has
a compact encoding of two bytes, so `LimitsAssumption` asks for
`MaxMessagesInConfirmation < 16383` (the chains have 8192,
`primitives/darwinia-core/src/lib.rs:182`).

*Storage proofs.* `StorageInv`: every block's storage is a function of well-formed keys
(`StoragesOK`), a head that the relay chain stores is the head of a block of that
parachain (`RelayHeadsOK`), the imported headers are relay blocks, and the imported heads
are real and stored by a block at or below the best finalized header. The last is `ImportedHeadsAreReal`, and it is needed for itself: the state root
of a parachain is taken from an imported head, so a proof about messages rests on earlier
proofs about heads. The step from a proof to the storage is two lemmas about a trie:
`ReadIsSound` (whatever nodes the proof has, a value read below the root of a storage is
the one stored under that key, or there is none) and `ReadIsComplete` (with the recorded
nodes it is found). `FaithfulProofsAccepted` follows from the second for each message of
the range, for the lane state, and for the inbound lane.

*Weights.* `WeightsSuffice` and `HeadsWeightSuffices` need no inductive invariant beyond the
types: they hold in every state because the formulas do. The argument is that no
subtraction of `weights_ext.rs` saturates, so each extrapolated term is exactly the cost
it stands for, and that every decrease is for work that the call did not do; sums over the
messages of a batch and over the parachains of a call are compared term by term.

*Loops.* A loop of the pallet is a recursive function of the number of its rounds
(`LoopExists` shows that there is one), and the proofs are inductions over the rounds.
Pruning and popping have a closed form for each round. For `extract_dispatch_results` the
invariant is that the loop has not failed exactly if the entries so far are in order
(`ValidUpTo`), and that it then holds, from the first newly confirmed message on, the
results that `DeliveryOf` finds by nonce. For the message loop there are two: that the
lane is always the closed form up to some message, after which, if it is not the last one
processed, nothing can be accepted any more (`CutOff`); and that with the largest weight
declared and the messages after `p` refused the loop is never stopped and ends with the
closed form up to `p` (`Reaches`). A single round rests on `ClosedRound`: on the lane of
the closed form `receive_message` accepts the next message exactly if `AcceptedCount`
counts it. That a full queue refuses even the relayer of its back entry, so that an entry
that fills the queue holds one message, is the case in which this is not obvious.

### Sums, loops and sorting

The library's induction theorems take a predicate as a parameter and cannot be used. The
proofs go around it: the set of numbers for which a fact holds is formed, and
`LeastNumber` (from the well-foundedness of `<`) excludes a least number outside it
(`SetOfAllNumbers`, `SetOfInterval`). In this way `SumProofs` shows that
`SumFunctionOnSet` is what it should be (adding, removing and changing an element,
monotonicity, shares, enumerations), and that a loop written as a recursive function has
the values its iterations give (`LoopExists`), which is how `CalculateRewards`,
`PayRelayersRewards` and `Retain` are proved about. `JustificationProofs` treats the
walks of `ensure_descendant` in the same way.

### Model-checked only

* Liveness (`EveryMessageConfirmed`, `CatchesUp`, `ParaHeadsCatchUp`), which the proof
  system does not reach.
* That every action can happen and that the limits are reached in the instances, which
  the proofs do not say.

Every invariant, every action property and the refinement that the passing runs check is
also proved.

## 6. Where comments and code disagree

* `primitives/messages/src/lib.rs:135`: the relayers queue "in range
  (last_confirmed_nonce; last_delivered_nonce]". An entry that begins exactly at
  the new confirmed nonce is not trimmed (`inbound_lane.rs:147` uses `<`), so the
  front may begin with a confirmed nonce. Rewards and confirmations are right with it
  (`RewardsMatchDispatches`, `DeliveryProofsAccepted`), but the limit of `receive_message`
  (line 181) is on the unconfirmed messages, so the queue may hold one message more
  than the limit. The source counts all of them in the weight of a confirmation, while its
  test, which is to "Ensure that we're able to receive maximal confirmation from other
  chain" (`modules/messages/src/weights_ext.rs:151`), counts the limit. With limits that
  just pass the test such a lane cannot be confirmed in one transaction. Run
  `limits_docconfirm`; `LaneIsConfirmable` proves that it is the only case.
* `runtime-common/src/messages.rs:100`: messages over the pending limit are
  rejected. The check is `>` and does not count the new message, so limit + 1
  messages can be pending, which is what theorem `PendingBounded` states.
* `modules/messages/src/lib.rs:403`: the relayer "pays base delivery transaction
  cost anyway". Rejected messages give back their weight without taking it from the
  weight left, so several can give back the same declared weight. Run
  `dispatch_docrefund`.
* `primitives/message-dispatch/src/lib.rs:180`: "If it is less than actual static
  weight, the call is not dispatched". Only `ref_time` is compared
  (`modules/dispatch/src/lib.rs:328`); the model follows the code (`CoversCall`), and no
  run asks for more.
* `modules/parachains/src/lib.rs:365`: "we're refunding weight if update has not
  happened and if pruning has not happened" (and `weights_ext.rs:67`). The decreases are
  made in a `move` closure, on its copy of `actual_weight`; the call returns the
  declared weight. The helper of the unit tests asserts the refund with a database
  weight of zero. Run `parachains_docrefund`; `ClosureWeight` is the closure's copy.
* `modules/messages/src/benchmarking.rs:229`: in the benchmark of a delivery the
  "message dispatch fee is paid at target (this) chain". The benchmark pays at the
  source (line 245), as all of them do, so the weight of paying a fee at the target
  is computed as zero, and the payment is not weighed. The model has the benchmarks as
  they are; `WeightsCoverTime` leaves the payment of fees out.
* `modules/grandpa/src/lib.rs:244`: for `initialize` "you can also provide the next
  scheduled set change"; `InitializationData` has no field for it. Scheduled changes
  with a delay are not supported: their header is refused, but the client may pass
  it, and is then stuck at the change (the exception in `AuthoritySetFollowsChain`).

## 7. Not modelled

* SCALE encoding, except for sizes and operating modes, and the structure of trie
  nodes.
* Measured weights: the numbers in `weights.rs` are replaced by a cost model; the
  fee market and the light client are not weighed (but see `WorkWithinBenchmark`).
* The checks of names and types in `runtime-common/src/integrity.rs`, which compare
  constants of one build; types and traits of chain definitions and of
  `source_chain.rs`, `target_chain.rs`; the implementations of these traits for
  tests and for chains that do not send or receive.
* `migrate_best_finalized`, which writes what its caller passes.
* What a runtime parameter does (`update_pallet_parameter` saves it; the parameter
  is defined by the runtime).
* Owners of the fee market (it has none) and of the source's messages pallet (modes
  there change at any time).
* Several lanes with their dispatches at once: lanes share only the operating mode
  and, in the fee market, the order table keyed by lane and nonce. That a proof
  of one lane cannot serve another is checked in `storage`.
* A dispatched call that itself delivers messages to the same lane while the
  inbound lane data is cached in a `RefCell`: whether a runtime lets such a call
  through is decided by its call validator and filters, which are not in this
  repository. It is listed as a hazard without a property.
* Mocks and fixtures of the unit tests.

## 8. Plan

Done: the lane with its refinement and proofs, dispatch with the administration of
its pallet, fee market, light client with owners and all kinds of authority
changes, justifications with their work, parachain heads with filters and weights,
storage proofs, limits and weights; all safety properties of these, and that the loops
of the lane compute the closed forms, are proved. Left:

1. Compose `FeeMarket` with `MessageLane`, so that deliverers and confirmation
   times come from real, possibly stale, delivery proofs.
