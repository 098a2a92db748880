------------------------- MODULE GrandpaLightClient -------------------------
(***************************************************************************)
(* The GRANDPA bridge pallet: an on-chain light client of the bridged      *)
(* chain.  Relayers submit finalized headers with their justification; the *)
(* pallet follows the authority sets and keeps the latest headers in a     *)
(* ring buffer.                                                            *)
(*                                                                         *)
(* The bridged chain is its sequence of finalized headers.  A header is    *)
(* identified by its number (GRANDPA finalizes one header per number), and *)
(* finalized by the authority set that is active before it.                *)
(***************************************************************************)
EXTENDS Integers, Sequences, FiniteSets, OwnedBridgeModule

CONSTANTS
    MaxHeight,       \* bound: headers of the bridged chain
    Kinds,           \* bound: kinds of headers the bridged chain produces
    Modes,           \* bound: operating modes the owner chooses from
    MaxRequests,
    HeadersToKeep,
    MaxBridgedAuthorities,
    MaxBridgedHeaderSize

\* GRANDPA logs in the digest of a header, for every kind of header that is told
\* apart: a change with no delay, after a delay, of too many authorities, and a
\* forced one next to an ordinary one.
Scheduled(delay, authorities) ==
    [log |-> "ScheduledChange", delay |-> delay, authorities |-> authorities]
Forced(authorities) == [log |-> "ForcedChange", delay |-> 0, authorities |-> authorities]

HeaderKinds ==
    [plain     |-> [digest |-> <<>>, size |-> MaxBridgedHeaderSize],
     scheduled |-> [digest |-> <<Scheduled(0, MaxBridgedAuthorities)>>, size |-> MaxBridgedHeaderSize],
     delayed   |-> [digest |-> <<Scheduled(1, 1)>>, size |-> MaxBridgedHeaderSize],
     crowded   |-> [digest |-> <<Scheduled(0, MaxBridgedAuthorities + 1)>>, size |-> MaxBridgedHeaderSize],
     forced    |-> [digest |-> <<Scheduled(0, 1), Forced(1)>>, size |-> MaxBridgedHeaderSize],
     oversized |-> [digest |-> <<>>, size |-> MaxBridgedHeaderSize + 1]]

ASSUME GrandpaAssumption ==
    /\ MaxHeight \in Nat
    /\ Kinds \subseteq DOMAIN HeaderKinds
    /\ Modes \subseteq BasicOperatingModes
    /\ MaxRequests \in Nat \ {0}
    /\ HeadersToKeep \in Nat \ {0}
    /\ MaxBridgedAuthorities \in Nat \ {0}
    /\ MaxBridgedHeaderSize \in Nat

VARIABLES
    chain,       \* the finalized headers of the bridged chain: their kinds
    best,        \* BestFinalized: a header number (None before initialize)
    headers,     \* ImportedHeaders: the numbers of the stored headers
    hashes,      \* ImportedHashes: the ring buffer
    pointer,     \* ImportedHashesPointer
    setId,       \* CurrentAuthoritySet.set_id
    requests,    \* RequestCount
    mode,        \* PalletOperatingMode
    owner        \* PalletOwner

headerVars == <<best, headers, hashes, pointer, setId>>
palletVars == <<headerVars, requests, mode, owner>>
grandpaVars == <<chain, palletVars>>

None == 0
Positions == 0..(HeadersToKeep - 1)

-----------------------------------------------------------------------------
(* The bridged chain. *)

Digest(n) == HeaderKinds[chain[n]].digest

\* convert_first: the first log of a kind, if any.
ConvertFirst(digest, kind) ==
    LET found == {i \in DOMAIN digest : digest[i].log = kind}
    IN  IF found = {} THEN <<>> ELSE <<digest[CHOOSE i \in found : \A j \in found : i <= j]>>

FindScheduledChange(n) == ConvertFirst(Digest(n), "ScheduledChange")
FindForcedChange(n) == ConvertFirst(Digest(n), "ForcedChange")

\* The change that the bridged chain makes at header m, and the header after which
\* it takes effect.
ChangeAt(m) == IF FindForcedChange(m) # <<>> THEN FindForcedChange(m) ELSE FindScheduledChange(m)
EffectiveChanges(n) == {m \in 1..n : m <= Len(chain) /\ ChangeAt(m) # <<>> /\ m + ChangeAt(m)[1].delay <= n}

\* The set that finalizes header n, and its size (the first one has one authority).
SigningSet(n) == Cardinality(EffectiveChanges(n - 1))
SigningSetSize(n) ==
    LET changes == EffectiveChanges(n - 1)
    IN  IF changes = {} THEN 1
        ELSE ChangeAt(CHOOSE m \in changes : \A k \in changes : k <= m)[1].authorities

FinalizeHeader(kind) ==
    /\ Len(chain) < MaxHeight
    /\ chain' = Append(chain, kind)
    /\ UNCHANGED palletVars

-----------------------------------------------------------------------------
(* The pallet. *)

NextPointer(index) == (index + 1) % HeadersToKeep

\* Mutant: the old header is not removed.
InsertHeaderKeepOld(n, index) ==
    /\ best' = n
    /\ headers' = headers \cup {n}
    /\ hashes' = [hashes EXCEPT ![index] = n]
    /\ pointer' = NextPointer(index)

\* insert_header: the header takes the place of the oldest one in the ring.
InsertHeader(n, index) ==
    /\ best' = n
    /\ headers' = (headers \cup {n}) \ {hashes[index]}
    /\ hashes' = [hashes EXCEPT ![index] = n]
    /\ pointer' = NextPointer(index)

\* StoredAuthoritySet::try_new
TryNewAuthoritySet(size) == size <= MaxBridgedAuthorities

\* StoredBridgedHeader::try_from_inner
TryStoreHeader(n) == TryFromInner(HeaderKinds[chain[n]].size, MaxBridgedHeaderSize)

\* InitializationData: a header, the set that follows it and the operating mode.
InitializationData(n, operating_mode) ==
    [header |-> n, authorities |-> SigningSetSize(n + 1), set_id |-> SigningSet(n + 1),
     operating_mode |-> operating_mode]

\* Valid initialization data: the data cannot name a change that is scheduled at or
\* before the header and not yet in effect.
ValidInitializationData ==
    {InitializationData(n, operating_mode) :
        n \in {n \in 1..Len(chain) : \A m \in 1..n : ChangeAt(m) # <<>> => m \in EffectiveChanges(n)},
        operating_mode \in Modes}

\* initialize_bridge: the pallet trusts the data.
InitializeBridge(data) ==
    /\ TryNewAuthoritySet(data.authorities)
    /\ TryStoreHeader(data.header)
    /\ InsertHeader(data.header, 0)
    /\ setId' = data.set_id
    /\ mode' = data.operating_mode

\* Mutant: the pallet may be initialized again.
InitializeAgain(origin, data) ==
    /\ EnsureOwnerOrRoot(origin, owner)
    /\ InitializeBridge(data)
    /\ UNCHANGED <<chain, requests, owner>>

\* initialize
Initialize(origin, data) ==
    /\ EnsureOwnerOrRoot(origin, owner)
    /\ best = None
    /\ InitializeBridge(data)
    /\ UNCHANGED <<chain, requests, owner>>

\* verify_justification: the justification of header n is the one of its signing set.
\* (VoterSet::new refuses an empty set of authorities, which no chain has that finalizes
\* headers, and which an owner is trusted not to initialize the pallet with.)
VerifyJustification(n) == SigningSet(n) = setId

\* try_enact_authority_change, the refusals: forced and delayed changes and too many
\* authorities.
SupportsChange(n) ==
    /\ FindForcedChange(n) = <<>>
    /\ FindScheduledChange(n) # <<>> =>
         /\ FindScheduledChange(n)[1].delay = 0
         /\ TryNewAuthoritySet(FindScheduledChange(n)[1].authorities)

\* Mutant: the change in the header is not enacted.
EnactNothing(n) == setId

\* try_enact_authority_change: the set after a header the pallet accepts.
EnactChange(n) == IF FindScheduledChange(n) # <<>> THEN setId + 1 ELSE setId

\* Mutant: the filter takes the next header for an obsolete one.
FilterAcceptsLater(n) == best # None /\ best + 1 < n

\* FilterCall::validate: transactions with obsolete headers are not mined.
FilterAccepts(n) == best # None /\ best < n

\* best_finalized: the best header, if it is stored.
BestFinalized == {best} \cap headers

\* submit_finality_proof
SubmitFinalityProof(n) ==
    /\ EnsureNotHalted(mode)
    /\ requests < MaxRequests
    /\ \E number \in BestFinalized : number < n
    /\ VerifyJustification(n)
    /\ SupportsChange(n)
    /\ TryStoreHeader(n)
    /\ setId' = EnactChange(n)
    /\ requests' = requests + 1
    /\ InsertHeader(n, pointer)
    /\ UNCHANGED <<chain, mode, owner>>

\* on_initialize of the next block of this chain.
OnInitialize ==
    /\ requests' = IF requests > 0 THEN requests - 1 ELSE 0
    /\ UNCHANGED <<chain, headerVars, mode, owner>>

\* set_owner
SetOwner(origin, maybe_owner) ==
    /\ EnsureOwnerOrRoot(origin, owner)
    /\ owner' = maybe_owner
    /\ UNCHANGED <<chain, headerVars, requests, mode>>

\* set_operating_mode
SetOperatingMode(origin, operating_mode) ==
    /\ EnsureOwnerOrRoot(origin, owner)
    /\ mode' = operating_mode
    /\ UNCHANGED <<chain, headerVars, requests, owner>>

-----------------------------------------------------------------------------
\* The storage items before anything is written to them.
EmptyStorage ==
    /\ best = None
    /\ headers = {}
    /\ hashes = [i \in Positions |-> None]
    /\ pointer = 0
    /\ setId = 0
    /\ requests = 0

\* Genesis without initialization data: the pallet is halted, with an owner or not.
GrandpaInit ==
    /\ chain = <<>>
    /\ EmptyStorage
    /\ mode = "Halted"
    /\ owner \in Owners

SubmitSomeProof == \E n \in 1..Len(chain) : FilterAccepts(n) /\ SubmitFinalityProof(n)

PalletNext ==
    \/ \E origin \in Origins, data \in ValidInitializationData : Initialize(origin, data)
    \/ OnInitialize
    \/ \E origin \in Origins, operating_mode \in Modes : SetOperatingMode(origin, operating_mode)

GrandpaNext ==
    \/ PalletNext
    \/ SubmitSomeProof
    \/ \E origin \in Origins, maybe_owner \in Owners : SetOwner(origin, maybe_owner)
    \/ \E kind \in Kinds : FinalizeHeader(kind)

GrandpaSpec == GrandpaInit /\ [][GrandpaNext]_grandpaVars

\* This chain keeps producing blocks, and some relayer submits proofs that the
\* pallet would accept.
GrandpaFairness == WF_grandpaVars(OnInitialize) /\ WF_grandpaVars(SubmitSomeProof)

GrandpaFairSpec == GrandpaSpec /\ GrandpaFairness

-----------------------------------------------------------------------------
(* Properties. *)

\* The storage holds exactly the headers of the ring, newest at the position
\* before the pointer and in the order of import going back: pruning leaves no
\* orphan entry and never takes a header out of turn.  The best header is always
\* stored: without it submit_finality_proof would answer NotInitialized for ever,
\* and initialize AlreadyInitialized.
RingExact ==
    LET kept == {hashes[i] : i \in Positions} \ {None}
        Back(k) == hashes[(pointer + HeadersToKeep - 1 - k) % HeadersToKeep]
    IN  /\ headers = kept
        /\ best # None => Back(0) = best
        /\ \A k \in 1..(HeadersToKeep - 1) : Back(k) < Back(k - 1) \/ Back(k) = None

\* The pallet cannot be led past a change of authorities: its set is the one that
\* finalizes the headers after the best one, so it accepts no other justification.
\* The exception are changes with a delay, whose headers it refuses but may pass: it
\* is then left with the old set, and accepts nothing more after the change.
AuthoritySetFollowsChain ==
    best # None =>
        \/ setId = SigningSet(best + 1)
        \/ /\ \E m \in 1..best : ChangeAt(m) # <<>> /\ ChangeAt(m)[1].delay > 0
           /\ setId < SigningSet(best + 1)

\* Whoever owns, halts, resumes or tries to initialize the pallet again: the light
\* client of an initialized pallet only goes forward, and only while it is not
\* halted; a halted pallet takes up where it was.
OnlyAdvances ==
    [][best # None => /\ best' >= best /\ setId' >= setId
                      /\ best' # best => mode = "Normal" /\ mode' = mode
                      /\ best' = best => headers' = headers]_grandpaVars

\* Once the pallet is not halted any more, a finalized header that it can import,
\* like every header before it, is eventually imported or overtaken: the limit of
\* requests only delays it.
CatchesUp ==
    <>[](mode = "Normal") =>
        \A n \in 1..MaxHeight :
            (/\ best # None /\ setId = SigningSet(best + 1)
             /\ n <= Len(chain)
             /\ \A m \in (best + 1)..n : SupportsChange(m) /\ TryStoreHeader(m))
              ~> (best >= n)

=============================================================================
