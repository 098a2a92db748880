--------------------------- MODULE Justification ---------------------------
(***************************************************************************)
(* verify_justification of the header-chain primitives: does a GRANDPA     *)
(* justification show that the authorities finalized a header?             *)
(*                                                                         *)
(* One step of the specification is one round of the loop over the         *)
(* precommits.  The next precommit is chosen when it is read, so every     *)
(* justification of at most MaxPrecommits votes is a behaviour.  A header  *)
(* is its hash, which fixes its parent: the hash of a header is computed   *)
(* from that of its parent, so headers are numbered with parents first.    *)
(***************************************************************************)
EXTENDS Integers, Sequences, FiniteSets, Functions

CONSTANTS
    AuthorityWeight,   \* the VoterSet: authority -> weight
    Strangers,         \* bound: other identities that sign precommits
    Parent,            \* the block tree: header -> parent (a root has NoHeader)
    FinalizedTarget,   \* the header the pallet wants to see finalized
    MaxPrecommits      \* bound: precommits in a justification

Authorities == DOMAIN AuthorityWeight
Headers == DOMAIN Parent
NoHeader == 0

ASSUME JustificationAssumption ==
    /\ AuthorityWeight \in [Authorities -> Nat \ {0}]
    /\ IsFiniteSet(Authorities)
    /\ Parent \in Seq(Nat)
    /\ \A h \in Headers : Parent[h] < h
    /\ FinalizedTarget \in Headers
    /\ MaxPrecommits \in Nat

VARIABLES
    commit,       \* commit.target_hash of the justification
    ancestries,   \* votes_ancestries: the headers it carries
    precommits,   \* commit.precommits read so far
    votes,        \* authorities whose vote was counted
    unvisited,    \* AncestryChain.unvisited
    weight,       \* cumulative_weight
    lookups,      \* headers that the walks looked up in the ancestry chain so far
    verdict       \* "verifying", "Ok" or the error

justificationVars == <<commit, ancestries, precommits, votes, unvisited, weight, lookups, verdict>>

\* A precommit: its header, whether its number is below the commit's, and whether
\* the signature of the authority is good for the round and the set.
Precommit == [id : Authorities \cup Strangers, target : Headers,
              low : BOOLEAN, signed : BOOLEAN]

\* VoterSet: the weight of some of the authorities, and of all.
WeightOf(authorities) == SumFunctionOnSet(AuthorityWeight, authorities)
TotalWeight == WeightOf(Authorities)

\* VoterSet::threshold (finality-grandpa): more than two thirds.
Threshold == TotalWeight - (TotalWeight - 1) \div 3

-----------------------------------------------------------------------------
\* AncestryChain::new
AncestryChain(ancestry) == [parents |-> [h \in ancestry |-> Parent[h]], unvisited |-> ancestry]

\* Mutant: a header that is not carried ends the walk well.
EnsureDescendantLenient(precommit_target) ==
    LET walk[h \in Headers \cup {NoHeader}] ==
          IF h = commit THEN [ok |-> TRUE, visited |-> {}, lookups |-> 0]
          ELSE IF h \notin ancestries \/ h \notin unvisited
          THEN [ok |-> TRUE, visited |-> {}, lookups |-> 1]
          ELSE [ok |-> walk[Parent[h]].ok, visited |-> walk[Parent[h]].visited \cup {h},
                lookups |-> walk[Parent[h]].lookups + 1]
    IN  walk[precommit_target]

\* Mutant: every walk goes all the way.
EnsureDescendantRescans(precommit_target) ==
    LET walk[h \in Headers \cup {NoHeader}] ==
          IF h = commit THEN [ok |-> TRUE, visited |-> {}, lookups |-> 0]
          ELSE IF h \notin ancestries THEN [ok |-> FALSE, visited |-> {}, lookups |-> 1]
          ELSE [ok |-> walk[Parent[h]].ok, visited |-> walk[Parent[h]].visited \cup {h},
                lookups |-> walk[Parent[h]].lookups + 1]
    IN  walk[precommit_target]

\* AncestryChain::ensure_descendant: walk from the precommit's header to its
\* parents until the commit's header (or a header of an earlier walk, which must
\* have ended there) is met; a header that is not carried ends the walk badly.
EnsureDescendant(precommit_target) ==
    LET parents == AncestryChain(ancestries).parents
        walk[h \in Headers \cup {NoHeader}] ==
          IF h = commit THEN [ok |-> TRUE, visited |-> {}, lookups |-> 0]
          ELSE IF h \notin DOMAIN parents THEN [ok |-> FALSE, visited |-> {}, lookups |-> 1]
          ELSE IF h \notin unvisited THEN [ok |-> TRUE, visited |-> {}, lookups |-> 1]
          ELSE [ok |-> walk[parents[h]].ok, visited |-> walk[parents[h]].visited \cup {h},
                lookups |-> walk[parents[h]].lookups + 1]
    IN  walk[precommit_target]

\* Precommits of strangers and further votes of an authority are passed over.
IsIgnored(signed) == signed.id \notin Authorities \/ signed.id \in votes

\* The error of a vote that counts, or none.
VoteError(signed) ==
    IF signed.low \/ ~EnsureDescendant(signed.target).ok
    THEN "PrecommitIsNotCommitDescendant"
    ELSE IF ~signed.signed THEN "InvalidAuthoritySignature" ELSE "none"

\* One round of the loop over the precommits.
ReadPrecommit(signed) ==
    /\ verdict = "verifying"
    /\ Len(precommits) < MaxPrecommits
    /\ precommits' = Append(precommits, signed)
    /\ IF IsIgnored(signed)
       THEN UNCHANGED <<votes, unvisited, weight, lookups, verdict>>
       ELSE /\ votes' = votes \cup {signed.id}
            /\ unvisited' = IF signed.low THEN unvisited
                            ELSE unvisited \ EnsureDescendant(signed.target).visited
            /\ lookups' = lookups + (IF signed.low THEN 0 ELSE EnsureDescendant(signed.target).lookups)
            /\ weight' = weight + AuthorityWeight[signed.id]
            /\ verdict' = IF VoteError(signed) = "none" THEN verdict ELSE VoteError(signed)
    /\ UNCHANGED <<commit, ancestries>>

\* Mutant: headers that no vote needs are tolerated.
FinalVerdictLax ==
    IF weight >= Threshold THEN "Ok" ELSE "TooLowCumulativeWeight"

FinalVerdict ==
    IF unvisited # {} THEN "ExtraHeadersInVotesAncestries"
    ELSE IF weight >= Threshold THEN "Ok" ELSE "TooLowCumulativeWeight"

\* The precommits are exhausted.
Conclude ==
    /\ verdict = "verifying"
    /\ verdict' = FinalVerdict
    /\ UNCHANGED <<commit, ancestries, precommits, votes, unvisited, weight, lookups>>

-----------------------------------------------------------------------------
(* The justification that the benchmark of submit_finality_proof verifies. *)

\* make_justification_for_header: the depths of the forks that carry the ancestors.
ForkDepths(ancestors, forks) ==
    LET target_depth == (ancestors + forks - 1) \div forks
        left[i \in 0..forks] ==   \* after i forks
          IF i = 0 THEN ancestors
          ELSE IF left[i - 1] >= target_depth THEN left[i - 1] - target_depth ELSE left[i - 1]
    IN  [i \in 1..forks |-> IF left[i - 1] >= target_depth THEN target_depth ELSE left[i - 1]]

\* prepare_benchmark_data: p authorities vote for the last of v ancestors on a single
\* fork.  The first vote walks to the target, the others stop where they begin.
BenchmarkLookups(p, v) ==
    LET depth == ForkDepths(v, 1)[1] IN IF depth = 0 THEN 0 ELSE depth + p - 1

-----------------------------------------------------------------------------
\* A justification for the right header is verified from its first precommit on.
Init ==
    /\ commit \in Headers
    /\ ancestries \in SUBSET Headers
    /\ precommits = <<>>
    /\ votes = {}
    /\ unvisited = AncestryChain(ancestries).unvisited
    /\ weight = 0
    /\ lookups = 0
    /\ verdict = IF commit = FinalizedTarget THEN "verifying" ELSE "InvalidJustificationTarget"

Next == (\E signed \in Precommit : ReadPrecommit(signed)) \/ Conclude

Spec == Init /\ [][Next]_justificationVars

-----------------------------------------------------------------------------
(* Properties. *)

\* The header and all its ancestors in the block tree.
Chain[h \in Headers \cup {NoHeader}] ==
    IF h = NoHeader THEN {} ELSE {h} \cup Chain[Parent[h]]

\* The headers that a vote for h has to carry, and a vote that is in order.
Route(h) == Chain[h] \ Chain[FinalizedTarget]
InOrder(p) ==
    /\ p.signed /\ ~p.low
    /\ FinalizedTarget \in Chain[p.target]
    /\ Route(p.target) \subseteq ancestries

\* The first vote of every authority.
FirstVotes == {i \in 1..Len(precommits) :
                 /\ precommits[i].id \in Authorities
                 /\ \A j \in 1..(i - 1) : precommits[j].id # precommits[i].id}

\* The authorities that signed the finalized header or a descendant of it.
Backing == {a \in Authorities : \E i \in 1..Len(precommits) :
              /\ precommits[i].id = a
              /\ precommits[i].signed
              /\ FinalizedTarget \in Chain[precommits[i].target]}

\* An accepted justification is a proof: authorities with more than two thirds of
\* the weight signed the finalized header or a descendant of it in the real block
\* tree, whatever headers the justification carries and in whatever order.
AcceptedMeansFinalized ==
    verdict = "Ok" => 3 * WeightOf(Backing) > 2 * TotalWeight

\* The verdict does not depend on the order of the walks: a justification is
\* accepted exactly when the first vote of every authority in it is in order and
\* the headers it carries are those between the finalized one and the votes.
VerdictIsExact ==
    verdict # "verifying" =>
      (verdict = "Ok" <=>
         /\ commit = FinalizedTarget
         /\ \A i \in FirstVotes : InOrder(precommits[i])
         /\ ancestries = UNION {Route(precommits[i].target) : i \in FirstVotes}
         /\ 3 * WeightOf({precommits[i].id : i \in FirstVotes}) > 2 * TotalWeight)

\* The weight of submit_finality_proof is the benchmarked one for as many precommits and
\* headers as the justification has: whatever the votes and the forks, the walks look up
\* no more headers than in the benchmark, but for the one that ends in a refusal.
WorkWithinBenchmark ==
    precommits # <<>> =>
        lookups <= BenchmarkLookups(Len(precommits), Cardinality(ancestries))
                     + (IF verdict = "PrecommitIsNotCommitDescendant" THEN 1 ELSE 0)

=============================================================================
