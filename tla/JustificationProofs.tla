------------------------ MODULE JustificationProofs ------------------------
(***************************************************************************)
(* Proofs about verify_justification: what an accepted justification       *)
(* shows, that the verdict does not depend on the order of the votes, and  *)
(* how much work the walks are, for every block tree, every set of         *)
(* authorities with their weights and every justification.                 *)
(***************************************************************************)
EXTENDS Justification, SequenceTheorems, SumProofs, TLAPS

Places == Headers \cup {NoHeader}

LEMMA PlacesAreNumbers ==
    /\ Headers = 1..Len(Parent) /\ Places = 0..Len(Parent) /\ Len(Parent) \in Nat
    /\ \A h \in Headers : Parent[h] \in Places /\ Parent[h] < h /\ h \in Nat
<1>1. Parent \in Seq(Nat) /\ \A h \in Headers : Parent[h] < h
  BY JustificationAssumption
<1>2. Len(Parent) \in Nat /\ Headers = 1..Len(Parent)
  BY <1>1, LenProperties DEF Headers
<1>3. Places = 0..Len(Parent)
  BY <1>2 DEF Places, NoHeader
<1>4. \A h \in Headers : Parent[h] \in Nat
  BY <1>1, <1>2, ElementOfSeq
<1> QED BY <1>1, <1>2, <1>3, <1>4

-----------------------------------------------------------------------------
(* The ancestors of a header. *)

ChainStep(f, h) == IF h = NoHeader THEN {} ELSE {h} \cup f[Parent[h]]
ChainUpTo(f, n) == \A h \in Places : h <= n => f[h] = ChainStep(f, h)

LEMMA ChainExists == \E f : f = [h \in Places |-> ChainStep(f, h)]
<1> DEFINE N == {n \in Nat : \E f : ChainUpTo(f, n)}
<1>1. 0 \in N
  <2> DEFINE f == [h \in Places |-> {}]
  <2>1. ASSUME NEW h \in Places, h <= 0 PROVE f[h] = ChainStep(f, h)
    BY <2>1, PlacesAreNumbers DEF ChainStep, NoHeader
  <2>2. ChainUpTo(f, 0)
    BY <2>1 DEF ChainUpTo
  <2> QED BY <2>2
<1>2. ASSUME NEW n \in N PROVE n + 1 \in N
  <2>1. PICK f : ChainUpTo(f, n)
    BY <1>2
  <2> DEFINE g == [h \in Places |-> ChainStep(f, h)]
  <2>2. ASSUME NEW h \in Places, h <= n + 1 PROVE g[h] = ChainStep(g, h)
    <3>1. CASE h = NoHeader
      BY <3>1 DEF ChainStep
    <3>2. CASE h # NoHeader
      <4>1. Parent[h] \in Places /\ Parent[h] <= n
        BY <2>2, <3>2, PlacesAreNumbers DEF Places
      <4>2. g[Parent[h]] = f[Parent[h]]
        BY <2>1, <4>1 DEF ChainUpTo
      <4> QED BY <3>2, <4>2 DEF ChainStep
    <3> QED BY <3>1, <3>2
  <2>3. ChainUpTo(g, n + 1)
    BY <2>2 DEF ChainUpTo
  <2> HIDE DEF g
  <2> QED BY <2>3
<1> HIDE DEF N
<1>3. Len(Parent) \in N
  <2>1. N \in SUBSET Nat
    BY DEF N
  <2>2. N = Nat
    BY <2>1, <1>1, <1>2, SetOfAllNumbers
  <2> QED BY <2>2, PlacesAreNumbers
<1>4. PICK f : ChainUpTo(f, Len(Parent))
  BY <1>3 DEF N
<1> DEFINE g == [h \in Places |-> f[h]]
<1>5. ASSUME NEW h \in Places PROVE g[h] = ChainStep(g, h)
  <2>1. h <= Len(Parent)
    BY PlacesAreNumbers
  <2>2. f[h] = ChainStep(f, h)
    BY <1>4, <2>1 DEF ChainUpTo
  <2>3. CASE h = NoHeader
    BY <2>2, <2>3 DEF ChainStep
  <2>4. CASE h # NoHeader
    <3>1. Parent[h] \in Places
      BY <2>4, PlacesAreNumbers DEF Places
    <3> QED BY <2>2, <2>4, <3>1 DEF ChainStep
  <2> QED BY <2>3, <2>4
<1>6. g = [h \in Places |-> ChainStep(g, h)]
  <2> HIDE DEF g
  <2>1. DOMAIN g = Places /\ g = [h \in Places |-> g[h]]
    BY DEF g
  <2> QED BY <1>5, <2>1
<1> QED BY <1>6

LEMMA ChainIs ==
    /\ Chain[NoHeader] = {}
    /\ \A h \in Headers : Chain[h] = {h} \cup Chain[Parent[h]]
<1>1. Chain = CHOOSE f : f = [h \in Places |-> ChainStep(f, h)]
  BY DEF Chain, Places, ChainStep
<1>2. Chain = [h \in Places |-> ChainStep(Chain, h)]
  BY <1>1, ChainExists
<1> HIDE DEF Chain
<1>3. \A h \in Places : Chain[h] = ChainStep(Chain, h)
  BY <1>2
<1>4. \A h \in Headers : h \in Places /\ h # NoHeader
  BY PlacesAreNumbers DEF NoHeader
<1>5. NoHeader \in Places
  BY DEF Places
<1> QED BY <1>3, <1>4, <1>5 DEF ChainStep

\* The ancestors of a header have their ancestors among them, and two ancestors
\* of the same header are ancestors of one another.
AncestorsInLine(h) ==
    \A x \in Chain[h] :
        /\ x \in Headers /\ x <= h
        /\ Chain[x] \subseteq Chain[h]
        /\ \A y \in Chain[h] : x \in Chain[y] \/ y \in Chain[x]

LEMMA ChainIsLine == \A h \in Places : AncestorsInLine(h)
<1> DEFINE N == {n \in Nat : \A h \in Places : h <= n => AncestorsInLine(h)}
<1>1. 0 \in N
  <2>1. ASSUME NEW h \in Places, h <= 0 PROVE AncestorsInLine(h)
    <3>1. h = NoHeader
      BY <2>1, PlacesAreNumbers DEF NoHeader
    <3> QED BY <3>1, ChainIs DEF AncestorsInLine
  <2> QED BY <2>1
<1>2. ASSUME NEW n \in N PROVE n + 1 \in N
  <2>1. ASSUME NEW h \in Places, h <= n + 1 PROVE AncestorsInLine(h)
    <3>1. CASE h = NoHeader
      BY <3>1, ChainIs DEF AncestorsInLine
    <3>2. CASE h # NoHeader
      <4>1. h \in Headers /\ Parent[h] \in Places /\ Parent[h] <= n /\ Parent[h] < h
        BY <2>1, <3>2, PlacesAreNumbers DEF Places
      <4>2. AncestorsInLine(Parent[h])
        BY <1>2, <4>1
      <4>3. Chain[h] = {h} \cup Chain[Parent[h]]
        BY <4>1, ChainIs
      <4>4. \A x \in Chain[Parent[h]] : x \in Headers /\ x <= h /\ Chain[x] \subseteq Chain[h]
        BY <4>1, <4>2, <4>3, PlacesAreNumbers DEF AncestorsInLine
      <4>5. \A x, y \in Chain[h] : x \in Chain[y] \/ y \in Chain[x]
        BY <4>2, <4>3 DEF AncestorsInLine
      <4>6. h <= h
        BY <4>1, PlacesAreNumbers
      <4> QED BY <4>1, <4>3, <4>4, <4>5, <4>6 DEF AncestorsInLine
    <3> QED BY <3>1, <3>2
  <2> QED BY <2>1
<1> HIDE DEF N
<1>3. N = Nat
  <2>1. N \in SUBSET Nat
    BY DEF N
  <2> QED BY <2>1, <1>1, <1>2, SetOfAllNumbers
<1>4. ASSUME NEW h \in Places PROVE AncestorsInLine(h)
  <2>1. h \in N /\ h <= h
    BY <1>3, PlacesAreNumbers
  <2> QED BY <2>1 DEF N
<1> QED BY <1>4

-----------------------------------------------------------------------------
(* The headers between a vote and the finalized header. *)

LEMMA RouteOfTarget ==
    FinalizedTarget \in Chain[FinalizedTarget] /\ Route(FinalizedTarget) = {}
BY ChainIs, JustificationAssumption DEF Route

LEMMA RouteStep ==
    ASSUME NEW h \in Headers, h # FinalizedTarget, FinalizedTarget \in Chain[h]
    PROVE  /\ FinalizedTarget \in Chain[Parent[h]]
           /\ h \notin Chain[FinalizedTarget]
           /\ Route(h) = {h} \cup Route(Parent[h])
<1>1. Chain[h] = {h} \cup Chain[Parent[h]]
  BY ChainIs
<1>2. FinalizedTarget \in Chain[Parent[h]]
  BY <1>1
<1>3. h \in Nat /\ FinalizedTarget \in Nat /\ h \in Places /\ FinalizedTarget \in Places
  BY JustificationAssumption, PlacesAreNumbers DEF Places
<1>4. h \notin Chain[FinalizedTarget]
  <2>1. FinalizedTarget <= h
    BY <1>3, ChainIsLine DEF AncestorsInLine
  <2>2. h \in Chain[FinalizedTarget] => h <= FinalizedTarget
    BY <1>3, ChainIsLine DEF AncestorsInLine
  <2> QED BY <1>3, <2>1, <2>2
<1> QED BY <1>1, <1>2, <1>4 DEF Route

\* Every header on the route of a vote has the finalized header among its ancestors
\* and the rest of the route before it.
LEMMA RouteIsClosed ==
    ASSUME NEW h \in Headers, FinalizedTarget \in Chain[h], NEW x \in Route(h)
    PROVE  /\ x \in Headers /\ x # FinalizedTarget
           /\ FinalizedTarget \in Chain[x]
           /\ Route(x) \subseteq Route(h)
<1>1. AncestorsInLine(h)
  BY ChainIsLine DEF Places
<1>2. x \in Chain[h] /\ x \notin Chain[FinalizedTarget]
  BY DEF Route
<1>3. x \in Headers /\ Chain[x] \subseteq Chain[h] /\ FinalizedTarget \in Chain[x]
  BY <1>1, <1>2 DEF AncestorsInLine
<1>4. x # FinalizedTarget
  BY <1>2, RouteOfTarget
<1> QED BY <1>3, <1>4 DEF Route

-----------------------------------------------------------------------------
(* The walk from a vote to the commit. *)

WalkStep(w, h) ==
    LET parents == AncestryChain(ancestries).parents
    IN  IF h = commit THEN [ok |-> TRUE, visited |-> {}, lookups |-> 0]
        ELSE IF h \notin DOMAIN parents THEN [ok |-> FALSE, visited |-> {}, lookups |-> 1]
        ELSE IF h \notin unvisited THEN [ok |-> TRUE, visited |-> {}, lookups |-> 1]
        ELSE [ok |-> w[parents[h]].ok, visited |-> w[parents[h]].visited \cup {h},
              lookups |-> w[parents[h]].lookups + 1]

IsWalk(w) == w = [h \in Places |-> WalkStep(w, h)]
WalkUpTo(w, n) == \A h \in Places : h <= n => w[h] = WalkStep(w, h)

\* A walk goes on only from a header that is carried, and then to its parent.
LEMMA WalkGoesToParent ==
    ASSUME ancestries \subseteq Headers, NEW v, NEW w, NEW h \in Places,
           h # NoHeader => w[Parent[h]] = v[Parent[h]]
    PROVE  WalkStep(w, h) = WalkStep(v, h)
<1>1. CASE h \in ancestries
  <2>1. h # NoHeader
    BY <1>1, PlacesAreNumbers DEF NoHeader
  <2>2. AncestryChain(ancestries).parents[h] = Parent[h]
    BY <1>1 DEF AncestryChain
  <2> QED BY <2>1, <2>2 DEF WalkStep
<1>2. CASE h \notin ancestries
  <2>1. h \notin DOMAIN AncestryChain(ancestries).parents
    BY <1>2 DEF AncestryChain
  <2> QED BY <2>1 DEF WalkStep
<1> QED BY <1>1, <1>2

LEMMA WalkExists ==
    ASSUME ancestries \subseteq Headers
    PROVE  \E w : IsWalk(w)
<1> DEFINE N == {n \in Nat : \E w : WalkUpTo(w, n)}
<1>1. ASSUME NEW n \in Nat, NEW v, n # 0 => WalkUpTo(v, n - 1)
      PROVE  n \in N
  <2> DEFINE w == [h \in Places |-> WalkStep(v, h)]
  <2>1. ASSUME NEW h \in Places, h <= n PROVE w[h] = WalkStep(w, h)
    <3>1. ASSUME h # NoHeader PROVE w[Parent[h]] = v[Parent[h]]
      <4>1. Parent[h] \in Places /\ Parent[h] <= n - 1 /\ n # 0
        BY <1>1, <2>1, <3>1, PlacesAreNumbers DEF Places, NoHeader
      <4>2. v[Parent[h]] = WalkStep(v, Parent[h])
        BY <1>1, <4>1 DEF WalkUpTo
      <4> QED BY <4>1, <4>2
    <3> HIDE DEF w
    <3>2. WalkStep(w, h) = WalkStep(v, h)
      BY <3>1, WalkGoesToParent
    <3>3. w[h] = WalkStep(v, h)
      BY DEF w
    <3> QED BY <3>2, <3>3
  <2> HIDE DEF w
  <2>2. WalkUpTo(w, n)
    BY <2>1 DEF WalkUpTo
  <2> QED BY <2>2
<1>2. 0 \in N
  BY <1>1
<1>3. ASSUME NEW n \in N PROVE n + 1 \in N
  <2>1. PICK v : WalkUpTo(v, n)
    BY <1>3
  <2>2. n + 1 \in Nat /\ (n + 1) - 1 = n
    BY <1>3
  <2> QED BY <1>1, <2>1, <2>2
<1> HIDE DEF N
<1>4. Len(Parent) \in N
  <2>1. N \in SUBSET Nat
    BY DEF N
  <2>2. N = Nat
    BY <2>1, <1>2, <1>3, SetOfAllNumbers
  <2> QED BY <2>2, PlacesAreNumbers
<1>5. PICK v : WalkUpTo(v, Len(Parent))
  BY <1>4 DEF N
<1> DEFINE w == [h \in Places |-> v[h]]
<1>6. ASSUME NEW h \in Places PROVE w[h] = WalkStep(w, h)
  <2>1. h <= Len(Parent)
    BY PlacesAreNumbers
  <2>2. v[h] = WalkStep(v, h)
    BY <1>5, <2>1 DEF WalkUpTo
  <2>3. h # NoHeader => w[Parent[h]] = v[Parent[h]]
    BY PlacesAreNumbers DEF Places
  <2>4. w[h] = v[h]
    OBVIOUS
  <2> HIDE DEF w
  <2> QED BY <2>2, <2>3, <2>4, WalkGoesToParent
<1>7. w = [h \in Places |-> WalkStep(w, h)]
  <2> HIDE DEF w
  <2>1. DOMAIN w = Places /\ w = [h \in Places |-> w[h]]
    BY DEF w
  <2> QED BY <1>6, <2>1
<1> HIDE DEF w
<1> QED BY <1>7 DEF IsWalk

Walk == CHOOSE w : IsWalk(w)

LEMMA EnsureDescendantIsWalk ==
    ASSUME NEW h
    PROVE  EnsureDescendant(h) = Walk[h]
BY DEF EnsureDescendant, Walk, IsWalk, WalkStep, Places

\* The walk, case by case.
LEMMA WalkCases ==
    ASSUME ancestries \subseteq Headers, NEW h \in Places
    PROVE  /\ h = commit =>
                  Walk[h].ok = TRUE /\ Walk[h].visited = {} /\ Walk[h].lookups = 0
           /\ h # commit /\ h \notin ancestries =>
                  Walk[h].ok = FALSE /\ Walk[h].visited = {} /\ Walk[h].lookups = 1
           /\ h # commit /\ h \in ancestries /\ h \notin unvisited =>
                  Walk[h].ok = TRUE /\ Walk[h].visited = {} /\ Walk[h].lookups = 1
           /\ h # commit /\ h \in ancestries /\ h \in unvisited =>
                  /\ Walk[h].ok = Walk[Parent[h]].ok
                  /\ Walk[h].visited = Walk[Parent[h]].visited \cup {h}
                  /\ Walk[h].lookups = Walk[Parent[h]].lookups + 1
<1>1. IsWalk(Walk)
  BY WalkExists DEF Walk
<1> HIDE DEF Walk
<1>2. Walk[h] = WalkStep(Walk, h)
  BY <1>1 DEF IsWalk
<1>3. DOMAIN AncestryChain(ancestries).parents = ancestries
  BY DEF AncestryChain
<1>4. h \in ancestries => AncestryChain(ancestries).parents[h] = Parent[h]
  BY DEF AncestryChain
<1>5. CASE h = commit
  BY <1>2, <1>5 DEF WalkStep
<1>6. CASE h # commit /\ h \notin ancestries
  <2>1. Walk[h] = [ok |-> FALSE, visited |-> {}, lookups |-> 1]
    BY <1>2, <1>3, <1>6 DEF WalkStep
  <2>2. Walk[h].ok = FALSE /\ Walk[h].visited = {} /\ Walk[h].lookups = 1
    BY <2>1
  <2> QED BY <1>6, <2>2
<1>7. CASE h # commit /\ h \in ancestries /\ h \notin unvisited
  <2>1. Walk[h] = [ok |-> TRUE, visited |-> {}, lookups |-> 1]
    BY <1>2, <1>3, <1>7 DEF WalkStep
  <2>2. Walk[h].ok = TRUE /\ Walk[h].visited = {} /\ Walk[h].lookups = 1
    BY <2>1
  <2> QED BY <1>7, <2>2
<1>8. CASE h # commit /\ h \in ancestries /\ h \in unvisited
  <2>1. Walk[h] = [ok |-> Walk[Parent[h]].ok, visited |-> Walk[Parent[h]].visited \cup {h},
                   lookups |-> Walk[Parent[h]].lookups + 1]
    BY <1>2, <1>3, <1>4, <1>8 DEF WalkStep
  <2> QED BY <1>8, <2>1
<1> QED BY <1>5, <1>6, <1>7, <1>8

-----------------------------------------------------------------------------
(* What a walk finds, and how many headers it looks up. *)

\* The headers of earlier walks, which all ended well.
Visited == ancestries \ unvisited
VisitedClosed ==
    /\ commit = FinalizedTarget
    /\ ancestries \subseteq Headers /\ unvisited \subseteq ancestries
    /\ \A x \in Visited :
         x # FinalizedTarget /\ FinalizedTarget \in Chain[x] /\ Route(x) \subseteq Visited

WalkRight(h) ==
    /\ Walk[h].ok \in BOOLEAN
    /\ Walk[h].ok <=> FinalizedTarget \in Chain[h] /\ Route(h) \subseteq ancestries
    /\ Walk[h].ok => Walk[h].visited = Route(h) \ Visited
    /\ Walk[h].visited \subseteq unvisited

LEMMA WalkIsRight ==
    ASSUME VisitedClosed
    PROVE  \A h \in Places : WalkRight(h)
<1> DEFINE N == {n \in Nat : \A h \in Places : h <= n => WalkRight(h)}
<1>1. ASSUME NEW h \in Places, h # NoHeader => WalkRight(Parent[h])
      PROVE  WalkRight(h)
  <2>1. ancestries \subseteq Headers /\ commit = FinalizedTarget
    BY DEF VisitedClosed
  <2>2. CASE h = commit
    <3>1. Walk[h].ok = TRUE /\ Walk[h].visited = {}
      BY <2>1, <2>2, WalkCases
    <3>2. FinalizedTarget \in Chain[h] /\ Route(h) = {}
      BY <2>1, <2>2, RouteOfTarget
    <3> QED BY <3>1, <3>2 DEF WalkRight
  <2>3. CASE h # commit /\ h \notin ancestries
    <3>1. Walk[h].ok = FALSE /\ Walk[h].visited = {}
      BY <2>1, <2>3, WalkCases
    <3>2. ASSUME FinalizedTarget \in Chain[h], Route(h) \subseteq ancestries PROVE FALSE
      <4>1. h \in Headers
        BY <3>2, ChainIs DEF Places
      <4>2. h \in Route(h)
        BY <2>1, <2>3, <3>2, <4>1, RouteStep
      <4> QED BY <2>3, <3>2, <4>2
    <3> QED BY <3>1, <3>2 DEF WalkRight
  <2>4. CASE h # commit /\ h \in ancestries /\ h \notin unvisited
    <3>1. Walk[h].ok = TRUE /\ Walk[h].visited = {}
      BY <2>1, <2>4, WalkCases
    <3>2. FinalizedTarget \in Chain[h] /\ Route(h) \subseteq Visited
      BY <2>4 DEF VisitedClosed, Visited
    <3> QED BY <3>1, <3>2 DEF WalkRight, Visited
  <2>5. CASE h # commit /\ h \in ancestries /\ h \in unvisited
    <3>1. Walk[h].ok = Walk[Parent[h]].ok /\ Walk[h].visited = Walk[Parent[h]].visited \cup {h}
      BY <2>1, <2>5, WalkCases
    <3>2. h \in Headers /\ h # NoHeader /\ h # FinalizedTarget
      BY <2>1, <2>5, PlacesAreNumbers DEF NoHeader
    <3>3. WalkRight(Parent[h])
      BY <1>1, <3>2
    <3>4. Chain[h] = {h} \cup Chain[Parent[h]]
      BY <3>2, ChainIs
    <3>5. CASE FinalizedTarget \in Chain[h]
      <4>1. FinalizedTarget \in Chain[Parent[h]] /\ Route(h) = {h} \cup Route(Parent[h])
        BY <3>2, <3>5, RouteStep
      <4>2. h \notin Visited
        BY <2>5 DEF Visited
      <4> QED BY <2>5, <3>1, <3>3, <3>5, <4>1, <4>2 DEF WalkRight
    <3>6. CASE FinalizedTarget \notin Chain[h]
      <4>1. FinalizedTarget \notin Chain[Parent[h]]
        BY <3>4, <3>6
      <4> QED BY <2>5, <3>1, <3>3, <3>6, <4>1 DEF WalkRight
    <3> QED BY <3>5, <3>6
  <2> QED BY <2>2, <2>3, <2>4, <2>5
<1>2. 0 \in N
  <2>1. \A h \in Places : h <= 0 => h = NoHeader
    BY PlacesAreNumbers DEF NoHeader
  <2> QED BY <1>1, <2>1
<1>3. ASSUME NEW n \in N PROVE n + 1 \in N
  <2>1. ASSUME NEW h \in Places, h <= n + 1 PROVE WalkRight(h)
    <3>1. h # NoHeader => Parent[h] \in Places /\ Parent[h] <= n
      BY <2>1, PlacesAreNumbers DEF Places
    <3> QED BY <1>1, <1>3, <3>1
  <2> QED BY <2>1
<1> HIDE DEF N
<1>4. N = Nat
  <2>1. N \in SUBSET Nat
    BY DEF N
  <2> QED BY <2>1, <1>2, <1>3, SetOfAllNumbers
<1>5. ASSUME NEW h \in Places PROVE WalkRight(h)
  <2>1. h \in N /\ h <= h
    BY <1>4, PlacesAreNumbers
  <2> QED BY <2>1 DEF N
<1> QED BY <1>5

\* A walk looks up every header it visits, and at most one more, where it meets an
\* earlier walk or fails.
WalkWork(h) ==
    /\ IsFiniteSet(Walk[h].visited)
    /\ Walk[h].lookups \in Nat
    /\ \A x \in Walk[h].visited : x \in Nat /\ x <= h
    /\ Walk[h].lookups <= Cardinality(Walk[h].visited) + 1
    /\ Walk[h].ok /\ Visited = {} => Walk[h].lookups = Cardinality(Walk[h].visited)

LEMMA WalkIsShort ==
    ASSUME VisitedClosed
    PROVE  \A h \in Places : WalkWork(h)
<1> DEFINE N == {n \in Nat : \A h \in Places : h <= n => WalkWork(h)}
<1>1. ASSUME NEW h \in Places, h # NoHeader => WalkWork(Parent[h])
      PROVE  WalkWork(h)
  <2>1. ancestries \subseteq Headers
    BY DEF VisitedClosed
  <2>2. CASE h = commit
    <3>1. Walk[h].ok = TRUE /\ Walk[h].visited = {} /\ Walk[h].lookups = 0
      BY <2>1, <2>2, WalkCases
    <3> QED BY <3>1, FS_EmptySet DEF WalkWork
  <2>3. CASE h # commit /\ h \notin ancestries
    <3>1. Walk[h].ok = FALSE /\ Walk[h].visited = {} /\ Walk[h].lookups = 1
      BY <2>1, <2>3, WalkCases
    <3> QED BY <3>1, FS_EmptySet DEF WalkWork
  <2>4. CASE h # commit /\ h \in ancestries /\ h \notin unvisited
    <3>1. Walk[h].ok = TRUE /\ Walk[h].visited = {} /\ Walk[h].lookups = 1
      BY <2>1, <2>4, WalkCases
    <3>2. Visited # {}
      BY <2>4 DEF Visited
    <3> QED BY <3>1, <3>2, FS_EmptySet DEF WalkWork
  <2>5. CASE h # commit /\ h \in ancestries /\ h \in unvisited
    <3> DEFINE p == Parent[h]
               before == Walk[p].visited
    <3>1. /\ Walk[h].ok = Walk[p].ok /\ Walk[h].visited = before \cup {h}
          /\ Walk[h].lookups = Walk[p].lookups + 1
      BY <2>1, <2>5, WalkCases
    <3>2. h \in Headers /\ h # NoHeader /\ p \in Nat /\ p < h /\ h \in Nat
      BY <2>1, <2>5, PlacesAreNumbers DEF NoHeader
    <3>3. WalkWork(p)
      BY <1>1, <3>2
    <3>4. h \notin before /\ \A x \in before \cup {h} : x \in Nat /\ x <= h
      BY <3>2, <3>3 DEF WalkWork
    <3>5. IsFiniteSet(before \cup {h}) /\ Cardinality(before \cup {h}) = Cardinality(before) + 1
      BY <3>3, <3>4, FS_AddElement DEF WalkWork
    <3>6. Cardinality(before) \in Nat /\ Walk[p].lookups \in Nat
      BY <3>3, FS_CardinalityType DEF WalkWork
    <3>7. /\ Walk[p].lookups <= Cardinality(before) + 1
          /\ Walk[p].ok /\ Visited = {} => Walk[p].lookups = Cardinality(before)
      BY <3>3 DEF WalkWork
    <3> HIDE DEF p, before
    <3>8. Walk[h].lookups <= Cardinality(Walk[h].visited) + 1
      BY <3>1, <3>5, <3>6, <3>7
    <3>9. Walk[h].ok /\ Visited = {} => Walk[h].lookups = Cardinality(Walk[h].visited)
      BY <3>1, <3>5, <3>6, <3>7
    <3>10. IsFiniteSet(Walk[h].visited) /\ Walk[h].lookups \in Nat
      BY <3>1, <3>5, <3>6
    <3> QED BY <3>1, <3>4, <3>8, <3>9, <3>10 DEF WalkWork
  <2> QED BY <2>2, <2>3, <2>4, <2>5
<1>2. 0 \in N
  <2>1. \A h \in Places : h <= 0 => h = NoHeader
    BY PlacesAreNumbers DEF NoHeader
  <2> QED BY <1>1, <2>1
<1>3. ASSUME NEW n \in N PROVE n + 1 \in N
  <2>1. ASSUME NEW h \in Places, h <= n + 1 PROVE WalkWork(h)
    <3>1. h # NoHeader => Parent[h] \in Places /\ Parent[h] <= n
      BY <2>1, PlacesAreNumbers DEF Places
    <3> QED BY <1>1, <1>3, <3>1
  <2> QED BY <2>1
<1> HIDE DEF N
<1>4. N = Nat
  <2>1. N \in SUBSET Nat
    BY DEF N
  <2> QED BY <2>1, <1>2, <1>3, SetOfAllNumbers
<1>5. ASSUME NEW h \in Places PROVE WalkWork(h)
  <2>1. h \in N /\ h <= h
    BY <1>4, PlacesAreNumbers
  <2> QED BY <2>1 DEF N
<1> QED BY <1>5

-----------------------------------------------------------------------------
(* The invariant of the loop over the precommits. *)

Voters == {precommits[i].id : i \in FirstVotes}
Needed == UNION {Route(precommits[i].target) : i \in FirstVotes}
AllInOrder == \A i \in FirstVotes : InOrder(precommits[i])

VoteErrors == {"PrecommitIsNotCommitDescendant", "InvalidAuthoritySignature"}
EndErrors == {"ExtraHeadersInVotesAncestries", "TooLowCumulativeWeight"}
Verdicts == {"verifying", "Ok", "InvalidJustificationTarget"} \cup VoteErrors \cup EndErrors

JustificationTypeOK ==
    /\ commit \in Headers
    /\ ancestries \subseteq Headers /\ unvisited \subseteq ancestries
    /\ precommits \in Seq(Precommit)
    /\ votes \subseteq Authorities
    /\ lookups \in Nat
    /\ verdict \in Verdicts

\* An authority is counted once, whatever it signs.
VotesInv ==
    /\ votes = Voters
    /\ \A i \in 1..Len(precommits) : precommits[i].id \in Authorities => precommits[i].id \in votes
    /\ weight = WeightOf(votes)
    /\ Cardinality(votes) <= Len(precommits)

\* As long as no vote was refused, the visited headers are those that the votes need;
\* every verdict has its reason.
VerdictInv ==
    /\ commit = FinalizedTarget <=> verdict # "InvalidJustificationTarget"
    /\ verdict \in {"verifying", "Ok"} \cup EndErrors => AllInOrder /\ Visited = Needed
    /\ verdict \in VoteErrors => ~AllInOrder
    /\ verdict = "Ok" => unvisited = {} /\ weight >= Threshold
    /\ verdict = "ExtraHeadersInVotesAncestries" => unvisited # {}
    /\ verdict = "TooLowCumulativeWeight" => ~(weight >= Threshold)

\* Every header is visited once, and every vote but one may meet a visited header.
WorkInv ==
    lookups <= Cardinality(Visited)
                 + (IF Visited = {} THEN 0 ELSE Cardinality(votes) - 1)
                 + (IF verdict = "PrecommitIsNotCommitDescendant" THEN 1 ELSE 0)

JustificationInv == JustificationTypeOK /\ VotesInv /\ VerdictInv /\ WorkInv

LEMMA FirstVotesAfter ==
    ASSUME precommits \in Seq(Precommit), votes = Voters,
           \A i \in 1..Len(precommits) : precommits[i].id \in Authorities => precommits[i].id \in votes,
           NEW signed \in Precommit, precommits' = Append(precommits, signed)
    PROVE  /\ precommits' \in Seq(Precommit) /\ Len(precommits) \in Nat
           /\ Len(precommits') = Len(precommits) + 1
           /\ \A i \in 1..Len(precommits) : precommits'[i] = precommits[i]
           /\ precommits'[Len(precommits) + 1] = signed
           /\ FirstVotes \subseteq 1..Len(precommits)
           /\ IsIgnored(signed) => FirstVotes' = FirstVotes
           /\ ~IsIgnored(signed) => FirstVotes' = FirstVotes \cup {Len(precommits) + 1}
<1> DEFINE n == Len(precommits)
<1>1. /\ precommits' \in Seq(Precommit) /\ n \in Nat /\ Len(precommits') = n + 1
      /\ \A i \in 1..n : precommits'[i] = precommits[i]
      /\ precommits'[n + 1] = signed
  BY AppendProperties, LenProperties
<1>2. FirstVotes \subseteq 1..n
  BY DEF FirstVotes
<1>3. ASSUME NEW i \in 1..n PROVE i \in FirstVotes' <=> i \in FirstVotes
  <2>1. /\ i \in 1..Len(precommits') /\ precommits'[i] = precommits[i]
        /\ \A j \in 1..(i - 1) : precommits'[j] = precommits[j]
    BY <1>1, <1>3
  <2> QED BY <1>3, <2>1 DEF FirstVotes
<1>4. n + 1 \in FirstVotes' <=> ~IsIgnored(signed)
  <2>1. /\ n + 1 \in 1..Len(precommits') /\ (n + 1) - 1 = n
    BY <1>1
  <2>2. n + 1 \in FirstVotes' <=>
          signed.id \in Authorities /\ \A j \in 1..n : precommits[j].id # signed.id
    BY <1>1, <2>1 DEF FirstVotes
  <2>3. signed.id \in votes => \E j \in 1..n : precommits[j].id = signed.id
    BY <1>2 DEF Voters
  <2>4. (\E j \in 1..n : precommits[j].id = signed.id) /\ signed.id \in Authorities
          => signed.id \in votes
    OBVIOUS
  <2> HIDE DEF n
  <2> QED BY <2>2, <2>3, <2>4 DEF IsIgnored
<1>5. FirstVotes' \subseteq 1..n \cup {n + 1}
  BY <1>1 DEF FirstVotes
<1>6. n + 1 \notin 1..n
  BY <1>1
<1> HIDE DEF n
<1>7. IsIgnored(signed) => FirstVotes' = FirstVotes
  BY <1>2, <1>3, <1>4, <1>5, <1>6
<1>8. ~IsIgnored(signed) => FirstVotes' = FirstVotes \cup {n + 1}
  BY <1>2, <1>3, <1>4, <1>5, <1>6
<1> QED BY <1>1, <1>2, <1>7, <1>8 DEF n

\* The votes that were read need only closed routes.
LEMMA VisitedIsClosed ==
    ASSUME JustificationInv, verdict = "verifying"
    PROVE  VisitedClosed
<1>1. commit = FinalizedTarget /\ AllInOrder /\ Visited = Needed
  BY DEF JustificationInv, VerdictInv
<1>2. ASSUME NEW x \in Visited
      PROVE  x # FinalizedTarget /\ FinalizedTarget \in Chain[x] /\ Route(x) \subseteq Visited
  <2>1. PICK i \in FirstVotes : x \in Route(precommits[i].target)
    BY <1>1, <1>2 DEF Needed
  <2>2. precommits[i].target \in Headers
    <3>1. precommits[i] \in Precommit
      BY <2>1, ElementOfSeq DEF JustificationInv, JustificationTypeOK, FirstVotes
    <3> QED BY <3>1 DEF Precommit
  <2>3. FinalizedTarget \in Chain[precommits[i].target]
    BY <1>1, <2>1 DEF AllInOrder, InOrder
  <2>4. Route(x) \subseteq Needed
    BY <2>1, <2>2, <2>3, RouteIsClosed DEF Needed
  <2> QED BY <1>1, <2>1, <2>2, <2>3, <2>4, RouteIsClosed
<1> QED BY <1>1, <1>2 DEF VisitedClosed, JustificationInv, JustificationTypeOK

-----------------------------------------------------------------------------
(* Every step keeps the invariant. *)

LEMMA FinitelyManyVotes ==
    ASSUME JustificationTypeOK
    PROVE  /\ IsFiniteSet(votes) /\ Cardinality(votes) \in Nat
           /\ IsFiniteSet(ancestries) /\ Cardinality(ancestries) \in Nat
           /\ IsFiniteSet(Visited) /\ Cardinality(Visited) \in Nat
           /\ Cardinality(Visited) <= Cardinality(ancestries)
<1>1. IsFiniteSet(Authorities)
  BY JustificationAssumption
<1>2. IsFiniteSet(Headers)
  BY PlacesAreNumbers, FS_Interval
<1>3. IsFiniteSet(votes) /\ IsFiniteSet(ancestries)
  BY <1>1, <1>2, FS_Subset DEF JustificationTypeOK
<1>4. Visited \subseteq ancestries
  BY DEF Visited
<1>5. IsFiniteSet(Visited) /\ Cardinality(Visited) <= Cardinality(ancestries)
  BY <1>3, <1>4, FS_Subset
<1> QED BY <1>3, <1>5, FS_CardinalityType

\* Weights of sets of authorities.
LEMMA WeightFacts ==
    ASSUME NEW S \in SUBSET Authorities
    PROVE  /\ WeightOf(S) \in Nat
           /\ \A a \in Authorities \ S : WeightOf(S \cup {a}) = WeightOf(S) + AuthorityWeight[a]
           /\ \A T \in SUBSET S : WeightOf(T) <= WeightOf(S)
<1>1. IsFiniteSet(S) /\ \A x \in Authorities : AuthorityWeight[x] \in Nat
  BY JustificationAssumption, FS_Subset
<1>2. WeightOf(S) \in Nat
  BY <1>1, SumNat DEF WeightOf
<1>3. ASSUME NEW a \in Authorities \ S
      PROVE  WeightOf(S \cup {a}) = WeightOf(S) + AuthorityWeight[a]
  <2>1. AuthorityWeight[a] \in Int /\ \A x \in S : AuthorityWeight[x] \in Int
    BY <1>1
  <2>2. WeightOf(S \cup {a}) = AuthorityWeight[a] + WeightOf(S)
    BY <1>1, <1>3, <2>1, SumAdd DEF WeightOf
  <2> QED BY <1>2, <2>1, <2>2
<1>4. ASSUME NEW T \in SUBSET S PROVE WeightOf(T) <= WeightOf(S)
  <2>1. /\ \A x \in T : AuthorityWeight[x] \in Int /\ AuthorityWeight[x] <= AuthorityWeight[x]
        /\ \A x \in S : AuthorityWeight[x] \in Nat
    BY <1>1
  <2> QED BY <1>1, <2>1, SumMonotone DEF WeightOf
<1> QED BY <1>2, <1>3, <1>4

LEMMA IgnoredKeepsInv ==
    ASSUME JustificationInv, NEW signed \in Precommit, ReadPrecommit(signed), IsIgnored(signed)
    PROVE  JustificationInv'
<1>1. /\ precommits' = Append(precommits, signed)
      /\ UNCHANGED <<commit, ancestries, votes, unvisited, weight, lookups, verdict>>
  BY DEF ReadPrecommit
<1>2. /\ precommits' \in Seq(Precommit) /\ Len(precommits) \in Nat
      /\ Len(precommits') = Len(precommits) + 1
      /\ \A i \in 1..Len(precommits) : precommits'[i] = precommits[i]
      /\ precommits'[Len(precommits) + 1] = signed
      /\ FirstVotes \subseteq 1..Len(precommits)
      /\ FirstVotes' = FirstVotes
  BY <1>1, FirstVotesAfter DEF JustificationInv, JustificationTypeOK, VotesInv
<1>3. \A i \in FirstVotes : precommits'[i] = precommits[i]
  BY <1>2
<1>4. Voters' = Voters /\ Needed' = Needed
  BY <1>2, <1>3 DEF Voters, Needed, Route
<1>5. AllInOrder' <=> AllInOrder
  BY <1>1, <1>2, <1>3 DEF AllInOrder, InOrder, Route
<1>6. Visited' = Visited
  BY <1>1 DEF Visited
<1>7. JustificationTypeOK'
  BY <1>1, <1>2 DEF JustificationInv, JustificationTypeOK
<1>8. VotesInv'
  <2>1. \A i \in 1..Len(precommits') : precommits'[i].id \in Authorities => precommits'[i].id \in votes'
    BY <1>1, <1>2 DEF IsIgnored, JustificationInv, VotesInv
  <2>2. Cardinality(votes') <= Len(precommits')
    <3>1. Cardinality(votes) \in Nat
      BY FinitelyManyVotes DEF JustificationInv
    <3> QED BY <1>1, <1>2, <3>1 DEF JustificationInv, VotesInv
  <2> QED BY <1>1, <1>4, <2>1, <2>2 DEF JustificationInv, VotesInv, WeightOf
<1>9. VerdictInv'
  BY <1>1, <1>4, <1>5, <1>6 DEF JustificationInv, VerdictInv, Threshold, TotalWeight, WeightOf
<1>10. WorkInv'
  BY <1>1, <1>6 DEF JustificationInv, WorkInv
<1> QED BY <1>7, <1>8, <1>9, <1>10 DEF JustificationInv

LEMMA VoteKeepsInv ==
    ASSUME JustificationInv, NEW signed \in Precommit, ReadPrecommit(signed), ~IsIgnored(signed)
    PROVE  JustificationInv'
<1> DEFINE n == Len(precommits)
           walk == Walk[signed.target]
           new == IF signed.low THEN {} ELSE walk.visited
           work == IF signed.low THEN 0 ELSE walk.lookups
           error == VoteError(signed)
<1>1. /\ verdict = "verifying"
      /\ precommits' = Append(precommits, signed)
      /\ votes' = votes \cup {signed.id}
      /\ weight' = weight + AuthorityWeight[signed.id]
      /\ verdict' = IF error = "none" THEN verdict ELSE error
      /\ commit' = commit /\ ancestries' = ancestries
  BY DEF ReadPrecommit
<1>2. unvisited' = unvisited \ new /\ lookups' = lookups + work
  BY EnsureDescendantIsWalk DEF ReadPrecommit
<1>3. /\ signed.id \in Authorities /\ signed.id \notin votes
      /\ signed.target \in Headers /\ signed.target \in Places
      /\ signed.low \in BOOLEAN /\ signed.signed \in BOOLEAN
  BY DEF IsIgnored, Precommit, Places
<1>4. /\ precommits' \in Seq(Precommit) /\ n \in Nat
      /\ Len(precommits') = n + 1
      /\ \A i \in 1..n : precommits'[i] = precommits[i]
      /\ precommits'[n + 1] = signed
      /\ FirstVotes \subseteq 1..n
      /\ FirstVotes' = FirstVotes \cup {n + 1}
  BY <1>1, FirstVotesAfter DEF JustificationInv, JustificationTypeOK, VotesInv
<1>5. \A i \in FirstVotes : precommits'[i] = precommits[i]
  BY <1>4
<1>6. VisitedClosed /\ WalkRight(signed.target) /\ WalkWork(signed.target)
  BY <1>1, <1>3, VisitedIsClosed, WalkIsRight, WalkIsShort
<1>7. commit = FinalizedTarget /\ AllInOrder /\ Visited = Needed
  BY <1>1 DEF JustificationInv, VerdictInv
<1>8. error = "none" <=> InOrder(signed)
  <2>1. error = "none" <=> ~signed.low /\ walk.ok /\ signed.signed
    BY <1>3, EnsureDescendantIsWalk DEF VoteError
  <2> QED BY <1>3, <1>6, <2>1 DEF InOrder, WalkRight
<1>9. error \in VoteErrors \cup {"none"}
  BY DEF VoteError, VoteErrors
<1>10. new \subseteq unvisited /\ IsFiniteSet(new)
  BY <1>6, FS_EmptySet DEF WalkRight, WalkWork
<1>11. Visited' = Visited \cup new /\ Visited \cap new = {}
  <2> HIDE DEF new
  <2> QED BY <1>1, <1>2, <1>10 DEF Visited, JustificationInv, JustificationTypeOK
<1> HIDE DEF n
<1>12. Voters' = Voters \cup {signed.id} /\ Needed' = Needed \cup Route(signed.target)
  BY <1>4, <1>5 DEF Voters, Needed, Route
<1>13. AllInOrder' <=> AllInOrder /\ InOrder(signed)
  BY <1>1, <1>4, <1>5 DEF AllInOrder, InOrder, Route
<1>14. JustificationTypeOK'
  <2>1. work \in Nat
    BY <1>6 DEF WalkWork
  <2>2. lookups' \in Nat
    BY <1>2, <2>1 DEF JustificationInv, JustificationTypeOK
  <2>3. verdict' \in Verdicts
    BY <1>1, <1>9 DEF Verdicts
  <2> QED BY <1>1, <1>2, <1>3, <1>4, <2>2, <2>3 DEF JustificationInv, JustificationTypeOK
<1>15. VotesInv'
  <2>1. \A i \in 1..Len(precommits') : precommits'[i].id \in Authorities => precommits'[i].id \in votes'
    BY <1>1, <1>4 DEF JustificationInv, VotesInv, n
  <2>2. IsFiniteSet(votes) /\ Cardinality(votes) \in Nat
    BY FinitelyManyVotes DEF JustificationInv
  <2>3. Cardinality(votes') = Cardinality(votes) + 1
    BY <1>1, <1>3, <2>2, FS_AddElement
  <2>4. Cardinality(votes') <= Len(precommits')
    BY <1>4, <2>2, <2>3 DEF JustificationInv, VotesInv, n
  <2>5. weight' = WeightOf(votes')
    BY <1>1, <1>3, WeightFacts DEF JustificationInv, JustificationTypeOK, VotesInv
  <2>6. votes' = Voters'
    BY <1>1, <1>12 DEF JustificationInv, VotesInv
  <2> QED BY <2>1, <2>4, <2>5, <2>6 DEF VotesInv, WeightOf
<1>16. VerdictInv'
  <2>1. CASE error = "none"
    <3>1. verdict' = "verifying" /\ AllInOrder'
      BY <1>1, <1>7, <1>8, <1>13, <2>1
    <3>2. new = Route(signed.target) \ Visited
      BY <1>6, <1>8, <2>1 DEF InOrder, WalkRight
    <3>3. Visited' = Needed'
      BY <1>7, <1>11, <1>12, <3>2
    <3> QED BY <1>1, <1>7, <3>1, <3>3 DEF VerdictInv, VoteErrors, EndErrors
  <2>2. CASE error # "none"
    <3>1. verdict' \in VoteErrors /\ ~AllInOrder'
      BY <1>1, <1>8, <1>9, <1>13, <2>2
    <3> QED BY <1>1, <1>7, <3>1 DEF VerdictInv, VoteErrors, EndErrors
  <2> QED BY <2>1, <2>2
<1>17. WorkInv'
  <2> DEFINE V == Cardinality(Visited)
             W == Cardinality(new)
             k == Cardinality(votes)
             refused == verdict' = "PrecommitIsNotCommitDescendant"
  <2>1. /\ IsFiniteSet(Visited) /\ V \in Nat /\ IsFiniteSet(votes) /\ k \in Nat
        /\ W \in Nat /\ work \in Nat /\ lookups \in Nat
    BY <1>6, <1>10, FinitelyManyVotes, FS_CardinalityType
       DEF JustificationInv, JustificationTypeOK, WalkWork
  <2>2. Cardinality(Visited') = V + W
    <3> HIDE DEF new
    <3>1. Cardinality(Visited \cup new) = V + W - Cardinality(Visited \cap new)
      BY <1>10, <2>1, FS_Union
    <3>2. Cardinality(Visited \cap new) = 0
      BY <1>11, FS_EmptySet
    <3> QED BY <1>11, <2>1, <3>1, <3>2
  <2>3. Cardinality(votes') = k + 1
    BY <1>1, <1>3, <2>1, FS_AddElement
  <2>4. lookups <= V + (IF Visited = {} THEN 0 ELSE k - 1)
    BY <1>1, <2>1 DEF JustificationInv, WorkInv
  <2>5. work <= W + 1
    BY <1>6, FS_EmptySet DEF WalkWork
  <2>6. Visited = {} /\ ~refused => work = W
    <3>1. CASE signed.low
      BY <3>1, FS_EmptySet
    <3>2. CASE ~signed.low
      <4>1. ~walk.ok => error = "PrecommitIsNotCommitDescendant"
        BY EnsureDescendantIsWalk DEF VoteError
      <4>2. walk.ok \in BOOLEAN
        BY <1>6 DEF WalkRight
      <4> QED BY <1>1, <1>6, <3>2, <4>1, <4>2 DEF WalkWork
    <3> QED BY <1>3, <3>1, <3>2
  <2>7. Visited = {} <=> V = 0
    BY <2>1, FS_EmptySet
  <2>8. Visited' = {} <=> V = 0 /\ W = 0
    <3> HIDE DEF new
    <3>1. V = 0 <=> Visited = {}
      BY <2>1, FS_EmptySet
    <3>2. W = 0 <=> new = {}
      BY <1>10, FS_EmptySet
    <3> QED BY <1>11, <3>1, <3>2
  <2> HIDE DEF V, W, k, work, new, refused
  <2>9. lookups' <= (V + W) + (IF Visited' = {} THEN 0 ELSE (k + 1) - 1)
                     + (IF refused THEN 1 ELSE 0)
    <3>1. CASE Visited = {}
      <4>1. lookups <= 0 /\ V = 0
        BY <2>1, <2>4, <2>7, <3>1
      <4>2. lookups' <= W + (IF refused THEN 1 ELSE 0)
        BY <1>2, <2>1, <2>5, <2>6, <3>1, <4>1
      <4> QED BY <1>14, <2>1, <4>1, <4>2 DEF JustificationTypeOK
    <3>2. CASE Visited # {}
      <4>1. V # 0 /\ Visited' # {}
        BY <2>7, <2>8, <3>2
      <4>2. lookups' <= (V + W) + k
        BY <1>2, <2>1, <2>4, <2>5, <3>2
      <4> QED BY <1>14, <2>1, <4>1, <4>2 DEF JustificationTypeOK
    <3> QED BY <3>1, <3>2
  <2> QED BY <2>2, <2>3, <2>9 DEF WorkInv, refused
<1> QED BY <1>14, <1>15, <1>16, <1>17 DEF JustificationInv

LEMMA ConcludeKeepsInv ==
    ASSUME JustificationInv, Conclude
    PROVE  JustificationInv'
<1>1. /\ verdict = "verifying" /\ verdict' = FinalVerdict
      /\ UNCHANGED <<commit, ancestries, precommits, votes, unvisited, weight, lookups>>
  BY DEF Conclude
<1>2. verdict' \in {"Ok"} \cup EndErrors
  BY <1>1 DEF FinalVerdict, EndErrors
<1>3. /\ FirstVotes' = FirstVotes /\ Voters' = Voters /\ Needed' = Needed /\ Visited' = Visited
      /\ AllInOrder' <=> AllInOrder
  BY <1>1 DEF FirstVotes, Voters, Needed, Visited, AllInOrder, InOrder, Route
<1>4. JustificationTypeOK'
  BY <1>1, <1>2 DEF JustificationInv, JustificationTypeOK, Verdicts
<1>5. VotesInv'
  BY <1>1, <1>3 DEF JustificationInv, VotesInv, WeightOf
<1>6. VerdictInv'
  BY <1>1, <1>2, <1>3 DEF JustificationInv, VerdictInv, FinalVerdict, EndErrors, VoteErrors,
     Threshold, TotalWeight, WeightOf
<1>7. WorkInv'
  BY <1>1, <1>2, <1>3 DEF JustificationInv, WorkInv, EndErrors
<1> QED BY <1>4, <1>5, <1>6, <1>7 DEF JustificationInv

LEMMA InitJustificationInv == Init => JustificationInv
<1> SUFFICES ASSUME Init PROVE JustificationInv
  OBVIOUS
<1>1. /\ commit \in Headers /\ ancestries \subseteq Headers /\ unvisited = ancestries
      /\ precommits = <<>> /\ votes = {} /\ weight = 0 /\ lookups = 0
      /\ verdict = IF commit = FinalizedTarget THEN "verifying" ELSE "InvalidJustificationTarget"
  BY DEF Init, AncestryChain
<1>2. Len(precommits) = 0 /\ precommits \in Seq(Precommit) /\ 1..Len(precommits) = {}
  BY <1>1, EmptySeq
<1>3. FirstVotes = {} /\ Voters = {} /\ Needed = {} /\ AllInOrder /\ Visited = {}
  BY <1>1, <1>2 DEF FirstVotes, Voters, Needed, AllInOrder, Visited
<1>4. JustificationTypeOK
  BY <1>1, <1>2 DEF JustificationTypeOK, Verdicts
<1>5. VotesInv
  BY <1>1, <1>2, <1>3, FS_EmptySet, SumEmpty DEF VotesInv, WeightOf
<1>6. VerdictInv
  BY <1>1, <1>3 DEF VerdictInv, VoteErrors, EndErrors
<1>7. WorkInv
  BY <1>1, <1>3, FS_EmptySet DEF WorkInv
<1> QED BY <1>4, <1>5, <1>6, <1>7 DEF JustificationInv

LEMMA NextJustificationInv ==
    JustificationInv /\ [Next]_justificationVars => JustificationInv'
<1> SUFFICES ASSUME JustificationInv, [Next]_justificationVars PROVE JustificationInv'
  OBVIOUS
<1>1. ASSUME NEW signed \in Precommit, ReadPrecommit(signed) PROVE JustificationInv'
  BY <1>1, IgnoredKeepsInv, VoteKeepsInv
<1>2. CASE Conclude
  BY <1>2, ConcludeKeepsInv
<1>3. CASE UNCHANGED justificationVars
  <2>1. UNCHANGED <<commit, ancestries, precommits, votes, unvisited, weight, lookups, verdict>>
    BY <1>3 DEF justificationVars
  <2>2. /\ FirstVotes' = FirstVotes /\ Voters' = Voters /\ Needed' = Needed /\ Visited' = Visited
        /\ AllInOrder' <=> AllInOrder
    BY <2>1 DEF FirstVotes, Voters, Needed, Visited, AllInOrder, InOrder, Route
  <2>3. JustificationTypeOK' /\ VotesInv'
    BY <2>1, <2>2 DEF JustificationInv, JustificationTypeOK, VotesInv, WeightOf
  <2>4. VerdictInv'
    BY <2>1, <2>2 DEF JustificationInv, VerdictInv, Threshold, TotalWeight, WeightOf
  <2>5. WorkInv'
    BY <2>1, <2>2 DEF JustificationInv, WorkInv
  <2> QED BY <2>3, <2>4, <2>5 DEF JustificationInv
<1> QED BY <1>1, <1>2, <1>3 DEF Next

LEMMA JustificationInvariant == Spec => []JustificationInv
BY InitJustificationInv, NextJustificationInv, PTL DEF Spec

-----------------------------------------------------------------------------
(* The properties. *)

\* finality-grandpa's threshold is more than two thirds of the weight.
LEMMA ThresholdIsTwoThirds ==
    ASSUME NEW S \in SUBSET Authorities
    PROVE  WeightOf(S) >= Threshold <=> 3 * WeightOf(S) > 2 * TotalWeight
<1> DEFINE w == WeightOf(S)
           t == TotalWeight
           q == (t - 1) \div 3
<1>1. w \in Nat /\ t \in Nat
  BY WeightFacts DEF TotalWeight
<1>2. q \in Int /\ 3 * q <= t - 1 /\ t - 1 < 3 * q + 3
  <2> HIDE DEF t
  <2> QED BY <1>1
<1>3. Threshold = t - q
  BY DEF Threshold
<1> HIDE DEF w, t, q
<1>4. w >= t - q <=> 3 * w > 2 * t
  BY <1>1, <1>2
<1> QED BY <1>3, <1>4 DEF w, t

\* An accepted justification is a proof of finality: verify_justification returns Ok only
\* when authorities with more than two thirds of the weight signed the header or a
\* descendant of it, for every block tree and every set of authorities.
THEOREM AcceptedIsFinalized == Spec => []AcceptedMeansFinalized
<1>1. JustificationInv => AcceptedMeansFinalized
  <2> SUFFICES ASSUME JustificationInv, verdict = "Ok"
               PROVE  3 * WeightOf(Backing) > 2 * TotalWeight
    BY DEF AcceptedMeansFinalized
  <2>1. /\ votes = Voters /\ votes \subseteq Authorities /\ weight = WeightOf(votes)
        /\ AllInOrder /\ weight >= Threshold
    BY DEF JustificationInv, JustificationTypeOK, VotesInv, VerdictInv
  <2>2. votes \subseteq Backing /\ Backing \subseteq Authorities
    BY <2>1 DEF Voters, FirstVotes, Backing, AllInOrder, InOrder
  <2>3. WeightOf(votes) <= WeightOf(Backing) /\ WeightOf(Backing) \in Nat
    BY <2>2, WeightFacts
  <2>4. 3 * WeightOf(votes) > 2 * TotalWeight
    BY <2>1, ThresholdIsTwoThirds
  <2>5. WeightOf(votes) \in Nat /\ TotalWeight \in Nat
    BY <2>1, WeightFacts DEF TotalWeight
  <2> QED BY <2>3, <2>4, <2>5
<1> QED BY <1>1, JustificationInvariant, PTL

\* verify_justification decides: whatever the order of the precommits, it returns Ok exactly
\* for the justifications whose first votes are in order, reach the threshold and need just
\* the headers of votes_ancestries.
THEOREM VerdictIsExactAlways == Spec => []VerdictIsExact
<1>1. JustificationInv => VerdictIsExact
  <2> SUFFICES ASSUME JustificationInv, verdict # "verifying"
               PROVE  verdict = "Ok" <=>
                        /\ commit = FinalizedTarget
                        /\ AllInOrder
                        /\ ancestries = Needed
                        /\ 3 * WeightOf(Voters) > 2 * TotalWeight
    BY DEF VerdictIsExact, AllInOrder, Needed, Voters
  <2>1. /\ votes = Voters /\ votes \subseteq Authorities /\ weight = WeightOf(votes)
        /\ unvisited \subseteq ancestries /\ verdict \in Verdicts /\ VerdictInv
    BY DEF JustificationInv, JustificationTypeOK, VotesInv
  <2>2. weight >= Threshold <=> 3 * WeightOf(Voters) > 2 * TotalWeight
    BY <2>1, ThresholdIsTwoThirds
  <2>3. unvisited = {} <=> Visited = ancestries
    BY <2>1 DEF Visited
  <2>4. CASE verdict = "Ok"
    BY <2>1, <2>2, <2>3, <2>4 DEF VerdictInv
  <2>5. CASE verdict = "InvalidJustificationTarget"
    BY <2>1, <2>5 DEF VerdictInv
  <2>6. CASE verdict \in VoteErrors
    BY <2>1, <2>6 DEF VerdictInv, VoteErrors
  <2>7. CASE verdict \in EndErrors
    BY <2>1, <2>2, <2>3, <2>7 DEF VerdictInv, EndErrors
  <2> QED BY <2>1, <2>4, <2>5, <2>6, <2>7 DEF Verdicts
<1> QED BY <1>1, JustificationInvariant, PTL

\* The benchmark carries all its headers on one fork.
LEMMA SingleForkDepth ==
    ASSUME NEW v \in Nat
    PROVE  ForkDepths(v, 1)[1] = v
<1> DEFINE depth == (v + 1 - 1) \div 1
           Step(f, i) == IF i = 0 THEN v
                         ELSE IF f[i - 1] >= depth THEN f[i - 1] - depth ELSE f[i - 1]
           left == CHOOSE f : f = [i \in 0..1 |-> Step(f, i)]
           f0 == [i \in 0..1 |-> IF i = 0 THEN v ELSE IF v >= depth THEN v - depth ELSE v]
<1>1. depth = v
  OBVIOUS
<1>2. \E f : f = [i \in 0..1 |-> Step(f, i)]
  <2>1. ASSUME NEW i \in 0..1 PROVE f0[i] = Step(f0, i)
    <3>1. f0[0] = v
      OBVIOUS
    <3>2. CASE i = 0
      BY <3>1, <3>2
    <3>3. CASE i = 1
      BY <3>1, <3>3
    <3> QED BY <3>2, <3>3
  <2>2. f0 = [i \in 0..1 |-> f0[i]]
    OBVIOUS
  <2> HIDE DEF f0, Step
  <2>3. f0 = [i \in 0..1 |-> Step(f0, i)]
    BY <2>1, <2>2
  <2> QED BY <2>3
<1>3. left = [i \in 0..1 |-> Step(left, i)]
  <2> HIDE DEF Step
  <2> QED BY <1>2
<1>4. left[0] = v
  <2> HIDE DEF left
  <2> QED BY <1>3
<1>5. ForkDepths(v, 1) = [i \in 1..1 |-> IF left[i - 1] >= depth THEN depth ELSE left[i - 1]]
  BY DEF ForkDepths
<1> HIDE DEF left, depth
<1>6. ForkDepths(v, 1)[1] = IF left[0] >= depth THEN depth ELSE left[0]
  BY <1>5
<1> QED BY <1>1, <1>4, <1>6

\* Whatever the votes and forks of a justification, the walks look up no more headers than
\* in the benchmark whose weight submit_finality_proof is charged, but for one refusal.
THEOREM WorkIsBenchmarked == Spec => []WorkWithinBenchmark
<1>1. JustificationInv => WorkWithinBenchmark
  <2> SUFFICES ASSUME JustificationInv, precommits # <<>>
               PROVE  lookups <= BenchmarkLookups(Len(precommits), Cardinality(ancestries))
                        + (IF verdict = "PrecommitIsNotCommitDescendant" THEN 1 ELSE 0)
    BY DEF WorkWithinBenchmark
  <2> DEFINE p == Len(precommits)
             v == Cardinality(ancestries)
             V == Cardinality(Visited)
             k == Cardinality(votes)
             refused == verdict = "PrecommitIsNotCommitDescendant"
  <2>1. /\ k \in Nat /\ v \in Nat /\ V \in Nat /\ V <= v /\ IsFiniteSet(Visited)
        /\ lookups \in Nat
    BY FinitelyManyVotes DEF JustificationInv, JustificationTypeOK
  <2>2. p \in Nat /\ p # 0 /\ k <= p
    BY EmptySeq, LenProperties DEF JustificationInv, JustificationTypeOK, VotesInv
  <2>3. Visited = {} <=> V = 0
    BY <2>1, FS_EmptySet
  <2>4. lookups <= V + (IF Visited = {} THEN 0 ELSE k - 1) + (IF refused THEN 1 ELSE 0)
    BY DEF JustificationInv, WorkInv
  <2>5. BenchmarkLookups(p, v) = IF v = 0 THEN 0 ELSE v + p - 1
    <3> HIDE DEF p, v
    <3> QED BY <2>1, SingleForkDepth DEF BenchmarkLookups
  <2> HIDE DEF p, v, V, k, refused
  <2>6. lookups <= (IF v = 0 THEN 0 ELSE v + p - 1) + (IF refused THEN 1 ELSE 0)
    BY <2>1, <2>2, <2>3, <2>4
  <2> QED BY <2>5, <2>6 DEF p, v, refused
<1> QED BY <1>1, JustificationInvariant, PTL

=============================================================================
