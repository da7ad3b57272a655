------------------------- MODULE SweepAggregateProofs -------------------------
(***************************************************************************)
(* Proofs about SweepAggregate: for any catalogue, any cap and any limits  *)
(* of the running set, the snapshot shows the lowest scores, what the      *)
(* sources hold, and counts that add up.                                   *)
(***************************************************************************)
EXTENDS SweepAggregate, FiniteSetTheorems, SequenceTheorems, WellFoundedInduction, TLAPS

------------------------------------------------------------------------------
(* The order of the scores. *)

\* The scores of the positions of a catalogue.
Scored == (1..MaxEntities) \X Scores
Below(x, S) == {y \in S : Before(y, x)}
Rank(x, S) == Cardinality(Below(x, S))

\* Scores sort by score and name: a strict total order.
LEMMA BeforeOrder ==
  ASSUME NEW x \in Scored, NEW y \in Scored, NEW z \in Scored
  PROVE  /\ ~Before(x, x)
         /\ Before(x, y) /\ Before(y, z) => Before(x, z)
         /\ x # y => Before(x, y) \/ Before(y, x)
<1>1. \A u \in Scored : u[1] \in 1..MaxEntities /\ u[2] \in Nat /\ u = <<u[1], u[2]>>
  BY DEF Scored, Scores
<1>2. MaxEntities \in Nat /\ NameRank \in [1..MaxEntities -> 1..MaxEntities]
      /\ \A i, j \in 1..MaxEntities : NameRank[i] = NameRank[j] => i = j
  BY SweepAssumption
<1>3. \A i \in 1..MaxEntities : NameRank[i] \in Nat
  BY <1>2
<1>4. /\ NameRank[x[1]] \in Nat /\ NameRank[y[1]] \in Nat /\ NameRank[z[1]] \in Nat
      /\ NameRank[x[1]] = NameRank[y[1]] => x[1] = y[1]
  BY <1>1, <1>2, <1>3
<1>5. x[1] = y[1] /\ x[2] = y[2] => x = y
  BY <1>1
<1> QED  BY <1>1, <1>4, <1>5 DEF Before

\* The ranks of a finite set of scores are numbers.
LEMMA RankType ==
  ASSUME NEW S, IsFiniteSet(S), NEW x
  PROVE  IsFiniteSet(Below(x, S)) /\ Rank(x, S) \in Nat /\ Rank(x, S) <= Cardinality(S)
<1>1. Below(x, S) \subseteq S
  BY DEF Below
<1> QED  BY <1>1, FS_Subset, FS_CardinalityType DEF Rank

\* What comes before has the lower rank.
LEMMA RankGrows ==
  ASSUME NEW S \in SUBSET Scored, IsFiniteSet(S), NEW x \in S, NEW y \in S, Before(x, y)
  PROVE  Rank(x, S) < Rank(y, S)
<1>1. Below(x, S) \cup {x} \subseteq Below(y, S) /\ x \notin Below(x, S)
  BY BeforeOrder DEF Below
<1>2. Cardinality(Below(x, S) \cup {x}) = Rank(x, S) + 1
  BY <1>1, RankType, FS_AddElement DEF Rank
<1>3. Cardinality(Below(x, S) \cup {x}) <= Rank(y, S)
  BY <1>1, RankType, FS_Subset DEF Rank
<1> QED  BY <1>2, <1>3, RankType

\* The set of the n lowest holds at most n.
LEMMA LowestAtMost ==
  ASSUME NEW S \in SUBSET Scored, IsFiniteSet(S), NEW n \in Nat
  PROVE  IsFiniteSet(Lowest(S, n)) /\ Cardinality(Lowest(S, n)) <= n
<1> DEFINE L == Lowest(S, n)
           f == [x \in L |-> Rank(x, S)]
<1>1. L = {x \in S : Rank(x, S) < n}
  BY DEF Lowest, Rank, Below
<1>2. IsFiniteSet(L) /\ IsFiniteSet(0..(n - 1)) /\ Cardinality(0..(n - 1)) = n
  <2>1. L \subseteq S
    BY <1>1
  <2> QED  BY <2>1, FS_Subset, FS_Interval
<1>3. f \in [L -> 0..(n - 1)]
  BY <1>1, RankType
<1>4. ASSUME NEW x \in L, NEW y \in L, x # y PROVE f[x] # f[y]
  <2>1. Before(x, y) \/ Before(y, x)
    BY <1>1, <1>4, BeforeOrder
  <2> QED  BY <1>1, <2>1, RankGrows, RankType
<1>5. f \in Injection(L, 0..(n - 1))
  BY <1>3, <1>4 DEF Injection, IsInjective
<1> QED  BY <1>2, <1>5, FS_Injection

\* The least number principle.
LEMMA LeastNumber ==
  ASSUME NEW S, S \subseteq Nat, S # {}
  PROVE  \E m \in S : \A k \in S : m <= k
<1> DEFINE R == OpToRel(<, Nat)
<1>1. IsWellFoundedOn(R, Nat)
  BY NatLessThanWellFounded
<1>2. \A x, y \in Nat : <<x, y>> \in R <=> x < y
  BY DEF OpToRel
<1> HIDE DEF R
<1>3. PICK m \in S : \A k \in S : ~ (<<k, m>> \in R)
  BY <1>1, WFMin
<1>4. ASSUME NEW k \in S PROVE m <= k
  <2>1. k \in Nat /\ m \in Nat /\ ~ (<<k, m>> \in R)
    BY <1>3
  <2> QED  BY <1>2, <2>1
<1> QED  BY <1>4

\* It holds n, if there are as many.
LEMMA LowestAtLeast ==
  ASSUME NEW S \in SUBSET Scored, IsFiniteSet(S), NEW n \in Nat, n <= Cardinality(S)
  PROVE  n <= Cardinality(Lowest(S, n))
<1> DEFINE L == Lowest(S, n)
<1>1. L = {x \in S : Rank(x, S) < n}
  BY DEF Lowest, Rank, Below
<1> HIDE DEF L
<1>2. L \subseteq S /\ IsFiniteSet(L) /\ Cardinality(L) \in Nat
  BY <1>1, FS_Subset, FS_CardinalityType
<1> SUFFICES ASSUME Cardinality(L) < n PROVE FALSE
  BY <1>2 DEF L
<1>3. L # S
  BY <1>2, FS_CardinalityType
<1> DEFINE ranks == {Rank(x, S) : x \in S \ L}
<1>4. ranks # {} /\ ranks \subseteq Nat
  BY <1>2, <1>3, RankType
<1>5. PICK m \in S \ L : \A x \in S \ L : Rank(m, S) <= Rank(x, S)
  <2>1. PICK r \in ranks : \A k \in ranks : r <= k
    BY <1>4, LeastNumber
  <2> QED  BY <2>1
<1>6. Below(m, S) \subseteq L
  <2>1. ASSUME NEW y \in Below(m, S), y \notin L PROVE FALSE
    <3>1. y \in S /\ Before(y, m)
      BY DEF Below
    <3>2. Rank(y, S) < Rank(m, S) /\ Rank(m, S) <= Rank(y, S)
      BY <1>5, <2>1, <3>1, RankGrows
    <3> QED  BY <3>2, RankType
  <2> QED  BY <2>1
<1>7. Rank(m, S) <= Cardinality(L)
  BY <1>2, <1>6, FS_Subset DEF Rank
<1>8. Rank(m, S) < n
  BY <1>2, <1>7, RankType
<1> QED  BY <1>1, <1>5, <1>8

\* A score ranks no lower among more of them.
LEMMA RankAmongMore ==
  ASSUME NEW S, NEW T, IsFiniteSet(T), S \subseteq T, NEW x
  PROVE  Rank(x, S) <= Rank(x, T)
<1>1. Below(x, S) \subseteq Below(x, T)
  BY DEF Below
<1> QED  BY <1>1, RankType, FS_Subset DEF Rank

\* Pruning never lets a score among the lowest that was not among them before.
LEMMA PruneKeeps ==
  ASSUME NEW W \in SUBSET Scored, IsFiniteSet(W), NEW n \in Nat, n <= Cardinality(W),
         NEW x \in Scored, x \notin Lowest(W, n), n <= Rank(x, W)
  PROVE  n <= Rank(x, Lowest(W, n))
<1> DEFINE L == Lowest(W, n)
<1>1. L = {z \in W : Rank(z, W) < n}
  BY DEF Lowest, Rank, Below
<1>2. n <= Cardinality(L)
  BY LowestAtLeast
<1> HIDE DEF L
<1>3. ASSUME NEW z \in L, ~Before(z, x) PROVE FALSE
  <2>1. z \in W /\ z \in Scored /\ Rank(z, W) < n /\ z # x
    BY <1>1 DEF L
  <2>2. Before(x, z)
    BY <1>3, <2>1, BeforeOrder
  <2>3. Below(x, W) \subseteq Below(z, W)
    BY <2>1, <2>2, BeforeOrder DEF Below
  <2>4. Rank(x, W) <= Rank(z, W)
    BY <2>3, RankType, FS_Subset DEF Rank
  <2> QED  BY <2>1, <2>4, RankType
<1>4. Below(x, L) = L
  BY <1>3 DEF Below
<1> QED  BY <1>2, <1>4 DEF L, Rank

\* When each score that was dropped ranks beyond the n lowest, these are the lowest of
\* all.
LEMMA LowestOfKept ==
  ASSUME NEW A \in SUBSET Scored, IsFiniteSet(A), NEW W \in SUBSET A,
         NEW n \in Nat, NEW k \in Nat, k <= n,
         \A x \in A \ W : n <= Rank(x, W)
  PROVE  Lowest(W, k) = Lowest(A, k)
<1>1. IsFiniteSet(W)
  BY FS_Subset
<1>2. \A S : Lowest(S, k) = {x \in S : Rank(x, S) < k}
  BY DEF Lowest, Rank, Below
<1>3. ASSUME NEW x \in W, Rank(x, W) < k PROVE Rank(x, A) < k
  <2>1. ASSUME NEW y \in A \ W, Before(y, x) PROVE FALSE
    <3>1. Below(y, W) \subseteq Below(x, W)
      BY <2>1, BeforeOrder DEF Below
    <3>2. Rank(y, W) <= Rank(x, W)
      BY <1>1, <3>1, RankType, FS_Subset DEF Rank
    <3>3. n <= Rank(y, W)
      OBVIOUS
    <3> QED  BY <1>1, <1>3, <3>2, <3>3, RankType
  <2>2. Below(x, A) = Below(x, W)
    BY <2>1 DEF Below
  <2> QED  BY <1>3, <2>2 DEF Rank
<1>4. ASSUME NEW x \in A, Rank(x, A) < k PROVE x \in W /\ Rank(x, W) < k
  <2>1. Rank(x, W) <= Rank(x, A)
    BY RankAmongMore
  <2>2. Rank(x, W) < k
    BY <1>1, <1>4, <2>1, RankType
  <2>3. x \in W
    BY <1>1, <2>2, RankType
  <2> QED  BY <2>2, <2>3
<1> QED  BY <1>2, <1>3, <1>4

------------------------------------------------------------------------------
(* The types. *)

Counts == [termed: Nat, high: Nat, untermed: Nat, shown: Nat, profiled: Nat,
           pending: Nat, verified: Nat, unverified: Nat, datasets: Nat]
Typed == TypeOK /\ assets \in Counts /\ Len(read) <= MaxEntities

\* What one more entity does to the positions.
LEMMA ReadGrows ==
  ASSUME Typed, NEW e \in Entities, ReadEntity(e)
  PROVE  /\ pc = "sweep" /\ capped = FALSE /\ Len(read) \in Nat /\ Len(read) < MaxEntities
         /\ read' \in Seq(Entities) /\ Len(read') = Len(read) + 1
         /\ DOMAIN read = 1..Len(read) /\ DOMAIN read' = 1..(Len(read) + 1)
         /\ read'[Len(read) + 1] = e /\ \A n \in 1..Len(read) : read'[n] = read[n]
<1>1. read \in Seq(Entities) /\ capped \in BOOLEAN
  BY DEF Typed, TypeOK
<1>2. /\ read' \in Seq(Entities) /\ Len(read') = Len(read) + 1
      /\ \A n \in 1..Len(read) : read'[n] = read[n]
      /\ read'[Len(read) + 1] = e
  BY <1>1, AppendProperties DEF ReadEntity
<1>3. Len(read) \in Nat /\ DOMAIN read = 1..Len(read) /\ DOMAIN read' = 1..(Len(read) + 1)
  BY <1>1, <1>2, LenProperties
<1> QED  BY <1>1, <1>2, <1>3 DEF ReadEntity

\* The fields of an entity.
LEMMA EntityFields ==
  ASSUME NEW e \in Entities
  PROVE  /\ e.source \in Sources \cup {NoSource} /\ e.quality \in Scores \cup {NoScore}
         /\ e.trust \in Scores \cup {NoScore} /\ e.profiled \in BOOLEAN
         /\ e.kind \in {"container", "dataset", "column"}
BY SweepAssumption DEF Entity

\* The counters count up by one or none.
LEMMA OneType == \A condition : One(condition) \in {0, 1}
BY DEF One

\* A counted asset leaves counters.
LEMMA CountedType ==
  ASSUME assets \in Counts, NEW e
  PROVE  /\ Counted(e) \in Counts
         /\ Counted(e).profiled = assets.profiled + One(e.profiled)
         /\ Counted(e).pending = assets.pending + One(~e.profiled)
         /\ Counted(e).datasets = assets.datasets + One(InSpectrum(e))
BY OneType DEF Counts, Counted

\* A counted row is a row with one asset more.
LEMMA CountedRowType ==
  ASSUME NEW row \in Rows, NEW e
  PROVE  CountedRow(row, e) \in Rows /\ CountedRow(row, e).assets = row.assets + 1
BY OneType DEF Rows, CountedRow

\* The running set with the score of the next asset.
Grown(e) == worst \cup {<<Len(read) + 1, e.quality>>}

\* Scores of positions of the sweep are finitely many.
LEMMA ScoredFinite ==
  ASSUME NEW n \in Nat, NEW S, S \subseteq (1..n) \X Scores
  PROVE  IsFiniteSet(S)
<1>1. IsFiniteSet(1..n)
  BY FS_Interval
<1>2. IsFiniteSet(Scores)
  <2>1. PICK m \in Nat : m = 1000
    OBVIOUS
  <2>2. Scores = 0..m
    BY <2>1 DEF Scores
  <2>3. IsFiniteSet(0..m)
    BY FS_Interval
  <2> QED  BY <2>2, <2>3
<1>3. IsFiniteSet((1..n) \X Scores)
  BY <1>1, <1>2, FS_Product
<1> QED  BY <1>3, FS_Subset

\* Pruning drops scores, and leaves no more than the limit.
LEMMA PruneBounds ==
  ASSUME NEW S \in SUBSET Scored, IsFiniteSet(S)
  PROVE  Prune(S) \subseteq S /\ Cardinality(Prune(S)) <= WorstLimit
<1>1. WorstKeep \in Nat /\ WorstLimit \in Nat /\ WorstKeep <= WorstLimit
  BY SweepAssumption
<1>2. Cardinality(S) \in Nat
  BY FS_CardinalityType
<1>3. Lowest(S, WorstKeep) \subseteq S /\ Cardinality(Lowest(S, WorstKeep)) <= WorstKeep
      /\ Cardinality(Lowest(S, WorstKeep)) \in Nat
  BY <1>1, LowestAtMost, FS_CardinalityType DEF Lowest
<1> QED  BY <1>1, <1>2, <1>3 DEF Prune

\* The running set stays within the positions of the sweep.
LEMMA GrownType ==
  ASSUME Typed, NEW e \in Entities, ReadEntity(e), e.quality # NoScore
  PROVE  /\ Grown(e) \subseteq (1..(Len(read) + 1)) \X Scores
         /\ Grown(e) \subseteq Scored /\ IsFiniteSet(Grown(e))
<1>1. Len(read) \in Nat /\ Len(read) < MaxEntities /\ MaxEntities \in Nat
  BY ReadGrows, SweepAssumption
<1>2. e.quality \in Scores
  BY EntityFields
<1>3. worst \subseteq (1..Len(read)) \X Scores
  BY DEF Typed, TypeOK
<1>4. 1..Len(read) \subseteq 1..(Len(read) + 1) /\ Len(read) + 1 \in 1..(Len(read) + 1)
      /\ 1..(Len(read) + 1) \subseteq 1..MaxEntities
  BY <1>1
<1>5. Grown(e) \subseteq (1..(Len(read) + 1)) \X Scores
  BY <1>2, <1>3, <1>4 DEF Grown
<1>6. Grown(e) \subseteq Scored
  BY <1>4, <1>5 DEF Scored
<1> QED  BY <1>1, <1>5, <1>6, ScoredFinite

\* Every step keeps the types, and the running set within its limit.
LEMMA NextTyped == Typed /\ [Next]_vars => Typed'
<1> SUFFICES ASSUME Typed, [Next]_vars PROVE Typed'
  OBVIOUS
<1>1. CASE UNCHANGED vars
  BY <1>1 DEF vars, Typed, TypeOK
<1>2. CASE Build
  <2>1. snap'.sources \subseteq Sources
    BY <1>2 DEF Build, Holding
  <2> QED  BY <1>2, <2>1 DEF Build, Typed, TypeOK
<1>3. ASSUME NEW e \in Entities, ReadEntity(e) PROVE Typed'
  <2>1. /\ read' \in Seq(Entities) /\ Len(read') = Len(read) + 1 /\ Len(read') <= MaxEntities
        /\ pc' = pc /\ snap' = snap /\ Len(read) \in Nat
    <3>1. /\ read' \in Seq(Entities) /\ Len(read') = Len(read) + 1 /\ Len(read) < MaxEntities
          /\ Len(read) \in Nat
      BY <1>3, ReadGrows
    <3>2. MaxEntities \in Nat
      BY SweepAssumption
    <3> QED  BY <1>3, <3>1, <3>2 DEF ReadEntity
  <2>2. worst \subseteq (1..Len(read')) \X Scores
    <3>1. 1..Len(read) \subseteq 1..Len(read')
      BY <2>1
    <3> QED  BY <3>1 DEF Typed, TypeOK
  <2>3. CASE Skip(e) \/ Cap(e)
    <3>1. /\ total' = total \/ total' = total + 1
          /\ capped' = capped \/ capped' = TRUE
          /\ UNCHANGED <<assets, trust, per, worst>>
      BY <2>3 DEF Skip, Cap
    <3>2. total' \in Nat
      BY <3>1 DEF Typed, TypeOK
    <3>5. capped' \in BOOLEAN
      BY <3>1 DEF Typed, TypeOK
    <3>3. worst' \subseteq (1..Len(read')) \X Scores /\ Cardinality(worst') <= WorstLimit
      BY <2>2, <3>1 DEF Typed, TypeOK
    <3>4. assets' \in Counts /\ (\A c \in DOMAIN assets' : assets'[c] \in Nat)
          /\ trust' \in [Labels -> Nat] /\ per' \in [Sources -> Rows]
      BY <3>1 DEF Typed, TypeOK
    <3> QED  BY <2>1, <3>2, <3>3, <3>4, <3>5 DEF Typed, TypeOK
  <2>4. CASE Aggregate(e)
    <3>1. /\ total' \in Nat /\ capped' = capped /\ assets' = Counted(e)
          /\ per' = [s \in Sources |-> IF s = e.source THEN CountedRow(per[s], e) ELSE per[s]]
          /\ trust' = [b \in Labels |-> trust[b] + One(e.trust # NoScore /\ InBand(b, e.trust))]
      BY <2>4 DEF Aggregate, Typed, TypeOK
    <3>2. assets' \in Counts /\ \A c \in DOMAIN assets' : assets'[c] \in Nat
      <4>1. assets' \in Counts
        BY <3>1, CountedType DEF Typed
      <4> QED  BY <4>1 DEF Counts
    <3>3. per' \in [Sources -> Rows]
      BY <3>1, CountedRowType DEF Typed, TypeOK
    <3>4. trust' \in [Labels -> Nat]
      BY <3>1, OneType DEF Typed, TypeOK
    <3>5. worst' \subseteq (1..Len(read')) \X Scores /\ Cardinality(worst') <= WorstLimit
      <4>1. CASE e.quality = NoScore
        BY <2>2, <2>4, <4>1 DEF Aggregate, Typed, TypeOK
      <4>2. CASE e.quality # NoScore
        <5>1. worst' = Prune(Grown(e))
          BY <2>4, <4>2 DEF Aggregate, Grown
        <5> QED  BY <1>3, <2>1, <4>2, <5>1, GrownType, PruneBounds
      <4> QED  BY <4>1, <4>2
    <3> QED  BY <2>1, <3>1, <3>2, <3>3, <3>4, <3>5 DEF Typed, TypeOK
  <2> QED  BY <1>3, <2>3, <2>4 DEF ReadEntity
<1> QED  BY <1>1, <1>2, <1>3 DEF Next

\* The sweep starts with nothing counted.
LEMMA InitTyped == Init => Typed
<1> SUFFICES ASSUME Init PROVE Typed
  OBVIOUS
<1>1. read \in Seq(Entities) /\ Len(read) = 0 /\ MaxEntities \in Nat /\ WorstLimit \in Nat
  BY SweepAssumption DEF Init
<1>6. Len(read) <= MaxEntities
  BY <1>1
<1>2. worst \subseteq (1..Len(read)) \X Scores /\ Cardinality(worst) <= WorstLimit
  <2>1. worst = {} /\ Cardinality(worst) = 0
    BY FS_EmptySet DEF Init
  <2> QED  BY <1>1, <2>1
<1>3. assets \in Counts /\ \A c \in DOMAIN assets : assets[c] \in Nat
  BY DEF Init, Counts
<1>4. per \in [Sources -> Rows] /\ trust \in [Labels -> Nat] /\ snap.sources = {}
  BY DEF Init, NoRow, Rows, NoSnap
<1>5. pc = "sweep" /\ total = 0 /\ capped = FALSE
  BY DEF Init
<1> QED  BY <1>1, <1>2, <1>3, <1>4, <1>5, <1>6 DEF Typed, TypeOK

\* The types of the counters, and the limit of the running set.
THEOREM SweepTypeCorrect == Spec => []TypeOK
<1>1. Typed => TypeOK
  BY DEF Typed
<1> QED  BY <1>1, InitTyped, NextTyped, PTL DEF Spec

------------------------------------------------------------------------------
(* What was aggregated. *)

\* One more entity: a container and the asset beyond the cap are not aggregated, and
\* any other is.
LEMMA AggregatedGrows ==
  ASSUME Typed, NEW e \in Entities, ReadEntity(e)
  PROVE  /\ Skip(e) \/ Cap(e) => Aggregated' = Aggregated
         /\ Aggregate(e) => Aggregated' = Aggregated \cup {Len(read) + 1}
         /\ Aggregated \subseteq 1..Len(read)
<1>1. /\ capped = FALSE /\ Len(read) \in Nat /\ Len(read') = Len(read) + 1
      /\ DOMAIN read = 1..Len(read) /\ DOMAIN read' = 1..(Len(read) + 1)
      /\ read'[Len(read) + 1] = e /\ \A n \in 1..Len(read) : read'[n] = read[n]
  BY ReadGrows
<1>2. Aggregated = Assets /\ Assets \subseteq 1..Len(read)
  BY <1>1 DEF Aggregated, Assets
<1>3. e.kind = "container" => Assets' = Assets
  BY <1>1 DEF Assets
<1>4. e.kind # "container" => Assets' = Assets \cup {Len(read) + 1}
  BY <1>1 DEF Assets
<1>5. Len(read) + 1 \notin Assets
  BY <1>1, <1>2
<1>6. ASSUME Skip(e) PROVE Aggregated' = Aggregated
  BY <1>1, <1>2, <1>3, <1>6 DEF Skip, Aggregated
<1>7. ASSUME Cap(e) PROVE Aggregated' = Aggregated
  BY <1>1, <1>2, <1>4, <1>5, <1>7 DEF Cap, Aggregated
<1>8. ASSUME Aggregate(e) PROVE Aggregated' = Aggregated \cup {Len(read) + 1}
  BY <1>1, <1>2, <1>4, <1>8 DEF Aggregate, Aggregated
<1> QED  BY <1>2, <1>6, <1>7, <1>8

\* The positions that were aggregated are finitely many.
LEMMA AggregatedFinite ==
  ASSUME Typed
  PROVE  /\ Aggregated \subseteq 1..Len(read) /\ IsFiniteSet(Aggregated)
         /\ Cardinality(Aggregated) \in Nat /\ Len(read) \in Nat
<1>1. Len(read) \in Nat /\ DOMAIN read = 1..Len(read)
  BY LenProperties DEF Typed, TypeOK
<1>2. Aggregated \subseteq 1..Len(read)
  BY <1>1 DEF Aggregated, Assets
<1>3. IsFiniteSet(1..Len(read))
  BY <1>1, FS_Interval
<1> QED  BY <1>1, <1>2, <1>3, FS_Subset, FS_CardinalityType

\* An aggregated asset adds one to what was aggregated.
LEMMA AggregatedCount ==
  ASSUME Typed, NEW e \in Entities, ReadEntity(e), Aggregate(e)
  PROVE  Cardinality(Aggregated)' = Cardinality(Aggregated) + 1
<1>1. /\ Aggregated' = Aggregated \cup {Len(read) + 1}
      /\ Len(read) + 1 \notin Aggregated
  BY AggregatedGrows, AggregatedFinite
<1>2. Cardinality(Aggregated') = Cardinality(Aggregated) + 1
  BY <1>1, AggregatedFinite, FS_AddElement
<1> QED  BY <1>2

\* The total counts what was aggregated and the asset beyond the cap.
CountsAgree ==
    /\ assets.profiled + assets.pending = Cardinality(Aggregated)
    /\ ~capped => total = Cardinality(Aggregated) /\ total <= SweepMax
    /\ capped => Cardinality(Aggregated) = SweepMax

\* Every step keeps the counts.
LEMMA NextCounted == Typed /\ CountsAgree /\ [Next]_vars => CountsAgree'
<1> SUFFICES ASSUME Typed, CountsAgree, [Next]_vars PROVE CountsAgree'
  OBVIOUS
<1>1. /\ SweepMax \in Nat /\ total \in Nat /\ Cardinality(Aggregated) \in Nat
      /\ assets.profiled \in Nat /\ assets.pending \in Nat
  BY SweepAssumption, AggregatedFinite DEF Typed, TypeOK, Counts
<1>2. CASE UNCHANGED <<read, capped, assets, total>>
  BY <1>2 DEF CountsAgree, Aggregated, Assets
<1>3. ASSUME NEW e \in Entities, ReadEntity(e) PROVE CountsAgree'
  <2>1. capped = FALSE
    BY <1>3, ReadGrows
  <2>2. CASE Skip(e)
    <3>1. Cardinality(Aggregated)' = Cardinality(Aggregated) /\ UNCHANGED <<capped, assets, total>>
      BY <1>3, <2>2, AggregatedGrows DEF Skip
    <3> QED  BY <3>1 DEF CountsAgree
  <2>3. CASE Cap(e)
    <3>1. Cardinality(Aggregated)' = Cardinality(Aggregated) /\ capped' = TRUE /\ assets' = assets
      BY <1>3, <2>3, AggregatedGrows DEF Cap
    <3>2. total + 1 > SweepMax
      BY <2>3 DEF Cap, BeyondCap
    <3>3. Cardinality(Aggregated) = SweepMax
      BY <1>1, <2>1, <3>2 DEF CountsAgree
    <3> QED  BY <3>1, <3>3 DEF CountsAgree
  <2>4. CASE Aggregate(e)
    <3>1. /\ Cardinality(Aggregated)' = Cardinality(Aggregated) + 1 /\ capped' = capped
          /\ total' = total + 1 /\ ~(total + 1 > SweepMax)
      BY <1>3, <2>4, AggregatedCount DEF Aggregate, BeyondCap
    <3>2. /\ assets'.profiled = assets.profiled + One(e.profiled)
          /\ assets'.pending = assets.pending + One(~e.profiled)
      BY <2>4, CountedType DEF Aggregate, Typed
    <3>3. One(e.profiled) + One(~e.profiled) = 1 /\ One(e.profiled) \in Nat /\ One(~e.profiled) \in Nat
      BY EntityFields DEF One
    <3>4. assets'.profiled + assets'.pending = Cardinality(Aggregated) + 1
      BY <1>1, <3>2, <3>3 DEF CountsAgree
    <3> QED  BY <1>1, <2>1, <3>1, <3>4 DEF CountsAgree
  <2> QED  BY <1>3, <2>2, <2>3, <2>4 DEF ReadEntity
<1> QED  BY <1>2, <1>3 DEF Next, Build, vars

\* Nothing was aggregated to begin with.
LEMMA InitAggregated == Init => Aggregated = {} /\ Cardinality(Aggregated) = 0
<1> SUFFICES ASSUME Init PROVE Aggregated = {}
  BY FS_EmptySet
<1>1. read = <<>> /\ capped = FALSE
  BY DEF Init
<1> QED  BY <1>1 DEF Aggregated, Assets

\* For any cap and catalogue: a sweep that stops at the cap aggregated just as many
\* assets as the cap says, each of them profiled or pending.
THEOREM AlwaysCapExact == Spec => []CapExact
<1>1. Init => CountsAgree
  BY InitAggregated, SweepAssumption DEF Init, CountsAgree
<1>2. CountsAgree => CapExact
  BY DEF CountsAgree, CapExact
<1> QED  BY <1>1, <1>2, InitTyped, NextTyped, NextCounted, PTL DEF Spec

------------------------------------------------------------------------------
(* The lowest scores. *)

\* All the scores of the sweep.
AllScores ==
    {<<n, read[n].quality>> : n \in Aggregated} \ {<<n, NoScore>> : n \in Aggregated}

\* Whatever was dropped from the running set ranks beyond what is kept.
KeepsLowest ==
    /\ worst \subseteq AllScores
    /\ \A x \in AllScores \ worst : WorstKeep <= Rank(x, worst)
ShowsLowest == pc = "built" => snap.worst = Lowest(AllScores, WorstShown)

\* The scores are of positions of the catalogue.
LEMMA AllScoresType ==
  ASSUME Typed
  PROVE  AllScores \subseteq Scored /\ IsFiniteSet(AllScores)
<1>1. /\ Aggregated \subseteq 1..Len(read) /\ Len(read) \in Nat /\ Len(read) <= MaxEntities
      /\ MaxEntities \in Nat
  BY AggregatedFinite, SweepAssumption DEF Typed
<1>2. \A n \in 1..Len(read) : read[n].quality \in Scores \cup {NoScore}
  <2>1. \A n \in 1..Len(read) : read[n] \in Entities
    BY ElementOfSeq DEF Typed, TypeOK
  <2> QED  BY <2>1, EntityFields
<1>3. AllScores \subseteq (1..Len(read)) \X Scores
  BY <1>1, <1>2 DEF AllScores
<1>4. 1..Len(read) \subseteq 1..MaxEntities
  BY <1>1
<1> QED  BY <1>1, <1>3, <1>4, ScoredFinite DEF Scored

\* What one more entity adds to the scores.
LEMMA AllScoresGrow ==
  ASSUME Typed, NEW e \in Entities, ReadEntity(e)
  PROVE  /\ Skip(e) \/ Cap(e) => AllScores' = AllScores
         /\ Aggregate(e) /\ e.quality = NoScore => AllScores' = AllScores
         /\ Aggregate(e) /\ e.quality # NoScore =>
              AllScores' = AllScores \cup {<<Len(read) + 1, e.quality>>}
<1>1. /\ Aggregated \subseteq 1..Len(read) /\ Len(read) \in Nat
      /\ read'[Len(read) + 1] = e /\ \A n \in 1..Len(read) : read'[n] = read[n]
  BY AggregatedGrows, ReadGrows
<1>2. \A n \in Aggregated : read'[n] = read[n] /\ n # Len(read) + 1
  BY <1>1
<1>3. ASSUME Aggregated' = Aggregated PROVE AllScores' = AllScores
  BY <1>2, <1>3 DEF AllScores
<1>4. ASSUME Aggregate(e)
      PROVE  AllScores' = ({<<n, read[n].quality>> : n \in Aggregated} \cup {<<Len(read) + 1, e.quality>>})
                            \ ({<<n, NoScore>> : n \in Aggregated} \cup {<<Len(read) + 1, NoScore>>})
  <2>1. Aggregated' = Aggregated \cup {Len(read) + 1}
    BY <1>4, AggregatedGrows
  <2>2. {<<n, read[n].quality>> : n \in Aggregated}'
          = {<<n, read[n].quality>> : n \in Aggregated} \cup {<<Len(read) + 1, e.quality>>}
    BY <1>1, <1>2, <2>1
  <2>3. {<<n, NoScore>> : n \in Aggregated}'
          = {<<n, NoScore>> : n \in Aggregated} \cup {<<Len(read) + 1, NoScore>>}
    BY <2>1
  <2> QED  BY <2>2, <2>3 DEF AllScores
<1>5. <<Len(read) + 1, NoScore>> \notin {<<n, read[n].quality>> : n \in Aggregated}
  BY <1>2
<1>6. <<Len(read) + 1, e.quality>> \notin {<<n, NoScore>> : n \in Aggregated}
  BY <1>2
<1>7. ASSUME Aggregate(e), e.quality = NoScore PROVE AllScores' = AllScores
  BY <1>4, <1>5, <1>7 DEF AllScores
<1>8. ASSUME Aggregate(e), e.quality # NoScore
      PROVE  AllScores' = AllScores \cup {<<Len(read) + 1, e.quality>>}
  BY <1>4, <1>5, <1>6, <1>8 DEF AllScores
<1> QED  BY <1>3, <1>7, <1>8, AggregatedGrows

\* Every step keeps the lowest scores.
LEMMA NextKeepsLowest ==
  Typed /\ KeepsLowest /\ ShowsLowest /\ [Next]_vars => KeepsLowest' /\ ShowsLowest'
<1> SUFFICES ASSUME Typed, KeepsLowest, ShowsLowest, [Next]_vars
             PROVE  KeepsLowest' /\ ShowsLowest'
  OBVIOUS
<1>1. /\ AllScores \subseteq Scored /\ IsFiniteSet(AllScores) /\ worst \subseteq AllScores
      /\ WorstKeep \in Nat /\ WorstShown \in Nat /\ WorstLimit \in Nat
      /\ WorstShown <= WorstKeep /\ WorstKeep <= WorstLimit
      /\ Typed'
  BY AllScoresType, NextTyped, SweepAssumption DEF KeepsLowest
<1>2. CASE UNCHANGED vars
  BY <1>2 DEF vars, KeepsLowest, ShowsLowest, AllScores, Aggregated, Assets
<1>3. CASE Build
  <2>1. UNCHANGED <<read, capped, worst>> /\ snap'.worst = Lowest(worst, WorstShown)
    BY <1>3 DEF Build
  <2>2. AllScores' = AllScores
    BY <2>1 DEF AllScores, Aggregated, Assets
  <2>3. Lowest(worst, WorstShown) = Lowest(AllScores, WorstShown)
    BY <1>1, LowestOfKept DEF KeepsLowest
  <2>4. snap'.worst = Lowest(AllScores', WorstShown)
    BY <2>1, <2>2, <2>3
  <2> QED  BY <2>1, <2>2, <2>4 DEF KeepsLowest, ShowsLowest
<1>4. ASSUME NEW e \in Entities, ReadEntity(e) PROVE KeepsLowest' /\ ShowsLowest'
  <2>1. ShowsLowest'
    BY <1>4 DEF ReadEntity, ShowsLowest
  <2>2. CASE AllScores' = AllScores /\ worst' = worst
    BY <2>1, <2>2 DEF KeepsLowest
  <2>3. CASE Aggregate(e) /\ e.quality # NoScore
    <3> DEFINE W == Grown(e)
               new == <<Len(read) + 1, e.quality>>
    <3>1. AllScores' = AllScores \cup {new} /\ W = worst \cup {new} /\ worst' = Prune(W)
      BY <1>4, <2>3, AllScoresGrow DEF Aggregate, Grown
    <3>2. AllScores' \subseteq Scored /\ W \subseteq AllScores' /\ W \subseteq Scored
          /\ IsFiniteSet(W) /\ Cardinality(W) \in Nat
      BY <1>1, <1>4, <2>3, <3>1, AllScoresType, GrownType, FS_CardinalityType
    <3> HIDE DEF W, new
    <3>3. IsFiniteSet(worst) /\ worst \subseteq W
      BY <1>1, <3>1, FS_Subset
    <3>4. ASSUME NEW x \in AllScores' \ W PROVE WorstKeep <= Rank(x, W)
      <4>1. x \in AllScores \ worst
        BY <3>1
      <4>2. WorstKeep <= Rank(x, worst) /\ Rank(x, worst) <= Rank(x, W)
        BY <3>2, <3>3, <4>1, RankAmongMore DEF KeepsLowest
      <4> QED  BY <1>1, <3>2, <3>3, <4>2, RankType
    <3>5. CASE Cardinality(W) > WorstLimit
      <4>1. worst' = Lowest(W, WorstKeep) /\ WorstKeep <= Cardinality(W)
        BY <1>1, <3>1, <3>2, <3>5 DEF Prune
      <4>2. Lowest(W, WorstKeep) = {x \in W : Rank(x, W) < WorstKeep}
        BY DEF Lowest, Rank, Below
      <4>3. ASSUME NEW x \in AllScores', x \notin worst' PROVE WorstKeep <= Rank(x, worst')
        <5>1. WorstKeep <= Rank(x, W)
          BY <1>1, <3>2, <3>4, <4>1, <4>2, <4>3, RankType
        <5> QED  BY <1>1, <3>2, <4>1, <4>3, <5>1, PruneKeeps
      <4>4. worst' \subseteq AllScores'
        BY <3>2, <4>1, <4>2
      <4>5. KeepsLowest'
        BY <4>3, <4>4 DEF KeepsLowest, Rank, Below, Before
      <4> QED  BY <2>1, <4>5
    <3>6. CASE ~(Cardinality(W) > WorstLimit)
      <4>1. worst' = W
        BY <3>1, <3>6 DEF Prune
      <4>2. KeepsLowest'
        BY <3>2, <3>4, <4>1 DEF KeepsLowest, Rank, Below, Before
      <4> QED  BY <2>1, <4>2
    <3> QED  BY <3>5, <3>6
  <2>4. Skip(e) \/ Cap(e) \/ (Aggregate(e) /\ e.quality = NoScore) => AllScores' = AllScores /\ worst' = worst
    BY <1>4, AllScoresGrow DEF Skip, Cap, Aggregate
  <2> QED  BY <1>4, <2>2, <2>3, <2>4 DEF ReadEntity
<1> QED  BY <1>2, <1>3, <1>4 DEF Next

\* For any catalogue and any limits: the lowest scores shown are the lowest of all
\* the scores, however often the running set was pruned.
THEOREM AlwaysWorstExact == Spec => []WorstExact
<1>1. Init => KeepsLowest /\ ShowsLowest
  <2> SUFFICES ASSUME Init PROVE KeepsLowest /\ ShowsLowest
    OBVIOUS
  <2>1. AllScores = {} /\ worst = {} /\ pc = "sweep"
    BY InitAggregated DEF AllScores, Init
  <2> QED  BY <2>1 DEF KeepsLowest, ShowsLowest
<1>2. ShowsLowest => WorstExact
  BY DEF ShowsLowest, AllScores, WorstExact
<1> QED  BY <1>1, <1>2, InitTyped, NextTyped, NextKeepsLowest, PTL DEF Spec

------------------------------------------------------------------------------
(* Sums over a set. *)

Pick(S) == CHOOSE x \in S : TRUE

\* The assets of the parts of X.
Union(parts, X) == UNION {parts[d] : d \in X}

\* f sums the sizes of the parts of a subset of D, one after the other.
Sums(f, parts, D) ==
    /\ f = [S \in SUBSET D |-> f[S]]
    /\ \A S \in SUBSET D :
         f[S] = IF S = {} THEN 0 ELSE Cardinality(parts[Pick(S)]) + f[S \ {Pick(S)}]
Disjoint(parts, D) == \A d, c \in D : d # c => parts[d] \cap parts[c] = {}

\* Disjoint parts, one more of them: the assets add up.
LEMMA UnionGrows ==
  ASSUME NEW A, IsFiniteSet(A), NEW D, NEW parts \in [D -> SUBSET A],
         Disjoint(parts, D),
         NEW X \in SUBSET D, NEW x \in X
  PROVE  Cardinality(Union(parts, X)) = Cardinality(parts[x]) + Cardinality(Union(parts, X \ {x}))
<1> DEFINE U == Union(parts, X \ {x})
<1>1. Union(parts, X) = parts[x] \cup U /\ U \subseteq A /\ parts[x] \subseteq A
  BY DEF Union
<1>2. parts[x] \cap U = {}
  BY DEF Union, Disjoint
<1>3. IsFiniteSet(U) /\ IsFiniteSet(parts[x]) /\ Cardinality(U) \in Nat /\ Cardinality(parts[x]) \in Nat
  BY <1>1, FS_Subset, FS_CardinalityType
<1>4. Cardinality(parts[x] \cup U)
        = Cardinality(parts[x]) + Cardinality(U) - Cardinality(parts[x] \cap U)
  BY <1>3, FS_Union
<1>5. Cardinality(parts[x] \cap U) = 0
  BY <1>2, FS_EmptySet
<1>6. Cardinality(Union(parts, X)) = Cardinality(parts[x] \cup U)
  BY <1>1
<1> HIDE DEF U
<1>7. Cardinality(parts[x] \cup U) = Cardinality(parts[x]) + Cardinality(U)
  BY <1>3, <1>4, <1>5
<1> QED  BY <1>6, <1>7 DEF U

\* A sum over a finite set, taken one element after the other, of the sizes of disjoint
\* parts is the size of their union.
LEMMA SumOfParts ==
  ASSUME NEW A, IsFiniteSet(A), NEW D, IsFiniteSet(D), NEW parts \in [D -> SUBSET A],
         Disjoint(parts, D),
         NEW f, Sums(f, parts, D)
  PROVE  f[D] = Cardinality(Union(parts, D))
<1> DEFINE wrong == {S \in SUBSET D : f[S] # Cardinality(Union(parts, S))}
           sizes == {Cardinality(S) : S \in wrong}
<1> SUFFICES ASSUME wrong # {} PROVE FALSE
  OBVIOUS
<1>1. \A S \in SUBSET D : IsFiniteSet(S) /\ Cardinality(S) \in Nat
  BY FS_Subset, FS_CardinalityType
<1>2. sizes # {} /\ sizes \subseteq Nat
  BY <1>1
<1>3. PICK S \in wrong : \A T \in wrong : Cardinality(S) <= Cardinality(T)
  <2>1. PICK m \in sizes : \A k \in sizes : m <= k
    BY <1>2, LeastNumber
  <2> QED  BY <2>1
<1>4. S # {}
  <2>1. ASSUME S = {} PROVE FALSE
    <3>1. Union(parts, S) = {} /\ f[S] = 0
      BY <2>1 DEF Union, Sums
    <3> QED  BY <1>3, <3>1, FS_EmptySet
  <2> QED  BY <2>1
<1> DEFINE x == Pick(S)
           T == S \ {x}
<1>5. x \in S /\ S \in SUBSET D /\ T \in SUBSET D
  BY <1>4 DEF Pick
<1>6. Cardinality(T) = Cardinality(S) - 1 /\ Cardinality(S) \in Nat
  BY <1>1, <1>5, FS_RemoveElement
<1>7. f[T] = Cardinality(Union(parts, T))
  <2>1. T \notin wrong
    BY <1>3, <1>6
  <2> QED  BY <1>5, <2>1
<1>8. f[S] = Cardinality(parts[x]) + f[T]
  BY <1>4, <1>5 DEF Sums
<1>9. Cardinality(Union(parts, S)) = Cardinality(parts[x]) + Cardinality(Union(parts, T))
  BY <1>5, UnionGrows
<1> QED  BY <1>3, <1>7, <1>8, <1>9

\* Such a sum can be taken.
LEMMA SumExists ==
  ASSUME NEW A, IsFiniteSet(A), NEW D, NEW parts \in [D -> SUBSET A],
         Disjoint(parts, D)
  PROVE  \E f : Sums(f, parts, D)
<1> DEFINE g == [S \in SUBSET D |-> Cardinality(Union(parts, S))]
<1>1. ASSUME NEW S \in SUBSET D
      PROVE  g[S] = IF S = {} THEN 0 ELSE Cardinality(parts[Pick(S)]) + g[S \ {Pick(S)}]
  <2>1. CASE S = {}
    <3>1. Union(parts, S) = {}
      BY <2>1 DEF Union
    <3> QED  BY <2>1, <3>1, FS_EmptySet
  <2>2. CASE S # {}
    <3>1. Pick(S) \in S /\ S \ {Pick(S)} \in SUBSET D
      BY <2>2 DEF Pick
    <3>2. Cardinality(Union(parts, S))
            = Cardinality(parts[Pick(S)]) + Cardinality(Union(parts, S \ {Pick(S)}))
      BY <3>1, UnionGrows
    <3> QED  BY <2>2, <3>1, <3>2
  <2> QED  BY <2>1, <2>2
<1>2. g = [S \in SUBSET D |-> g[S]]
  OBVIOUS
<1> HIDE DEF g
<1> QED  BY <1>1, <1>2 DEF Sums

------------------------------------------------------------------------------
(* The source rows and the trust bands. *)

\* The positions of the aggregated entities that are in Q.
Where(Q) == {n \in Aggregated : read[n] \in Q}

OfSource(s) == {e \in Entities : e.source = s}
OfBand(b) == {e \in Entities : e.trust # NoScore /\ InBand(b, e.trust)}
OfSpectrum == {e \in Entities : InSpectrum(e)}

\* Each counter counts the aggregated entities it is for, and the sources shown are
\* those of the rows.
PartsCounted ==
    /\ \A s \in Sources : per[s].assets = Cardinality(Where(OfSource(s)))
    /\ \A b \in Labels : trust[b] = Cardinality(Where(OfBand(b)))
    /\ assets.datasets = Cardinality(Where(OfSpectrum))
    /\ pc = "built" => snap.sources = IF Holding # {} THEN Holding ELSE Sources

\* They are finitely many.
LEMMA WhereFinite ==
  ASSUME Typed, NEW Q
  PROVE  /\ Where(Q) \subseteq Aggregated /\ IsFiniteSet(Where(Q))
         /\ Cardinality(Where(Q)) \in Nat
BY AggregatedFinite, FS_Subset, FS_CardinalityType DEF Where

\* One more entity counts once, where it belongs, if it is aggregated.
LEMMA WhereGrows ==
  ASSUME Typed, NEW e \in Entities, ReadEntity(e), NEW CONSTANT Q
  PROVE  /\ Skip(e) \/ Cap(e) => Cardinality(Where(Q))' = Cardinality(Where(Q))
         /\ Aggregate(e) => Cardinality(Where(Q))' = Cardinality(Where(Q)) + One(e \in Q)
<1>1. /\ Aggregated \subseteq 1..Len(read) /\ Len(read) \in Nat
      /\ read'[Len(read) + 1] = e /\ \A n \in 1..Len(read) : read'[n] = read[n]
  BY AggregatedGrows, ReadGrows
<1>2. \A n \in Aggregated : read'[n] = read[n] /\ n # Len(read) + 1
  BY <1>1
<1>3. ASSUME Skip(e) \/ Cap(e) PROVE Cardinality(Where(Q))' = Cardinality(Where(Q))
  <2>1. Aggregated' = Aggregated
    BY <1>3, AggregatedGrows
  <2>2. Where(Q)' = Where(Q)
    BY <1>2, <2>1 DEF Where
  <2> QED  BY <2>2
<1>4. ASSUME Aggregate(e) PROVE Cardinality(Where(Q))' = Cardinality(Where(Q)) + One(e \in Q)
  <2>1. Aggregated' = Aggregated \cup {Len(read) + 1}
    BY <1>4, AggregatedGrows
  <2>2. CASE e \in Q
    <3>1. Where(Q)' = Where(Q) \cup {Len(read) + 1}
      BY <1>1, <1>2, <2>1, <2>2 DEF Where
    <3>2. Len(read) + 1 \notin Where(Q)
      BY <1>2 DEF Where
    <3>3. Cardinality(Where(Q) \cup {Len(read) + 1}) = Cardinality(Where(Q)) + 1
      BY <3>2, WhereFinite, FS_AddElement
    <3> QED  BY <2>2, <3>1, <3>3 DEF One
  <2>3. CASE e \notin Q
    <3>1. Where(Q)' = Where(Q)
      BY <1>1, <1>2, <2>1, <2>3 DEF Where
    <3>2. Cardinality(Where(Q)) \in Nat
      BY WhereFinite
    <3> QED  BY <2>3, <3>1, <3>2 DEF One
  <2> QED  BY <2>2, <2>3
<1> QED  BY <1>3, <1>4

\* Every step keeps what the counters count.
LEMMA NextParts == Typed /\ PartsCounted /\ [Next]_vars => PartsCounted'
<1> SUFFICES ASSUME Typed, PartsCounted, [Next]_vars PROVE PartsCounted'
  OBVIOUS
<1>1. CASE UNCHANGED vars
  BY <1>1 DEF vars, PartsCounted, Where, Aggregated, Assets, Holding
<1>2. CASE Build
  <2>1. UNCHANGED <<read, capped, per, trust, assets>>
    BY <1>2 DEF Build
  <2>2. snap'.sources = IF Holding # {} THEN Holding ELSE Sources
    BY <1>2 DEF Build
  <2>3. Aggregated' = Aggregated /\ Holding' = Holding
    BY <2>1 DEF Aggregated, Assets, Holding
  <2> QED  BY <2>1, <2>2, <2>3 DEF PartsCounted, Where
<1>3. ASSUME NEW e \in Entities, ReadEntity(e) PROVE PartsCounted'
  <2>0. pc' = "sweep"
    BY <1>3 DEF ReadEntity
  <2>1. CASE Skip(e) \/ Cap(e)
    <3>1. UNCHANGED <<per, trust, assets>>
      BY <2>1 DEF Skip, Cap
    <3>2. \A s \in Sources : Cardinality(Where(OfSource(s)))' = Cardinality(Where(OfSource(s)))
      BY <1>3, <2>1, WhereGrows
    <3>3. \A b \in Labels : Cardinality(Where(OfBand(b)))' = Cardinality(Where(OfBand(b)))
      BY <1>3, <2>1, WhereGrows
    <3>4. Cardinality(Where(OfSpectrum))' = Cardinality(Where(OfSpectrum))
      BY <1>3, <2>1, WhereGrows
    <3> QED  BY <2>0, <3>1, <3>2, <3>3, <3>4 DEF PartsCounted
  <2>2. CASE Aggregate(e)
    <3>1. /\ assets' = Counted(e)
          /\ per' = [s \in Sources |-> IF s = e.source THEN CountedRow(per[s], e) ELSE per[s]]
          /\ trust' = [b \in Labels |-> trust[b] + One(e.trust # NoScore /\ InBand(b, e.trust))]
      BY <2>2 DEF Aggregate
    <3>2. ASSUME NEW s \in Sources PROVE per'[s].assets = Cardinality(Where(OfSource(s)))'
      <4>1. Cardinality(Where(OfSource(s)))' = Cardinality(Where(OfSource(s))) + One(e \in OfSource(s))
        BY <1>3, <2>2, WhereGrows
      <4>2. per[s] \in Rows /\ per[s].assets = Cardinality(Where(OfSource(s)))
        BY DEF PartsCounted, Typed, TypeOK
      <4>3. CASE s = e.source
        BY <3>1, <4>1, <4>2, <4>3, CountedRowType DEF OfSource, One
      <4>4. CASE s # e.source
        <5>1. per'[s] = per[s] /\ One(e \in OfSource(s)) = 0
          BY <3>1, <4>4 DEF OfSource, One
        <5>2. Cardinality(Where(OfSource(s))) \in Nat
          BY WhereFinite
        <5> QED  BY <4>1, <4>2, <5>1, <5>2
      <4> QED  BY <4>3, <4>4
    <3>3. ASSUME NEW b \in Labels PROVE trust'[b] = Cardinality(Where(OfBand(b)))'
      <4>1. Cardinality(Where(OfBand(b)))' = Cardinality(Where(OfBand(b))) + One(e \in OfBand(b))
        BY <1>3, <2>2, WhereGrows
      <4>2. trust'[b] = trust[b] + One(e.trust # NoScore /\ InBand(b, e.trust))
        BY <3>1
      <4>3. e \in OfBand(b) <=> e.trust # NoScore /\ InBand(b, e.trust)
        BY DEF OfBand
      <4> QED  BY <4>1, <4>2, <4>3 DEF PartsCounted, One
    <3>4. assets'.datasets = Cardinality(Where(OfSpectrum))'
      <4>1. Cardinality(Where(OfSpectrum))' = Cardinality(Where(OfSpectrum)) + One(e \in OfSpectrum)
        BY <1>3, <2>2, WhereGrows
      <4>2. assets'.datasets = assets.datasets + One(InSpectrum(e))
        BY <3>1, CountedType DEF Typed
      <4>3. e \in OfSpectrum <=> InSpectrum(e)
        BY DEF OfSpectrum
      <4> QED  BY <4>1, <4>2, <4>3 DEF PartsCounted, One
    <3> QED  BY <2>0, <3>2, <3>3, <3>4 DEF PartsCounted
  <2> QED  BY <1>3, <2>1, <2>2 DEF ReadEntity
<1> QED  BY <1>1, <1>2, <1>3 DEF Next

\* Nothing was counted to begin with.
LEMMA InitParts == Init => PartsCounted
<1> SUFFICES ASSUME Init PROVE PartsCounted
  OBVIOUS
<1>1. \A Q : Where(Q) = {} /\ Cardinality(Where(Q)) = 0
  BY InitAggregated, FS_EmptySet DEF Where
<1>2. /\ \A s \in Sources : per[s].assets = 0
      /\ \A b \in Labels : trust[b] = 0
      /\ assets.datasets = 0 /\ pc = "sweep"
  BY DEF Init, NoRow
<1> QED  BY <1>1, <1>2 DEF PartsCounted

\* The sources shown, and the assets of no listed source, make up what was aggregated.
LEMMA SourcesMakeTotal == Typed /\ PartsCounted => SourcesAddUp
<1> SUFFICES ASSUME Typed, PartsCounted, pc = "built" PROVE SourcesAddUp
  BY DEF SourcesAddUp
<1> DEFINE D == snap.sources
           parts == [s \in D |-> Where(OfSource(s))]
           shown == Union(parts, D)
           unlisted == {n \in Aggregated : read[n].source = NoSource}
<1>1. /\ D \subseteq Sources /\ IsFiniteSet(D)
      /\ D = IF Holding # {} THEN Holding ELSE Sources
  BY SweepAssumption, FS_Subset DEF Typed, TypeOK, PartsCounted
<1>2. IsFiniteSet(Aggregated) /\ parts \in [D -> SUBSET Aggregated]
  BY AggregatedFinite, WhereFinite
<1>3. Disjoint(parts, D)
  BY DEF Disjoint, Where, OfSource
<1>4. \A s \in D : per[s].assets = Cardinality(parts[s])
  BY <1>1 DEF PartsCounted
<1>5. MapThenSumSet(LAMBDA s : per[s].assets, D) = Cardinality(shown)
  <2> HIDE DEF parts, D
  <2>1. PICK g : Sums(g, parts, D)
    BY <1>2, <1>3, SumExists
  <2>2. \A S \in SUBSET D : S # {} => Pick(S) \in D
    BY DEF Pick
  <2>3. g = [S \in SUBSET D |-> IF S = {} THEN 0 ELSE per[Pick(S)].assets + g[S \ {Pick(S)}]]
    BY <1>4, <2>1, <2>2 DEF Sums
  <2>4. PICK f : /\ f = [S \in SUBSET D |-> IF S = {} THEN 0
                                            ELSE per[Pick(S)].assets + f[S \ {Pick(S)}]]
                 /\ f[D] = MapThenSumSet(LAMBDA s : per[s].assets, D)
    BY <2>3 DEF MapThenSumSet, MapThenFoldSet, Pick
  <2>5. Sums(f, parts, D)
    BY <1>4, <2>2, <2>4 DEF Sums
  <2>6. f[D] = Cardinality(Union(parts, D))
    BY <1>1, <1>2, <1>3, <2>5, SumOfParts
  <2> QED  BY <2>4, <2>6
<1>6. \A n \in Aggregated : read[n] \in Entities /\ read[n].source \in Sources \cup {NoSource}
  <2>1. \A n \in 1..Len(read) : read[n] \in Entities
    BY ElementOfSeq DEF Typed, TypeOK
  <2> QED  BY <2>1, AggregatedFinite, EntityFields
<1>7. ASSUME NEW n \in Aggregated, read[n].source # NoSource PROVE read[n].source \in D
  <2> DEFINE s == read[n].source
  <2>1. s \in Sources /\ n \in Where(OfSource(s))
    BY <1>6, <1>7 DEF Where, OfSource
  <2>2. per[s].assets > 0
    <3>1. per[s].assets = Cardinality(Where(OfSource(s))) /\ Cardinality(Where(OfSource(s))) \in Nat
          /\ IsFiniteSet(Where(OfSource(s)))
      BY <2>1, WhereFinite DEF PartsCounted
    <3>2. Cardinality(Where(OfSource(s))) # 0
      BY <2>1, <3>1, FS_EmptySet
    <3> QED  BY <3>1, <3>2
  <2> QED  BY <1>1, <2>1, <2>2 DEF Holding
<1>12. \A n : n \in shown <=> \E s \in D : n \in Where(OfSource(s))
  BY DEF Union
<1>8. Aggregated = shown \cup unlisted
  <2>1. ASSUME NEW n \in Aggregated, read[n].source # NoSource PROVE n \in shown
    <3>1. read[n].source \in D /\ n \in Where(OfSource(read[n].source))
      BY <1>6, <1>7, <2>1 DEF Where, OfSource
    <3> HIDE DEF D, shown
    <3> QED  BY <1>12, <3>1
  <2>2. ASSUME NEW n \in shown PROVE n \in Aggregated
    BY <1>12 DEF Where
  <2> HIDE DEF shown
  <2> QED  BY <2>1, <2>2
<1>9. shown \cap unlisted = {}
  <2>1. ASSUME NEW n \in shown, n \in unlisted PROVE FALSE
    <3>1. PICK s \in D : n \in Where(OfSource(s))
      BY <1>12
    <3>2. read[n].source = s /\ s \in Sources
      BY <1>1, <3>1 DEF Where, OfSource
    <3> QED  BY <2>1, <3>2, SweepAssumption
  <2> QED  BY <2>1
<1>10. IsFiniteSet(shown) /\ IsFiniteSet(unlisted)
       /\ Cardinality(shown) \in Nat /\ Cardinality(unlisted) \in Nat
  BY <1>2, <1>8, FS_Subset, FS_CardinalityType
<1> HIDE DEF shown, unlisted
<1>11. Cardinality(Aggregated) = Cardinality(shown) + Cardinality(unlisted)
  <2>1. Cardinality(shown \cup unlisted)
          = Cardinality(shown) + Cardinality(unlisted) - Cardinality(shown \cap unlisted)
    BY <1>10, FS_Union
  <2>2. Cardinality(shown \cap unlisted) = 0
    BY <1>9, FS_EmptySet
  <2> QED  BY <1>8, <1>10, <2>1, <2>2
<1> QED  BY <1>5, <1>11 DEF SourcesAddUp, unlisted

\* For any catalogue: the sources that are shown, with the assets of no listed source,
\* make up all that the sweep aggregated; no source that is dropped held anything.
THEOREM AlwaysSourcesAddUp == Spec => []SourcesAddUp
BY InitTyped, NextTyped, InitParts, NextParts, SourcesMakeTotal, PTL DEF Spec

\* The bands are those of scored datasets and columns, each in one band at most.
LEMMA BandsFit == Typed /\ PartsCounted => BandsWithinDatasets
<1> SUFFICES ASSUME Typed, PartsCounted PROVE BandsWithinDatasets
  OBVIOUS
<1> DEFINE D == Labels
           parts == [b \in D |-> Where(OfBand(b))]
<1>1. Labels = {"Untrusted", "Trusted", "Highly"} /\ IsFiniteSet(D)
  <2>1. Labels = {"Untrusted", "Trusted", "Highly"}
    BY DEF Labels, Bands
  <2>2. IsFiniteSet({"Untrusted"}) /\ IsFiniteSet({"Trusted"}) /\ IsFiniteSet({"Highly"})
    BY FS_Singleton
  <2>3. IsFiniteSet({"Untrusted"} \cup {"Trusted"})
    BY <2>2, FS_Union
  <2>4. IsFiniteSet({"Untrusted"} \cup {"Trusted"} \cup {"Highly"})
    BY <2>2, <2>3, FS_Union
  <2>5. {"Untrusted", "Trusted", "Highly"} = {"Untrusted"} \cup {"Trusted"} \cup {"Highly"}
    OBVIOUS
  <2> QED  BY <2>1, <2>4, <2>5
<1>2. IsFiniteSet(Aggregated) /\ parts \in [D -> SUBSET Aggregated]
  BY AggregatedFinite, WhereFinite
<1>3. Disjoint(parts, D)
  <2> SUFFICES ASSUME NEW d \in D, NEW c \in D, d # c PROVE parts[d] \cap parts[c] = {}
    BY DEF Disjoint
  <2>1. ASSUME NEW e \in Entities, e \in OfBand(d), e \in OfBand(c) PROVE FALSE
    <3>1. e.trust \in Nat
      BY <2>1, EntityFields DEF OfBand, Scores
    <3>2. InBand(d, e.trust) /\ InBand(c, e.trust)
      BY <2>1 DEF OfBand
    <3> QED  BY <1>1, <3>1, <3>2 DEF InBand, Bands
  <2> QED  BY <2>1 DEF Where, OfBand
<1>4. \A b \in D : trust[b] = Cardinality(parts[b])
  BY DEF PartsCounted
<1>5. MapThenSumSet(LAMBDA b : trust[b], D) = Cardinality(Union(parts, D))
  <2> HIDE DEF parts, D
  <2>1. PICK g : Sums(g, parts, D)
    BY <1>2, <1>3, SumExists
  <2>2. \A S \in SUBSET D : S # {} => Pick(S) \in D
    BY DEF Pick
  <2>3. g = [S \in SUBSET D |-> IF S = {} THEN 0 ELSE trust[Pick(S)] + g[S \ {Pick(S)}]]
    BY <1>4, <2>1, <2>2 DEF Sums
  <2>4. PICK f : /\ f = [S \in SUBSET D |-> IF S = {} THEN 0
                                            ELSE trust[Pick(S)] + f[S \ {Pick(S)}]]
                 /\ f[D] = MapThenSumSet(LAMBDA b : trust[b], D)
    BY <2>3 DEF MapThenSumSet, MapThenFoldSet, Pick
  <2>5. Sums(f, parts, D)
    BY <1>4, <2>2, <2>4 DEF Sums
  <2>6. f[D] = Cardinality(Union(parts, D))
    BY <1>1, <1>2, <1>3, <2>5, SumOfParts
  <2> QED  BY <2>4, <2>6
<1>6. Union(parts, D) \subseteq Where(OfSpectrum)
  BY DEF Union, Where, OfBand, OfSpectrum, InSpectrum
<1>7. Cardinality(Union(parts, D)) <= Cardinality(Where(OfSpectrum))
  BY <1>6, WhereFinite, FS_Subset
<1> QED  BY <1>5, <1>7 DEF BandsWithinDatasets, PartsCounted

\* For any catalogue: the bands of the trust spectrum never exceed its denominator.
THEOREM AlwaysBandsWithin == Spec => []BandsWithinDatasets
BY InitTyped, NextTyped, InitParts, NextParts, BandsFit, PTL DEF Spec
==============================================================================
