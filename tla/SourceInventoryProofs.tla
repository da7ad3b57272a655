------------------------ MODULE SourceInventoryProofs ------------------------
(***************************************************************************)
(* Proofs about SourceInventory: for any catalogue and facet, the inventory *)
(* is of one origin, and the roots of one connection feed one source.      *)
(***************************************************************************)
EXTENDS SourceInventory, SequenceTheorems, NaturalsInduction, WellFoundedInduction, TLAPS

------------------------------------------------------------------------------
(* The types. *)

Typed ==
    /\ TypeOK
    /\ roots \in Catalogues
    /\ DOMAIN roots = 1..Len(roots) /\ Len(roots) \in Nat
    /\ DOMAIN out = 1..Len(out) /\ Len(out) \in Nat

FacetRow(name) == [name |-> name, root |-> NoId, res |-> NoId, container |-> FALSE]

\* The row and the key of a root.
LEMMA RootFields ==
  ASSUME NEW r \in Roots
  PROVE  /\ Key(r) # NoName => RowOf(r) \in Rows /\ Key(r) \in Names
         /\ RowOf(r).root = r.root /\ RowOf(r).res = r.res /\ RowOf(r).name = NameOf(r)
         /\ r.root \in Ids /\ r.root # NoId
BY InventoryAssumption DEF Roots, Rows, RowOf, Key, NameOf

\* The row of a name of the facet.
LEMMA FacetFields ==
  ASSUME NEW name \in Names
  PROVE  FacetRow(name) \in Rows /\ FacetRow(name).root = NoId /\ FacetRow(name).res = NoId
BY DEF FacetRow, Rows

\* The root that is read.
LEMMA RootRead ==
  ASSUME Typed, ReadRoot
  PROVE  next \in 1..Len(roots) /\ roots[next] \in Roots
<1>1. next \in 1..Len(roots)
  BY DEF ReadRoot, Typed, TypeOK
<1> QED  BY <1>1, ElementOfSeq DEF Typed, TypeOK

\* One more row.
LEMMA RowsGrow ==
  ASSUME Typed, NEW row \in Rows, out' = Append(out, row)
  PROVE  /\ out' \in Seq(Rows) /\ Len(out') = Len(out) + 1
         /\ DOMAIN out' = 1..(Len(out) + 1)
         /\ out'[Len(out) + 1] = row /\ \A i \in DOMAIN out : out'[i] = out[i]
<1>1. out \in Seq(Rows) /\ DOMAIN out = 1..Len(out)
  BY DEF Typed, TypeOK
<1>2. /\ out' \in Seq(Rows) /\ Len(out') = Len(out) + 1
      /\ \A i \in 1..Len(out) : out'[i] = out[i]
      /\ out'[Len(out) + 1] = row
  BY <1>1, AppendProperties
<1> QED  BY <1>1, <1>2, LenProperties

\* The inventory starts with nothing listed.
LEMMA InitTyped == Init => Typed
<1> SUFFICES ASSUME Init PROVE Typed
  OBVIOUS
<1>1. roots \in Seq(Roots) /\ facet \in Seq(Names) /\ roots \in Catalogues
  BY InventoryAssumption DEF Init
<1>2. out \in Seq(Rows)
  BY DEF Init
<1>3. DOMAIN roots = 1..Len(roots) /\ Len(roots) \in Nat /\ DOMAIN out = 1..Len(out) /\ Len(out) \in Nat
  BY <1>1, <1>2, LenProperties
<1> QED  BY <1>1, <1>2, <1>3 DEF Init, Typed, TypeOK

\* Every step keeps the types.
LEMMA NextTyped == Typed /\ [Next]_vars => Typed'
<1> SUFFICES ASSUME Typed, [Next]_vars PROVE Typed'
  OBVIOUS
<1>1. CASE UNCHANGED vars
  BY <1>1 DEF vars, Typed, TypeOK
<1>2. CASE ReadRoot
  <2>1. roots[next] \in Roots /\ next' \in Nat \ {0}
    BY <1>2, RootRead DEF ReadRoot, Typed, TypeOK
  <2>2. CASE UNCHANGED <<out, seen>>
    BY <1>2, <2>1, <2>2 DEF ReadRoot, Typed, TypeOK
  <2>3. CASE /\ ~Skipped(roots[next])
             /\ out' = Append(out, RowOf(roots[next]))
             /\ seen' = seen \cup {Key(roots[next])}
    <3>1. out' \in Seq(Rows) /\ seen' \subseteq Names
      BY <2>1, <2>3, RootFields, RowsGrow DEF Typed, TypeOK, Skipped
    <3>2. DOMAIN out' = 1..Len(out') /\ Len(out') \in Nat
      BY <3>1, LenProperties
    <3> QED  BY <1>2, <2>1, <3>1, <3>2 DEF ReadRoot, Typed, TypeOK
  <2> QED  BY <1>2, <2>2, <2>3 DEF ReadRoot
<1>3. CASE EndRoots
  BY <1>3 DEF EndRoots, Typed, TypeOK
<1>4. CASE RootsRaise
  <2>1. out' \in Seq(Rows)
    BY <1>4 DEF RootsRaise
  <2>2. DOMAIN out' = 1..Len(out') /\ Len(out') \in Nat
    BY <2>1, LenProperties
  <2> QED  BY <1>4, <2>1, <2>2 DEF RootsRaise, Typed, TypeOK
<1>5. CASE ReadName
  <2>1. facet[next] \in Names /\ next' \in Nat \ {0}
    <3>1. facet \in Seq(Names) /\ next \in 1..Len(facet)
      BY <1>5 DEF ReadName, Typed, TypeOK
    <3> QED  BY <1>5, <3>1, ElementOfSeq DEF ReadName
  <2>2. CASE UNCHANGED <<out, seen>>
    BY <1>5, <2>1, <2>2 DEF ReadName, Typed, TypeOK
  <2>3. CASE /\ out' = Append(out, FacetRow(facet[next]))
             /\ seen' = seen \cup {facet[next]}
    <3>1. out' \in Seq(Rows) /\ seen' \subseteq Names
      BY <2>1, <2>3, FacetFields, RowsGrow DEF Typed, TypeOK
    <3>2. DOMAIN out' = 1..Len(out') /\ Len(out') \in Nat
      BY <3>1, LenProperties
    <3> QED  BY <1>5, <2>1, <3>1, <3>2 DEF ReadName, Typed, TypeOK
  <2> QED  BY <1>5, <2>2, <2>3 DEF ReadName, FacetRow
<1>6. CASE EndFacet
  BY <1>6 DEF EndFacet, Typed, TypeOK
<1>7. CASE FacetRaises
  BY <1>7 DEF FacetRaises, Typed, TypeOK
<1> QED  BY <1>1, <1>2, <1>3, <1>4, <1>5, <1>6, <1>7 DEF Next

\* The types of the listing.
THEOREM InventoryTypeCorrect == Spec => []TypeOK
<1>1. Typed => TypeOK
  BY DEF Typed
<1> QED  BY <1>1, InitTyped, NextTyped, PTL DEF Spec

------------------------------------------------------------------------------
(* The origin of the rows. *)

Keyless == \E i \in DOMAIN roots : Key(roots[i]) = NoName
Repeats == \E i, j \in DOMAIN roots : i # j /\ Key(roots[i]) = Key(roots[j])

\* Rows of roots, and rows that have no ids.
FromRoots == \A i \in DOMAIN out : \E k \in DOMAIN roots : out[i] = RowOf(roots[k])
FromFacet == \A i \in DOMAIN out : out[i].root = NoId /\ out[i].res = NoId

\* While the roots are read, the keys seen are theirs, and each has its row unless
\* a key was repeated or missing.
RootsSoFar ==
    pc = "roots" =>
      /\ failed = {}
      /\ next <= Len(roots) + 1
      /\ seen = {Key(roots[k]) : k \in 1..(next - 1)} \ {NoName}
      /\ Len(out) = next - 1 \/ Repeats \/ Keyless
      /\ FromRoots

\* No row of a root is among those of the facet, and what is listed is of one kind.
FacetAlone == pc = "facet" => FromFacet
OneKind == FromRoots \/ FromFacet

Origin == RootsSoFar /\ FacetAlone /\ OneKind /\ OneOrigin

\* One more root keeps the origin.
LEMMA ReadRootOrigin == Typed /\ Origin /\ ReadRoot => Origin'
<1> SUFFICES ASSUME Typed, Origin, ReadRoot PROVE Origin'
  OBVIOUS
<1>1. /\ next \in 1..Len(roots) /\ roots[next] \in Roots
      /\ pc = "roots" /\ pc' = "roots" /\ roots' = roots /\ failed' = failed /\ next' = next + 1
      /\ Len(roots) \in Nat /\ DOMAIN roots = 1..Len(roots)
  BY RootRead DEF ReadRoot, Typed
<1>2. /\ failed = {} /\ seen = {Key(roots[k]) : k \in 1..(next - 1)} \ {NoName}
      /\ Len(out) = next - 1 \/ Repeats \/ Keyless
      /\ FromRoots
  BY <1>1 DEF Origin, RootsSoFar
<1>3. 1..(next' - 1) = 1..(next - 1) \cup {next} /\ next' <= Len(roots) + 1
  BY <1>1
<1>4. {Key(roots[k]) : k \in 1..(next' - 1)}
        = {Key(roots[k]) : k \in 1..(next - 1)} \cup {Key(roots[next])}
  BY <1>3
<1>5. Repeats' = Repeats /\ Keyless' = Keyless
  BY <1>1 DEF Repeats, Keyless
<1>6. CASE Skipped(roots[next]) /\ UNCHANGED <<out, seen>>
  <2>1. ASSUME Key(roots[next]) = NoName PROVE Keyless
    BY <1>1, <2>1 DEF Keyless
  <2>2. ASSUME Key(roots[next]) \in seen PROVE Repeats
    <3>1. PICK k \in 1..(next - 1) : Key(roots[k]) = Key(roots[next])
      BY <1>2, <2>2
    <3>2. k \in DOMAIN roots /\ next \in DOMAIN roots /\ k # next
      BY <1>1
    <3> QED  BY <3>1, <3>2 DEF Repeats
  <2>3. Repeats \/ Keyless
    BY <1>6, <2>1, <2>2 DEF Skipped
  <2>6. seen' = {Key(roots[k]) : k \in 1..(next' - 1)} \ {NoName}
    BY <1>2, <1>4, <1>6 DEF Skipped
  <2>5. FromRoots'
    BY <1>1, <1>2, <1>6 DEF FromRoots
  <2>4. RootsSoFar'
    BY <1>1, <1>2, <1>3, <1>5, <2>3, <2>5, <2>6 DEF RootsSoFar
  <2> QED  BY <1>1, <2>4, <2>5 DEF Origin, FacetAlone, OneKind, OneOrigin, Listed
<1>7. CASE /\ ~Skipped(roots[next])
           /\ out' = Append(out, RowOf(roots[next]))
           /\ seen' = seen \cup {Key(roots[next])}
  <2>1. /\ Len(out') = Len(out) + 1 /\ DOMAIN out' = 1..(Len(out) + 1)
        /\ out'[Len(out) + 1] = RowOf(roots[next]) /\ \A i \in DOMAIN out : out'[i] = out[i]
        /\ DOMAIN out = 1..Len(out) /\ Len(out) \in Nat
    BY <1>1, <1>7, RootFields, RowsGrow DEF Typed, Skipped
  <2>2. seen' = {Key(roots[k]) : k \in 1..(next' - 1)} \ {NoName}
    BY <1>2, <1>4, <1>7 DEF Skipped
  <2>3. Len(out') = next' - 1 \/ Repeats \/ Keyless
    BY <1>1, <1>2, <2>1
  <2>4. FromRoots'
    <3> SUFFICES ASSUME NEW i \in 1..(Len(out) + 1)
                 PROVE  \E k \in DOMAIN roots : out'[i] = RowOf(roots[k])
      BY <1>1, <2>1 DEF FromRoots
    <3>1. CASE i = Len(out) + 1
      BY <1>1, <2>1, <3>1
    <3>2. CASE i # Len(out) + 1
      <4>1. i \in DOMAIN out
        BY <2>1, <3>2
      <4> QED  BY <1>2, <2>1, <4>1 DEF FromRoots
    <3> QED  BY <3>1, <3>2
  <2>5. RootsSoFar'
    BY <1>1, <1>2, <1>3, <1>5, <2>2, <2>3, <2>4 DEF RootsSoFar
  <2> QED  BY <1>1, <2>4, <2>5 DEF Origin, FacetAlone, OneKind, OneOrigin, Listed
<1> QED  BY <1>6, <1>7 DEF ReadRoot

\* The end of the roots: their rows are a whole listing.
LEMMA EndRootsOrigin == Typed /\ Origin /\ EndRoots => Origin'
<1> SUFFICES ASSUME Typed, Origin, EndRoots PROVE Origin'
  OBVIOUS
<1>1. /\ pc = "roots" /\ UNCHANGED <<roots, facet, out, seen, failed>>
      /\ pc' = IF out # <<>> THEN "listed" ELSE "facet"
      /\ next > Len(roots) /\ next \in Nat /\ Len(roots) \in Nat /\ DOMAIN roots = 1..Len(roots)
  BY DEF EndRoots, Typed, TypeOK
<1>2. /\ failed = {} /\ seen = {Key(roots[k]) : k \in 1..(next - 1)} \ {NoName}
      /\ Len(out) = next - 1 \/ Repeats \/ Keyless
      /\ next <= Len(roots) + 1
  BY <1>1 DEF Origin, RootsSoFar
<1>3. next - 1 = Len(roots)
  BY <1>1, <1>2
<1>4. {Key(r) : r \in RangeOf(roots)} \ {NoName} = seen
  BY <1>1, <1>2, <1>3 DEF RangeOf
<1>5. OneOrigin'
  BY <1>1, <1>2, <1>3, <1>4 DEF OneOrigin, Listed, Repeats, Keyless, RangeOf
<1>6. FacetAlone'
  <2>1. pc' = "facet" => out' = <<>>
    BY <1>1
  <2> QED  BY <2>1 DEF FacetAlone, FromFacet
<1>7. OneKind'
  BY <1>1 DEF Origin, OneKind, FromRoots, FromFacet
<1> QED  BY <1>1, <1>5, <1>6, <1>7 DEF Origin, RootsSoFar

\* One more name keeps the origin.
LEMMA ReadNameOrigin == Typed /\ Origin /\ ReadName => Origin'
<1> SUFFICES ASSUME Typed, Origin, ReadName PROVE Origin'
  OBVIOUS
<1>1. /\ facet[next] \in Names /\ pc = "facet" /\ pc' = "facet" /\ roots' = roots
  <2>1. facet \in Seq(Names) /\ next \in 1..Len(facet)
    BY DEF ReadName, Typed, TypeOK
  <2> QED  BY <2>1, ElementOfSeq DEF ReadName
<1>2. CASE UNCHANGED <<out, seen>>
  BY <1>1, <1>2 DEF Origin, RootsSoFar, FacetAlone, OneKind, FromRoots, FromFacet,
              OneOrigin, Listed
<1>3. CASE out' = Append(out, FacetRow(facet[next]))
  <2>1. /\ DOMAIN out' = 1..(Len(out) + 1)
        /\ out'[Len(out) + 1] = FacetRow(facet[next]) /\ \A i \in DOMAIN out : out'[i] = out[i]
        /\ DOMAIN out = 1..Len(out) /\ Len(out) \in Nat
    BY <1>1, <1>3, FacetFields, RowsGrow DEF Typed
  <2>2. ASSUME NEW i \in DOMAIN out' PROVE out'[i].root = NoId /\ out'[i].res = NoId
    BY <1>1, <2>1, FacetFields DEF Origin, FacetAlone, FromFacet
  <2>3. FromFacet'
    BY <2>2 DEF FromFacet
  <2> QED  BY <1>1, <2>3 DEF Origin, RootsSoFar, FacetAlone, OneKind, OneOrigin, Listed
<1> QED  BY <1>2, <1>3 DEF ReadName, FacetRow

\* Every step keeps the origin.
LEMMA NextOrigin == Typed /\ Origin /\ [Next]_vars => Origin'
<1> SUFFICES ASSUME Typed, Origin, [Next]_vars PROVE Origin'
  OBVIOUS
<1>1. CASE UNCHANGED vars
  BY <1>1 DEF vars, Origin, RootsSoFar, FacetAlone, OneKind, OneOrigin, Listed,
              FromRoots, FromFacet, Repeats, Keyless, RangeOf
<1>2. CASE RootsRaise
  <2>1. out' = <<>> /\ pc' = "facet"
    BY <1>2 DEF RootsRaise
  <2> QED  BY <2>1 DEF Origin, RootsSoFar, FacetAlone, OneKind, FromRoots, FromFacet,
                      OneOrigin, Listed
<1>3. CASE EndFacet \/ FacetRaises
  <2>1. pc = "facet" /\ pc' = "listed" /\ UNCHANGED <<roots, out>>
    BY <1>3 DEF EndFacet, FacetRaises
  <2> QED  BY <2>1 DEF Origin, RootsSoFar, FacetAlone, OneKind, FromRoots, FromFacet,
                      OneOrigin, Listed
<1> QED  BY <1>1, <1>2, <1>3, ReadRootOrigin, EndRootsOrigin, ReadNameOrigin DEF Next

\* Nothing was read to begin with.
LEMMA InitOrigin == Init => Origin
<1> SUFFICES ASSUME Init PROVE Origin
  OBVIOUS
<1>1. out = <<>> /\ pc = "roots" /\ next = 1 /\ seen = {} /\ failed = {} /\ Len(out) = 0
      /\ Len(roots) \in Nat
  BY InitTyped DEF Init, Typed
<1>2. 1..(next - 1) = {}
  BY <1>1
<1> QED  BY <1>1, <1>2 DEF Origin, RootsSoFar, FacetAlone, OneKind, FromRoots, FromFacet,
                      OneOrigin, Listed

\* For any catalogue and facet, whichever read raises: the inventory is all of the roots
\* or names of the facet alone, never half a listing.
THEOREM AlwaysOneOrigin == Spec => []OneOrigin
<1>1. Origin => OneOrigin
  BY DEF Origin
<1> QED  BY <1>1, InitTyped, InitOrigin, NextTyped, NextOrigin, PTL DEF Spec

------------------------------------------------------------------------------
(* The sources of the connections. *)

\* A set of positions has a first one.
LEMMA FirstIn ==
  ASSUME NEW S, S \subseteq Nat, S # {}
  PROVE  First(S) \in S
<1> DEFINE R == OpToRel(<, Nat)
<1>1. IsWellFoundedOn(R, Nat)
  BY NatLessThanWellFounded
<1>2. \A x, y \in Nat : <<x, y>> \in R <=> x < y
  BY DEF OpToRel
<1> HIDE DEF R
<1>3. PICK m \in S : \A k \in S : ~ (<<k, m>> \in R)
  BY <1>1, WFMin
<1>4. ASSUME NEW k \in S PROVE m <= k
  <2>1. k \in Nat /\ m \in Nat /\ ~ (<<k, m>> \in R)
    BY <1>3
  <2> QED  BY <1>2, <2>1
<1> QED  BY <1>4 DEF First

\* Rows of one group have one source.
LEMMA SameGroup ==
  ASSUME NEW i, NEW j, Group(i) = Group(j)
  PROVE  SourceOf(i) = SourceOf(j)
BY DEF SourceOf, HeadRow

\* The first row of a group has the group's source.
LEMMA FirstSource ==
  ASSUME Typed, NEW i \in DOMAIN out
  PROVE  /\ First(Group(i)) \in Group(i) /\ Group(First(Group(i))) = Group(i)
         /\ SourceOf(First(Group(i))) = SourceOf(i)
<1>1. Group(i) \subseteq Nat /\ Group(i) # {}
  BY DEF Group, Typed
<1>2. First(Group(i)) \in Group(i)
  BY <1>1, FirstIn
<1>3. \A k \in Group(i) : Group(k) = Group(i)
  BY DEF Group
<1> QED  BY <1>2, <1>3, SameGroup

\* Rows of one root are of one connection and name.
LEMMA RowsOfRoot ==
  ASSUME Typed, Origin, NEW i \in DOMAIN out, NEW j \in DOMAIN out,
         out[i].root = out[j].root, out[i].res # NoId
  PROVE  out[j].res = out[i].res /\ out[j].name = out[i].name
<1>1. PICK k \in DOMAIN roots : out[i] = RowOf(roots[k])
  BY DEF Origin, OneKind, FromRoots, FromFacet
<1>2. \A n \in DOMAIN roots : roots[n] \in Roots
  BY ElementOfSeq DEF Typed, TypeOK
<1>3. out[i].root # NoId
  BY <1>1, <1>2, RootFields
<1>4. PICK m \in DOMAIN roots : out[j] = RowOf(roots[m])
  BY <1>3 DEF Origin, OneKind, FromRoots, FromFacet
<1>5. roots[k].root = roots[m].root
  BY <1>1, <1>2, <1>4, RootFields
<1>6. roots[k].res = roots[m].res /\ NameOf(roots[k]) = NameOf(roots[m])
  BY <1>5, RootsAreEntities DEF Typed
<1> QED  BY <1>1, <1>2, <1>4, <1>6, RootFields

\* The root of a row of a connection goes by the source of that row's group.
LEMMA RootGoesBy ==
  ASSUME Typed, Origin, NEW i \in DOMAIN out, out[i].res # NoId
  PROVE  RootName(out[i].root) = SourceOf(i)
<1> DEFINE rows == {j \in DOMAIN out : out[j].root = out[i].root}
           firsts == {First(Group(k)) : k \in rows}
<1>1. \A k \in rows : Group(k) = Group(i)
  <2> SUFFICES ASSUME NEW k \in rows PROVE Group(k) = Group(i)
    OBVIOUS
  <2>1. out[k].res = out[i].res
    BY RowsOfRoot
  <2>2. Rid(out[k]) = Rid(out[i])
    BY <2>1 DEF Rid
  <2> QED  BY <2>2 DEF Group
<1>2. i \in rows
  OBVIOUS
<1>3. firsts = {First(Group(i))}
  BY <1>1, <1>2
<1>4. Last({First(Group(i))}) = First(Group(i))
  <2>1. First(Group(i)) \in Group(i)
    BY FirstSource
  <2>2. Group(i) \subseteq 1..Len(out) /\ Len(out) \in Nat
    BY DEF Group, Typed
  <2>3. First(Group(i)) \in Nat
    BY <2>1, <2>2
  <2> QED  BY <2>3 DEF Last
<1>5. RootName(out[i].root) = SourceOf(First(Group(i)))
  BY <1>3, <1>4 DEF RootName
<1> QED  BY <1>5, FirstSource

\* For any catalogue and facet: roots of one connection feed one source.
THEOREM AlwaysOneSource == Spec => []OneSourcePerConnection
<1>1. Typed /\ Origin => OneSourcePerConnection
  <2> SUFFICES ASSUME Typed, Origin, NEW i \in DOMAIN out, NEW j \in DOMAIN out,
                      out[i].res = out[j].res, out[i].res # NoId
               PROVE  RootName(out[i].root) = RootName(out[j].root)
    BY DEF OneSourcePerConnection
  <2>1. Group(i) = Group(j)
    BY DEF Group, Rid
  <2>2. SourceOf(i) = SourceOf(j)
    BY <2>1, SameGroup
  <2> QED  BY <2>2, RootGoesBy
<1> QED  BY <1>1, InitTyped, InitOrigin, NextTyped, NextOrigin, PTL DEF Spec

\* For any catalogue and facet: a connection that lists its own row goes by that row's
\* name.
THEOREM AlwaysNamesSource == Spec => []ConnectionNamesSource
<1>1. Typed /\ Origin => ConnectionNamesSource
  <2> SUFFICES ASSUME Typed, Origin, NEW i \in DOMAIN out, NEW j \in DOMAIN out,
                      out[j].res # NoId, out[j].root = out[j].res, out[i].res = out[j].res
               PROVE  RootName(out[i].root) = out[j].name
    BY DEF ConnectionNamesSource
  <2> DEFINE self == {k \in Group(i) : out[k].root = out[k].res}
  <2>1. j \in self
    BY DEF Group, Rid
  <2>2. self \subseteq Nat /\ self \subseteq DOMAIN out
    BY DEF Group, Typed
  <2>3. First(self) \in self
    BY <2>1, <2>2, FirstIn
  <2>4. HeadRow(i) = First(self)
    BY <2>1 DEF HeadRow
  <2>5. ASSUME NEW k \in self PROVE out[k].name = out[j].name
    <3>1. k \in DOMAIN out /\ Rid(out[k]) = out[j].res /\ out[k].root = out[k].res
      BY DEF Group, Rid
    <3>2. out[k].root # NoId
      <4>1. PICK n \in DOMAIN roots : out[k] = RowOf(roots[n])
        BY <3>1 DEF Origin, OneKind, FromRoots, FromFacet
      <4> QED  BY <4>1, RootFields, ElementOfSeq DEF Typed, TypeOK
    <3>3. out[k].root = out[j].root
      BY <3>1, <3>2 DEF Rid
    <3> QED  BY <3>1, <3>3, RowsOfRoot
  <2>6. SourceOf(i) = out[j].name
    BY <2>3, <2>4, <2>5 DEF SourceOf
  <2> QED  BY <2>6, RootGoesBy
<1> QED  BY <1>1, InitTyped, InitOrigin, NextTyped, NextOrigin, PTL DEF Spec
=============================================================================
