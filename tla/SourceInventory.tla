--------------------------- MODULE SourceInventory ---------------------------
(***************************************************************************)
(* The source inventory behind a live snapshot: PDCClient.data_sources     *)
(* lists the root entities of the catalogue, or the names of a facet if    *)
(* that yields nothing, and _live_snapshot collapses the roots of one      *)
(* connection into one source that all of their entities feed.             *)
(*                                                                         *)
(* A root is what the code reads of it: its fully qualified name, its      *)
(* name, its ids, and whether its type is a container's (SCHEMA, ...).     *)
(* Several roots may come on one page: a page that fails loses the rows of *)
(* the pages before it, so one root is one step.                           *)
(***************************************************************************)
EXTENDS Naturals, Sequences

CONSTANTS
    Ids, NoId,   \* rootId and resourceId; NoId: missing
    Names, NoName,  \* fqdn and name (or fqdnDisplay); NoName: empty
    Catalogues,  \* sequences of roots the instance may list
    Facets       \* sequences of names its source facet may give

Roots == [fq: Names \cup {NoName}, name: Names \cup {NoName}, root: Ids, res: Ids \cup {NoId},
          container: BOOLEAN]
Rows == [name: Names, root: Ids \cup {NoId}, res: Ids \cup {NoId},
         container: BOOLEAN]

ASSUME InventoryAssumption ==
    /\ NoId \notin Ids
    /\ NoName \notin Names
    /\ Catalogues \subseteq Seq(Roots)
    /\ Facets \subseteq Seq(Names)

\* The rootId of a root is its own id (it goes by its _id without one, and "every entity
\* hang[s] off the innermost" root by it; the self-row is told by rootId = resourceId),
\* so roots that share it are one entity, listed again: of one name, of one connection.
NameOf(r) == IF r.name # NoName THEN r.name ELSE r.fq
ASSUME RootsAreEntities ==
    \A c \in Catalogues : \A i, j \in DOMAIN c :
        c[i].root = c[j].root => c[i].res = c[j].res /\ NameOf(c[i]) = NameOf(c[j])

VARIABLES
    roots,   \* what the instance lists
    facet,   \* what its facet gives
    pc,      \* "roots", "facet", "listed"
    next,    \* the next root, or the next name, to read
    out,     \* the rows so far
    seen,    \* the keys of the roots and names so far
    failed   \* history: the reads that raised

vars == <<roots, facet, pc, next, out, seen, failed>>

Init ==
    /\ roots \in Catalogues
    /\ facet \in Facets
    /\ pc = "roots"
    /\ next = 1
    /\ out = <<>>
    /\ seen = {}
    /\ failed = {}

Key(r) == IF r.fq # NoName THEN r.fq ELSE r.name
RowOf(r) == [name |-> NameOf(r), root |-> r.root, res |-> r.res,
             container |-> r.container]

\* A root without a key is skipped, and one whose key was seen: pages may repeat it.
Skipped(r) == Key(r) \in seen \cup {NoName}

ReadRoot ==
    /\ pc = "roots"
    /\ next <= Len(roots)
    /\ next' = next + 1
    /\ LET r == roots[next] IN
         \/ /\ Skipped(r)
            /\ UNCHANGED <<out, seen>>
         \/ /\ ~Skipped(r)
            /\ out' = Append(out, RowOf(r))
            /\ seen' = seen \cup {Key(r)}
    /\ UNCHANGED <<roots, facet, pc, failed>>

\* Mutant: the names of the facet are counted from 0.
EndRootsZero ==
    /\ pc = "roots"
    /\ next > Len(roots)
    /\ pc' = IF out # <<>> THEN "listed" ELSE "facet"
    /\ next' = 0
    /\ UNCHANGED <<roots, facet, out, seen, failed>>

\* Rows end the listing; none goes on to the facet.
EndRoots ==
    /\ pc = "roots"
    /\ next > Len(roots)
    /\ pc' = IF out # <<>> THEN "listed" ELSE "facet"
    /\ next' = 1
    /\ UNCHANGED <<roots, facet, out, seen, failed>>

\* Mutant: the rows of the pages before the failure stay.
RootsRaiseKeep ==
    /\ pc = "roots"
    /\ pc' = "facet"
    /\ next' = 1
    /\ failed' = failed \cup {"roots"}
    /\ UNCHANGED <<roots, facet, out, seen>>

\* Any error while paging: the rows are dropped, the keys seen are not.
RootsRaise ==
    /\ pc = "roots"
    /\ out' = <<>>
    /\ pc' = "facet"
    /\ next' = 1
    /\ failed' = failed \cup {"roots"}
    /\ UNCHANGED <<roots, facet, seen>>

ReadName ==
    /\ pc = "facet"
    /\ next <= Len(facet)
    /\ next' = next + 1
    /\ \/ /\ facet[next] \in seen
          /\ UNCHANGED <<out, seen>>
       \/ /\ facet[next] \notin seen
          /\ out' = Append(out, [name |-> facet[next], root |-> NoId, res |-> NoId,
                                 container |-> FALSE])
          /\ seen' = seen \cup {facet[next]}
    /\ UNCHANGED <<roots, facet, pc, failed>>

EndFacet ==
    /\ pc = "facet"
    /\ next > Len(facet)
    /\ pc' = "listed"
    /\ UNCHANGED <<roots, facet, next, out, seen, failed>>

\* The facet is one read, ahead of its names; its error is swallowed too.
FacetRaises ==
    /\ pc = "facet"
    /\ next = 1
    /\ pc' = "listed"
    /\ failed' = failed \cup {"facet"}
    /\ UNCHANGED <<roots, facet, next, out, seen>>

Next ==
    \/ ReadRoot \/ EndRoots \/ RootsRaise
    \/ ReadName \/ EndFacet \/ FacetRaises

Spec == Init /\ [][Next]_vars

-----------------------------------------------------------------------------
\* _live_snapshot's grouping of the rows, by the positions they have in out.

Rid(r) ==
    CASE r.res # NoId -> r.res
      [] r.res = NoId /\ r.root # NoId -> r.root
      [] OTHER -> r.name

\* Mutant: the rows are grouped by their own id.
GroupByRoot(i) == {j \in DOMAIN out : out[j].root = out[i].root}

Group(i) == {j \in DOMAIN out : Rid(out[j]) = Rid(out[i])}

First(S) == CHOOSE i \in S : \A j \in S : i <= j
Last(S) == CHOOSE i \in S : \A j \in S : i >= j

\* Mutant: the first row of the group names the source.
HeadFirst(i) == First(Group(i))

\* The row that names the source: the connection's own, or else one of a
\* connector's type, or else the first.
HeadRow(i) ==
    LET self == {j \in Group(i) : out[j].root = out[j].res}
        typed == {j \in Group(i) : ~out[j].container}
    IN CASE self # {} -> First(self)
         [] self = {} /\ typed # {} -> First(typed)
         [] OTHER -> First(Group(i))

SourceOf(i) == out[HeadRow(i)].name

\* per: the sources.  root_name: the groups are gone through in the order of
\* their first rows, so the last group that has a root id names its source.
Sources == {SourceOf(i) : i \in DOMAIN out}
RootName(x) ==
    SourceOf(Last({First(Group(i)) : i \in {j \in DOMAIN out : out[j].root = x}}))

-----------------------------------------------------------------------------
TypeOK ==
    /\ roots \in Seq(Roots)
    /\ facet \in Seq(Names)
    /\ pc \in {"roots", "facet", "listed"}
    /\ next \in Nat \ {0}
    /\ out \in Seq(Rows)
    /\ seen \subseteq Names
    /\ failed \subseteq {"roots", "facet"}

Listed == pc = "listed"
RootsOf(S) == {r.root : r \in S}
RangeOf(s) == {s[i] : i \in DOMAIN s}

\* The inventory is of one origin: the roots of a listing that ran to its end,
\* one row a key, or names of the facet alone; never half a listing.
OneOrigin ==
    Listed =>
      \/ \A i \in DOMAIN out : out[i].root = NoId
      \/ /\ "roots" \notin failed
         /\ {Key(r) : r \in RangeOf(roots)} \ {NoName} = seen
         /\ \/ Len(out) = Len(roots)
            \/ \E i \in DOMAIN roots : Key(roots[i]) = NoName
            \/ \E i, j \in DOMAIN roots : i # j /\ Key(roots[i]) = Key(roots[j])

\* The roots of one connection feed one source (catalog.py: "the same connection
\* appears twice").
OneSourcePerConnection ==
    Listed => \A i, j \in DOMAIN out :
        out[i].res = out[j].res /\ out[i].res # NoId =>
            RootName(out[i].root) = RootName(out[j].root)

\* A connection that lists its own row goes by that row's name, wherever in the
\* pages it came.
ConnectionNamesSource ==
    Listed => \A i, j \in DOMAIN out :
        out[j].res # NoId /\ out[j].root = out[j].res /\ out[i].res = out[j].res =>
            RootName(out[i].root) = out[j].name
=============================================================================
