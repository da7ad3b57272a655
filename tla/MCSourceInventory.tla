--------------------------- MODULE MCSourceInventory ---------------------------
\* Instances of SourceInventory for TLC.  Connection "c1" lists itself and two
\* containers, "c2" only containers, "c3" a connector without a resource id; the
\* instance may list any four of them in any order, and may list one twice, and one
\* has no key.
EXTENDS SourceInventory, FiniteSets

CONSTANTS c1, c2, c3, s1, s2, s3, s4, n1, n2, n3, n4, n5, n6

Root(fq, name, root, res, container) ==
    [fq |-> fq, name |-> name, root |-> root, res |-> res, container |-> container]

\* Distinct names and fully qualified ones; the last has no fqdn.
Known == {Root(n1, n1, c1, c1, TRUE), Root(n2, n2, s1, c1, TRUE),
          Root(n3, n2, s2, c2, TRUE), Root(n4, n4, s3, c2, FALSE),
          Root(NoName, n5, c3, NoId, FALSE), Root(NoName, NoName, s4, c2, TRUE)}

MCCatalogues == UNION {[1..n -> Known] : n \in 0..4}
MCFacets == UNION {[1..n -> {n1, n5, n6}] : n \in 0..2}
=============================================================================
