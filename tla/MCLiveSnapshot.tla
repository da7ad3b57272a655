---------------------------- MODULE MCLiveSnapshot ----------------------------
\* Instances of LiveSnapshot for TLC: "a" has three pages, "b" has two and "c" is
\* empty.
EXTENDS LiveSnapshot

CONSTANTS a, b, c

MCPageCount == [h \in Hosts |-> CASE h = a -> 3 [] h = b -> 2 [] OTHER -> 0]
OnA == [host |-> a, ttl |-> MaxTtl, demo |-> FALSE]
OnB == [OnA EXCEPT !.host = b]
OnC == [OnA EXCEPT !.host = c]
Some == {OnB, [OnC EXCEPT !.ttl = 0], [OnA EXCEPT !.demo = TRUE]}
=============================================================================
