--------------------------- MODULE MCRegionalCache ---------------------------
(* Small instances of RegionalCache.                                        *)
EXTENDS RegionalCache, TLC

CONSTANTS s1, s2, g1, g2, east, west

\* Both calls write where the first reader is; the second reader is elsewhere.
WriterColo == [s \in Ops |-> east]
ReaderColo == [g \in Gets |-> IF g = g1 THEN east ELSE west]
Seconds == [v \in Values |-> IF v = Build THEN 0 ELSE 1]
\* The two calls are alike.
OpSymmetry == Permutations(Ops)

Base == [store |-> "r2", mode |-> "long-lived", next16 |-> FALSE, purge |-> FALSE,
         lazy |-> None, bypass |-> None, tags |-> {"tag"}]

\* The defaults with and without purge, the other stores, entries with a list of tags,
\* with an empty one and with none.
SomeConfigs ==
    {Base,
     [Base EXCEPT !.purge = TRUE, !.tags = None],
     [Base EXCEPT !.store = "kv", !.next16 = TRUE, !.mode = "short-lived", !.tags = {}],
     [Base EXCEPT !.store = "static", !.purge = TRUE]}
=============================================================================
