--------------------------- MODULE MCCachedFetch ---------------------------
(***************************************************************************)
(* Two threads of one process and a second process, on one cache.          *)
(***************************************************************************)
EXTENDS CachedFetch, TLC

CONSTANTS t1, t2, t3, p1, p2

MCThreads == {t1, t2, t3}
MCProcessOf == (t1 :> p1) @@ (t2 :> p1) @@ (t3 :> p2)
\* The ticker map, refreshed daily, a filing and a quote
MCKeys == {"map", "filing", "quote"}
MCKind == [map |-> "index", filing |-> "document", quote |-> "quote"]

\* Every thread may need the ticker map: the first two are rivals for it in one process,
\* the third stores it from another.  The second may want a filing, the third a quote.
MCWants == (t1 :> {"map"}) @@ (t2 :> {"map", "filing"}) @@ (t3 :> {"map", "quote"})
=============================================================================
