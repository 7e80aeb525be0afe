----------------------------- MODULE MCMempool -----------------------------
(* Two lcores with caches and a thread without one share six objects.       *)
EXTENDS Mempool, TLC
CONSTANTS l1, l2, other, o1, o2, o3, o4, o5, o6

MCCached == {l1, l2}
MCOthers == {other}
MCObjects == {o1, o2, o3, o4, o5, o6}
Sym == Permutations(MCObjects) \cup Permutations(MCCached)
=============================================================================
