--------------------------- MODULE MCSiteCatalog ---------------------------
(* Two sites and three crawlings for TLC.                                  *)
EXTENDS SiteCatalog, TLC

CONSTANTS s1, s2, j1, j2, j3, v1, v2

(* All sites, and the crawlings that are pending.                          *)
TwoListings ==
  {[of |-> "sites"], [of |-> "crawlings", site |-> NoFilter, status |-> "pending"]}

(* A site is created and replaced as a whole.                              *)
Whole == {[x \in Fields |-> v] : v \in Values}

Stamps == 1..3

Interchangeable == Permutations(Sites) \union Permutations(Values) \union Permutations(Crawlings)
=============================================================================
