----------------------------- MODULE MCCrawlJob -----------------------------
(* Small instances of a crawling job for TLC.                              *)
EXTENDS CrawlJob, TLC

CONSTANTS u1, u2, w1, w2, r1, r2

(* Only clean URLs here: decoding changes nothing.                         *)
DecodeOf == [u \in Urls |-> u]

Symmetric == Permutations(Workers) \union Permutations(Requests)
=============================================================================
