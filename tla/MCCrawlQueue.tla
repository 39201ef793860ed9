---------------------------- MODULE MCCrawlQueue ----------------------------
(* Small instances of the queue for TLC.                                   *)
EXTENDS CrawlQueue, TLC

CONSTANTS u1, u2, raw, fixed, w1, w2

(* `raw` is a URL with a byte that is no UTF-8 (a Latin-1 CSV), `fixed`    *)
(* the same URL with U+FFFD in its place; the others are clean.            *)
DecodeOf == [u \in Urls |-> IF u = raw THEN fixed ELSE u]

WorkerSymmetry == Permutations(Workers)
=============================================================================
