---------------------------- MODULE MCTimedQueue ----------------------------
(* Small instances of the queue in real time for TLC.                      *)
EXTENDS TimedQueue, TLC

CONSTANTS u1, u2, u3, w1, w2, w3

(* Only clean URLs here: decoding changes nothing.                         *)
DecodeOf == [u \in Urls |-> u]

WorkerSymmetry == Permutations(Workers)
=============================================================================
