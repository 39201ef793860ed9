--------------------------- MODULE MCRateLimiter ---------------------------
(* Small instances of the token bucket for TLC.                            *)
EXTENDS RateLimiter

(* Less than a token apart, exactly one, and enough to fill the bucket.    *)
Instants == {0, 700, 1000, 2500, 11000, 12400}
=============================================================================
