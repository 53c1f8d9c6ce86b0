--------------------------- MODULE MCRateLimiter ---------------------------
(* Two clients and buckets of two tokens that take four ticks to fill.      *)
EXTENDS RateLimiter
=============================================================================
