--------------------------- MODULE MCRateLimiter ---------------------------
(* RateLimiter for TLC: the clock of c2 is one unit behind. *)
EXTENDS RateLimiter

CONSTANTS c1, c2

MCLag == [c \in Callers |-> IF c = c2 THEN 1 ELSE 0]

=============================================================================
