---------------------------- MODULE KeyedLimiter ----------------------------
(***************************************************************************)
(* What keyedLimiter and the limiter of the middleware have in common.     *)
(***************************************************************************)
EXTENDS RateLimiter

Middleware == INSTANCE RateLimiter WITH Keyed <- FALSE

\* keyedLimiter is the limiter of the middleware: that it stores the list again when it
\* refuses makes no difference, because a full list has nothing to drop.
SameAsMiddleware == Middleware!LimiterSpec
=============================================================================
