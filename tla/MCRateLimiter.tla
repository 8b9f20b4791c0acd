---------------------------- MODULE MCRateLimiter ----------------------------
(* Two clients, two requests per window of two units, a penalty of twice   *)
(* the window as in the code, and a second that divides neither; the clock *)
(* runs through a window, a whole penalty and the window after it.         *)
EXTENDS RateLimiter, TLC

Symmetry == Permutations(Clients)
===============================================================================
