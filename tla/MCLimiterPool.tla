---- MODULE MCLimiterPool ----
(***************************************************************************)
(* Small instances of LimiterPool for TLC.                                 *)
(***************************************************************************)
EXTENDS LimiterPool, TLC

\* Goroutines, emails and bucket objects are interchangeable.
Symmetric ==
  Permutations(Procs) \union Permutations(Emails) \union Permutations(Limiters)
====
