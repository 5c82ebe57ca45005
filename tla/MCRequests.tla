----------------------------- MODULE MCRequests -----------------------------
(* Two clients with two keys, and a budget for one of two contributions.      *)
EXTENDS Requests, TLC

Interchangeable == Permutations(Clients) \cup Permutations(Keys) \cup Permutations(Bodies)
=============================================================================
