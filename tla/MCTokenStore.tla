------------------------------ MODULE MCTokenStore ------------------------------
(***************************************************************************)
(* Two requests and two page requests on one authorization file.            *)
(***************************************************************************)
EXTENDS TokenStore, TLC

CONSTANTS c1, c2, p1, p2

MCCaller == {c1, c2}
MCPage == {p1, p2}
Symmetric == Permutations(MCCaller) \cup Permutations(MCPage)
=============================================================================
