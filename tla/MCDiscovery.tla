----------------------------- MODULE MCDiscovery -----------------------------
(* Instances of Discovery for TLC. *)
EXTENDS Discovery

\* Two prefixes, one of them empty, and a key outside of them.
TwoPrefixes == <<{1, 2, 3}, {}>>
TwoShards == <<<<1, 4, 2>>, <<3>>>>
=============================================================================
