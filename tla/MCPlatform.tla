---------------------------- MODULE MCPlatform -----------------------------
(* A small instance of Platform for TLC. *)
EXTENDS Platform

CONSTANTS s1, s2, d1, d2, a1, a2, w1, w2, hr

Symmetric == Permutations(Workers)
MCFiles == s1 :> <<d1, d2>>
MCAuthor == (d1 :> a1) @@ (d2 :> a2)
MCDefaultTag == s1 :> hr
MCContents ==
    {[tag |-> Untagged, size |-> 2], [tag |-> Blank, size |-> 1], [tag |-> hr, size |-> 0]}
MCDrafts == {d1 :> [tag |-> Untagged, size |-> 2] @@ d2 :> [tag |-> Blank, size |-> 1]}
MCDisturbances ==
    {{"crash"}, {"beat", "delete"}, {"error"}, {"edit"}, {"manage"}, {"erase"}, {"downgrade"}}
MCErrors == {{"error"}}
MCNoDisturbance == {{}}
=============================================================================
