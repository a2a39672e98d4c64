------------------------------- MODULE MCChat -------------------------------
(* Small instances of Chat for TLC. *)
EXTENDS Chat

CONSTANTS q1, q2, s1, s2, s3, c1, c2, l1

Symmetric == Permutations(Sids) \cup Permutations(Questions) \cup Permutations(Convs)

\* Bound: one session is cleared, once.
ClearsOnce == Start /\ [][Next /\ (ClearChat => wiped = {})]_vars
=============================================================================
