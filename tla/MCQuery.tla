------------------------------ MODULE MCQuery ------------------------------
(* A small instance of Query for TLC. *)
EXTENDS Query, TLC

CONSTANTS p1, p2, s1, t1, t2, u1, u2

C(url, tag, score, tokens) == [url |-> url, tag |-> tag, score |-> score, tokens |-> tokens]

\* Two chunks of a document, a tie at the cut, and little room for the prompt.
MCCorpora == {{C(u1, t1, 80, 3), C(u1, t2, 20, 6), C(u2, t1, 20, 2)}}

MCPermissions == p1 :> {t1} @@ p2 :> {Wildcard} @@ s1 :> {t2}
MCOverhead == p1 :> 8 @@ p2 :> 1 @@ s1 :> 12
=============================================================================
