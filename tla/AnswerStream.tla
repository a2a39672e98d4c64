---------------------------- MODULE AnswerStream ----------------------------
(***************************************************************************)
(* What the query stream promises its client, for each stream on its own:  *)
(* first the number of chunks, at most MaxFound, then the tokens of an     *)
(* answer in their order, begun again from the first at most MaxRestarts   *)
(* times, and at the end either "complete" or "error", after which nothing *)
(* is sent.  A stream may be cut at any time before that.                  *)
(***************************************************************************)
EXTENDS Naturals, Sequences

CONSTANTS Streams, MaxFound, MaxRestarts

VARIABLES
    shown,    \* shown[s]: the events sent
    stage,    \* "silent", "open", "complete", "error" or "cut"
    last,     \* number of the last token of the present run
    restarts

avars == <<shown, stage, last, restarts>>

Event(type, n) == [type |-> type, n |-> n]
Shows(s, e) == shown' = [shown EXCEPT ![s] = Append(@, e)]

Init ==
    /\ shown = [s \in Streams |-> << >>]
    /\ stage = [s \in Streams |-> "silent"]
    /\ last = [s \in Streams |-> 0]
    /\ restarts = [s \in Streams |-> 0]

Retrieved(s) ==
    /\ stage[s] = "silent" /\ stage' = [stage EXCEPT ![s] = "open"]
    /\ \E n \in 0..MaxFound : Shows(s, Event("retrieval_done", n))
    /\ UNCHANGED <<last, restarts>>

Token(s) ==
    /\ stage[s] = "open"
    /\ last' = [last EXCEPT ![s] = @ + 1]
    /\ Shows(s, Event("token", last[s] + 1))
    /\ UNCHANGED <<stage, restarts>>

Restart(s) ==
    /\ stage[s] = "open" /\ restarts[s] < MaxRestarts
    /\ last' = [last EXCEPT ![s] = 0]
    /\ restarts' = [restarts EXCEPT ![s] = @ + 1]
    /\ UNCHANGED <<shown, stage>>

End(s) ==
    /\ stage[s] = "open"
    /\ \E e \in {"complete", "error"} :
        /\ stage' = [stage EXCEPT ![s] = e]
        /\ Shows(s, Event(e, 0))
    /\ UNCHANGED <<last, restarts>>

Cut(s) ==
    /\ stage[s] \in {"silent", "open"}
    /\ stage' = [stage EXCEPT ![s] = "cut"]
    /\ UNCHANGED <<shown, last, restarts>>

Next == \E s \in Streams : Retrieved(s) \/ Token(s) \/ Restart(s) \/ End(s) \/ Cut(s)

Spec == Init /\ [][Next]_avars
=============================================================================
