--------------------------- MODULE SessionService ---------------------------
(***************************************************************************)
(* What core/auth.py promises the endpoints, for each session and each     *)
(* caller of validate_session on its own.  A session is issued once and    *)
(* ends for good, while somebody ends it or when it is old; a caller asks  *)
(* about a session that exists and is not old.  Who asks about one that    *)
(* has ended is not admitted, unless the session was spoilt, and that can  *)
(* only happen while somebody ends it.                                     *)
(***************************************************************************)
CONSTANTS Sids, Callers, NoSid

VARIABLES
    life,    \* life[s]: "none", "live" or "ended"
    old,     \* sessions past their time
    ending,  \* sessions somebody is about to end
    spoilt,  \* sessions about which no more is promised
    asks     \* asks[c]: the session, whether it had ended when c asked, and the answer

svars == <<life, old, ending, spoilt, asks>>

Away == [sid |-> NoSid, late |-> FALSE, stage |-> "away"]

Init ==
    /\ life = [s \in Sids |-> "none"]
    /\ old = {} /\ ending = {} /\ spoilt = {}
    /\ asks = [c \in Callers |-> Away]

-----------------------------------------------------------------------------
(* A session *)

Issued(s) == life[s] = "none" /\ life'[s] = "live"
Ended(s) == life[s] = "live" /\ life'[s] = "ended" /\ s \in ending \cup old

Session(s) ==
    /\ Issued(s) \/ Ended(s) \/ life'[s] = life[s]
    /\ s \in old => s \in old'
    /\ s \in spoilt => s \in spoilt'
    /\ s \in spoilt' => s \in spoilt \cup ending'

-----------------------------------------------------------------------------
(* A caller *)

Asks(c) ==
    /\ asks[c] = Away
    /\ \E s \in Sids \ old :
        /\ life[s] # "none"
        /\ asks'[c] = [sid |-> s, late |-> life[s] = "ended", stage |-> "asking"]

Admitted(c) ==
    /\ asks[c].stage = "asking"
    /\ asks[c].late => asks[c].sid \in spoilt
    /\ asks'[c] = [asks[c] EXCEPT !.stage = "admitted"]

Leaves(c) == asks'[c] = Away

Caller(c) == Asks(c) \/ Admitted(c) \/ Leaves(c) \/ asks'[c] = asks[c]

-----------------------------------------------------------------------------

Next ==
    /\ life' \in [Sids -> {"none", "live", "ended"}] /\ \A s \in Sids : Session(s)
    /\ DOMAIN asks' = Callers /\ \A c \in Callers : Caller(c)

Spec == Init /\ [][Next]_svars
=============================================================================
