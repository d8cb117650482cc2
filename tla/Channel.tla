------------------------------ MODULE Channel ------------------------------
(***************************************************************************)
(* What one direction of a dialogue session promises its owner: a message  *)
(* is handed over at most once, in any order; the sender learns of every   *)
(* reliable message either that it reached the other side or that it was   *)
(* given up, never both; what reached the other side is handed over or     *)
(* refused by the receiver's checks.                                       *)
(***************************************************************************)
EXTENDS Naturals, FiniteSets

VARIABLES
    pool,       \* messages accepted for sending, with whether they are reliable
    taken,      \* messages that reached the receiver whole
    handed,     \* how often each message was handed to the owner
    refused,    \* messages the receiver turned away
    arrived,    \* messages the sender knows to have arrived
    given       \* messages the sender reported undeliverable

vars == <<pool, taken, handed, refused, arrived, given>>

Init ==
    /\ pool = {} /\ taken = {} /\ refused = {} /\ arrived = {} /\ given = {}
    /\ handed = [m \in {} |-> 0]

Known(m) == \E p \in pool : p.msg = m

Accept ==
    /\ \E p \in pool' \ pool : pool' = pool \cup {p} /\ ~Known(p.msg)
    /\ UNCHANGED <<taken, refused, arrived, given>>
    /\ DOMAIN handed' = {p.msg : p \in pool'}
    /\ \A m \in DOMAIN handed' : handed'[m] = IF Known(m) THEN handed[m] ELSE 0

Take ==
    /\ \E p \in pool : taken' = taken \cup {p.msg} /\ taken' # taken
    /\ UNCHANGED <<pool, handed, refused, arrived, given>>

HandOver ==
    /\ \E m \in taken : handed[m] = 0 /\ handed' = [handed EXCEPT ![m] = 1]
    /\ UNCHANGED <<pool, taken, refused, arrived, given>>

Refuse ==
    /\ \E m \in taken : handed[m] = 0 /\ refused' = refused \cup {m}
    /\ UNCHANGED <<pool, taken, handed, arrived, given>>

Learn ==
    /\ \E m \in taken \ given : [msg |-> m, reliable |-> TRUE] \in pool /\ arrived' = arrived \cup {m}
    /\ UNCHANGED <<pool, taken, handed, refused, given>>

\* One look at the clock may give up several messages.
GiveUp ==
    /\ given \subseteq given' /\ given' \cap arrived = {}
    /\ \A m \in given' : [msg |-> m, reliable |-> TRUE] \in pool
    /\ UNCHANGED <<pool, taken, handed, refused, arrived>>

Next == Accept \/ Take \/ HandOver \/ Refuse \/ Learn \/ GiveUp

Spec == Init /\ [][Next]_vars

=============================================================================
