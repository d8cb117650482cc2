----------------------------- MODULE MCJournal -----------------------------
(***************************************************************************)
(* The journal and its replication on two instances over one set of nodes: *)
(* `which' says which of them a behaviour is about.                        *)
(*   fork     an author that may lose its file and start again, and two    *)
(*            replicas of it                                               *)
(*   merge    the two replicas are authors, each may be revoked, and there *)
(*            is a forged event; the third node takes no part              *)
(***************************************************************************)
EXTENDS Journal, TLC

CONSTANTS alice, bob, carol

VARIABLE which

OwnFile == [n \in Node |-> n]
Others == Node \ Writer
Replicas == Permutations(Others)

Merging == INSTANCE Journal WITH Node <- Others, Writer <- Others, Handle <- Others,
  Revocable <- Others, MaxLamport <- 2, MaxLoss <- 0, MaxForged <- 1

mcvars == <<vars, which>>

MCInit == Init /\ which \in {"fork", "merge"}

MCNext ==
  /\ UNCHANGED which
  /\ \/ which = "fork" /\ Next
     \/ which = "merge" /\ Merging!Next

MCSpec == MCInit /\ [][MCNext]_mcvars
=============================================================================
