SPECIFICATION MCSpec
CONSTANTS
    alice = alice
    bob = bob
    carol = carol
    Node = {alice, bob, carol}
    Writer = {alice}
    Handle = {alice, bob, carol}
    NodeOf <- OwnFile
    Revocable = {}
    Time = {0}
    MaxSeq = 2
    MaxLamport = 3
    MaxNet = 2
    MaxLoss = 1
    MaxForged = 0
INVARIANTS
  VerifyOK
  ForkConsistency
PROPERTIES
  LamportCausality
CHECK_DEADLOCK FALSE
SYMMETRY Replicas
