------------------------------ MODULE Session ------------------------------
(***************************************************************************)
(* dialogue/session.py and the envelope half of dialogue/protocol.py: one  *)
(* direction of a DialogueSession, from the sender that seals, fragments   *)
(* and retransmits to the receiver that reassembles, acknowledges, opens   *)
(* and hands over, with the sender's judgement of its peer's liveness.     *)
(* The wire keeps every frame put on it: losing a frame is never receiving *)
(* it, a duplicate or a late frame is receiving it again.                  *)
(* A message is named by its sequence number.  The threads: the sender's   *)
(* tick, its receive, the receiver's receive; each lock section is a step. *)
(***************************************************************************)
EXTENDS Integers, Sequences, FiniteSets, SequencesExt

CONSTANTS
    MaxMsg,             \* bound on the messages sealed
    MaxTotal,           \* fragments of the largest message the limit allows
    MaxReassemblies,    \* max_reassemblies
    RetryMax,           \* retry_max
    WindowSize,         \* window of the replay guard
    FragmentCounts,     \* the fragments a message may need
    MaxDown             \* bound on the times the peer falls silent

ASSUME SessionConstants ==
    /\ MaxMsg \in Nat /\ MaxTotal \in Nat /\ MaxDown \in Nat
    /\ {RetryMax, WindowSize, MaxReassemblies} \subseteq Nat \ {0} /\ FragmentCounts \subseteq Nat \ {0}

VARIABLES
    msgs,       \* the messages sealed, by sequence number
    out,        \* _outstanding: the attempts made for a message, 0 = not there
    acks,       \* the messages an acknowledgment was sent for
    asm,        \* _reassembly of the receiver, oldest first
    opening,    \* the message acknowledged and not opened yet, 0 = none
    window,     \* the receiver's _SeqWindow of this session
    trusted,    \* the receiver's trust policy contains the sender
    taken, handed, refused, learned, given,     \* as in Channel
    late,       \* what a tick does after its lock: messages failed, peer down
    hearing,    \* a receive between _heard and the rest: the message acknowledged
    alive,      \* _alive of the sender
    up,         \* the last of on_peer_up, on_peer_down that was called
    downs,      \* the times the peer was found silent
    closed      \* close() stopped the ticks

vars == <<msgs, out, acks, asm, opening, window, trusted, taken, handed, refused,
          learned, given, late, hearing, alive, up, downs, closed>>
sendVars == <<msgs, out>>
recvVars == <<asm, opening, window, taken, handed, refused, acks>>
lifeVars == <<late, hearing, alive, up, downs, closed>>
knowVars == <<learned, given>>

W == INSTANCE ReplayWindow WITH Size <- WindowSize

Msg == 1 .. MaxMsg
Kind == {"packet", "snapshot", "heartbeat"}
None == [failed |-> {}, down |-> FALSE, heartbeat |-> FALSE, on |-> FALSE]
Idle == -1          \* no receive between _heard and the rest; 0 is a frame that is no acknowledgment

default_reliable(kind) == kind = "packet"

\* A message too large is refused after it was sealed: its number is used up.
Sent(m) == m \in DOMAIN msgs /\ msgs[m].total <= MaxTotal
Reliable(m) == default_reliable(msgs[m].kind)
Fragments(m) == 1 .. msgs[m].total

Init ==
    /\ msgs = << >> /\ out = [m \in Msg |-> 0] /\ acks = {}
    /\ asm = << >> /\ opening = 0 /\ window = W!Empty
    /\ trusted = TRUE
    /\ taken = {} /\ handed = [m \in Msg |-> 0] /\ refused = {} /\ learned = {} /\ given = {}
    /\ late = None /\ hearing = Idle /\ alive = TRUE /\ up = TRUE /\ downs = 0 /\ closed = FALSE

\* Sender.seal, and send under its lock: the next number, the outstanding entry.
Sealed(kind, total) ==
    /\ Len(msgs) < MaxMsg
    /\ msgs' = Append(msgs, [kind |-> kind, total |-> total])
    /\ out' = IF default_reliable(kind) /\ total <= MaxTotal
              THEN [out EXCEPT ![Len(msgs) + 1] = 1] ELSE out

send(kind, total) ==
    /\ Sealed(kind, total)
    /\ UNCHANGED <<recvVars, knowVars, lifeVars, trusted>>

Position(m) == {i \in DOMAIN asm : asm[i].id = m}

\* _reassemble: a new message evicts the oldest one at the limit; a part that is
\* there already is dropped; the last part takes the message out.
Started(m) ==
    IF Position(m) # {} THEN asm
    ELSE Append(IF Len(asm) >= MaxReassemblies THEN Tail(asm) ELSE asm, [id |-> m, parts |-> {}])

WithPart(s, m, idx) ==
    [i \in DOMAIN s |-> IF s[i].id = m THEN [s[i] EXCEPT !.parts = @ \cup {idx}] ELSE s[i]]

Parts(s, m) == UNION {s[i].parts : i \in {j \in DOMAIN s : s[j].id = m}}

\* The reassemblies without the one of m.
Without(s, m) == RemoveAt(s, CHOOSE i \in DOMAIN s : s[i].id = m)

\* receive of a fragment up to the acknowledgment, which is sent before the
\* envelope is opened.
\* Mutation: the acknowledgment of a fragment that did not complete its message.
ReceiveEager(m, idx) ==
    LET s == Started(m) IN
    /\ opening = 0
    /\ Sent(m) /\ idx \in Fragments(m)
    /\ acks' = IF Reliable(m) THEN acks \cup {m} ELSE acks
    /\ IF Parts(s, m) \cup {idx} = Fragments(m) /\ idx \notin Parts(s, m)
       THEN /\ asm' = Without(s, m)
            /\ opening' = m /\ taken' = taken \cup {m}
       ELSE asm' = WithPart(s, m, idx) /\ UNCHANGED <<opening, taken>>
    /\ UNCHANGED <<sendVars, window, handed, refused, knowVars, lifeVars, trusted>>

receive(m, idx) ==
    LET s == Started(m) IN
    /\ opening = 0
    /\ Sent(m) /\ idx \in Fragments(m)
    /\ IF Parts(s, m) \cup {idx} = Fragments(m) /\ idx \notin Parts(s, m)
       THEN /\ asm' = Without(s, m)
            /\ opening' = m /\ taken' = taken \cup {m}
            /\ acks' = IF Reliable(m) THEN acks \cup {m} ELSE acks
       ELSE asm' = WithPart(s, m, idx) /\ UNCHANGED <<opening, taken, acks>>
    /\ UNCHANGED <<sendVars, window, handed, refused, knowVars, lifeVars, trusted>>

\* ReplayGuard.admit: `outside` says the time stamp is outside the skew window, or
\* the guard remembers too many live sessions.
admit(m, outside) == ~outside /\ W!accepts(window, m)

\* The message was admitted before and its bit is still in the window.
Replayed(m, outside) ==
    ~outside /\ ~W!accepts(window, m) /\ window.highest - m < WindowSize

\* Mutation of _open: the admitted number is not committed.
OpenUncommitted(outside) ==
    /\ opening # 0
    /\ opening' = 0
    /\ IF trusted /\ admit(opening, outside)
       THEN /\ handed' = IF msgs[opening].kind = "heartbeat" THEN handed
                         ELSE [handed EXCEPT ![opening] = @ + 1]
            /\ UNCHANGED <<refused, window>>
       ELSE /\ refused' = IF trusted /\ Replayed(opening, outside) THEN refused ELSE refused \cup {opening}
            /\ UNCHANGED <<handed, window>>
    /\ UNCHANGED <<sendVars, asm, taken, acks, knowVars, lifeVars, trusted>>

\* _open: open_envelope (trust first, the replay guard last), then on_envelope;
\* a heartbeat is for liveness only.  refused keeps what was turned away for
\* another reason than having been admitted before.
_open(outside) ==
    /\ opening # 0
    /\ opening' = 0
    /\ IF trusted /\ admit(opening, outside)
       THEN /\ window' = W!accepted(window, opening)
            /\ handed' = IF msgs[opening].kind = "heartbeat" THEN handed
                         ELSE [handed EXCEPT ![opening] = @ + 1]
            /\ UNCHANGED refused
       ELSE /\ refused' = IF handed[opening] > 0 \/ (trusted /\ Replayed(opening, outside))
                          THEN refused ELSE refused \cup {opening}
            /\ UNCHANGED <<handed, window>>
    /\ UNCHANGED <<sendVars, asm, taken, acks, knowVars, lifeVars, trusted>>

\* tick at the receiver: reassemblies past their time are dropped, the oldest ones.
expire(n) ==
    /\ n \in 1 .. Len(asm)
    /\ asm' = SubSeq(asm, n + 1, Len(asm))
    /\ UNCHANGED <<sendVars, opening, window, taken, handed, refused, acks, knowVars, lifeVars, trusted>>

Settle(m) ==
    /\ out' = IF m = 0 THEN out ELSE [out EXCEPT ![m] = 0]
    /\ learned' = IF m # 0 /\ out[m] > 0 THEN learned \cup {m} ELSE learned

\* receive at the sender, of an acknowledgment (m) or of any other frame (0).
_heard(m) ==
    /\ hearing = Idle
    /\ m \in acks \cup {0}
    /\ m = 0 => ~alive          \* otherwise nothing changes
    /\ alive' = TRUE
    /\ IF alive THEN Settle(m) /\ UNCHANGED hearing
       ELSE hearing' = m /\ UNCHANGED <<out, learned>>
    /\ UNCHANGED <<msgs, recvVars, given, late, up, downs, closed, trusted>>

on_peer_up ==
    /\ hearing # Idle
    /\ up' = TRUE
    /\ Settle(hearing)
    /\ hearing' = Idle
    /\ UNCHANGED <<msgs, recvVars, given, late, alive, downs, closed, trusted>>

\* Mutation of tick: the attempts are not counted.
TickUncounted(D, down, hb) ==
    LET failed == {m \in D : out[m] >= RetryMax} IN
    /\ ~late.on /\ ~closed
    /\ D \subseteq {m \in Msg : out[m] > 0}
    /\ D # {} \/ down \/ hb
    /\ down => alive /\ downs < MaxDown
    /\ downs' = IF down THEN downs + 1 ELSE downs
    /\ hb => Len(msgs) < MaxMsg
    /\ out' = [m \in Msg |-> IF m \in failed THEN 0 ELSE out[m]]
    /\ alive' = (alive /\ ~down)
    /\ late' = [failed |-> failed, down |-> down, heartbeat |-> hb, on |-> TRUE]
    /\ UNCHANGED <<msgs, recvVars, knowVars, hearing, up, closed, trusted>>

\* Mutation of tick: one attempt too many before a message is given up.
TickOneMore(D, down, hb) ==
    LET failed == {m \in D : out[m] > RetryMax} IN
    /\ ~late.on /\ ~closed
    /\ D \subseteq {m \in Msg : out[m] > 0}
    /\ D # {} \/ down \/ hb
    /\ down => alive /\ downs < MaxDown
    /\ downs' = IF down THEN downs + 1 ELSE downs
    /\ hb => Len(msgs) < MaxMsg
    /\ out' = [m \in Msg |-> IF m \in failed THEN 0 ELSE IF m \in D THEN out[m] + 1 ELSE out[m]]
    /\ alive' = (alive /\ ~down)
    /\ late' = [failed |-> failed, down |-> down, heartbeat |-> hb, on |-> TRUE]
    /\ UNCHANGED <<msgs, recvVars, knowVars, hearing, up, closed, trusted>>

\* tick under its lock: D are the messages whose next_at has come, down says the
\* peer was not heard from for too long, hb that a heartbeat is due.
tick(D, down, hb) ==
    LET failed == {m \in D : out[m] >= RetryMax} IN
    /\ ~late.on /\ ~closed
    /\ D \subseteq {m \in Msg : out[m] > 0}
    /\ D # {} \/ down \/ hb
    /\ down => alive /\ downs < MaxDown
    /\ downs' = IF down THEN downs + 1 ELSE downs
    /\ hb => Len(msgs) < MaxMsg
    /\ out' = [m \in Msg |-> IF m \in failed THEN 0 ELSE IF m \in D THEN out[m] + 1 ELSE out[m]]
    /\ alive' = (alive /\ ~down)
    /\ late' = [failed |-> failed, down |-> down, heartbeat |-> hb, on |-> TRUE]
    /\ UNCHANGED <<msgs, recvVars, knowVars, hearing, up, closed, trusted>>

\* tick after its lock: the frames again and the heartbeat, then the callbacks.
heartbeat ==
    /\ late.heartbeat
    /\ late' = [late EXCEPT !.heartbeat = FALSE]
    /\ IF Len(msgs) < MaxMsg THEN Sealed("heartbeat", 1) ELSE UNCHANGED sendVars
    /\ UNCHANGED <<recvVars, knowVars, hearing, alive, up, downs, closed, trusted>>

tickCalls ==
    /\ late.on /\ ~late.heartbeat
    /\ late' = None
    /\ given' = given \cup late.failed
    /\ up' = (up /\ ~late.down)
    /\ UNCHANGED <<sendVars, recvVars, learned, hearing, alive, downs, closed, trusted>>

\* close: a goodbye that is not retransmitted, and no tick any more.
close ==
    /\ ~closed
    /\ closed' = TRUE
    /\ IF Len(msgs) < MaxMsg THEN Sealed("snapshot", 1) ELSE UNCHANGED sendVars
    /\ UNCHANGED <<recvVars, knowVars, late, hearing, alive, up, downs, trusted>>

\* The sender is revoked at the receiver (TrustPolicy models how that comes about).
revoke ==
    /\ trusted
    /\ trusted' = FALSE
    /\ UNCHANGED <<sendVars, recvVars, knowVars, lifeVars>>

Next ==
    \/ \E k \in Kind \ {"heartbeat"}, t \in FragmentCounts : send(k, t)
    \/ \E m \in DOMAIN msgs : \E idx \in 1 .. msgs[m].total : receive(m, idx)
    \/ \E b \in BOOLEAN : _open(b)
    \/ \E n \in 1 .. MaxReassemblies : expire(n)
    \/ \E m \in 0 .. MaxMsg : _heard(m)
    \/ on_peer_up
    \/ \E D \in SUBSET Msg, d, h \in BOOLEAN : tick(D, d, h)
    \/ heartbeat \/ tickCalls
    \/ close
    \/ revoke

Spec == Init /\ [][Next]_vars

(***************************************************************************)
(* start() ticks for ever on its own thread, so a message that stays       *)
(* outstanding is due again and again, and a tick runs to its end.         *)
(***************************************************************************)
Ticks ==
    /\ \A m \in Msg : SF_vars(\E D \in SUBSET Msg, d, h \in BOOLEAN : m \in D /\ tick(D, d, h))
    /\ WF_vars(heartbeat) /\ WF_vars(tickCalls)

FairSpec == Spec /\ Ticks

(***************************************************************************)
(* Properties.                                                             *)
(***************************************************************************)
TypeOK ==
    /\ msgs \in Seq([kind : Kind, total : FragmentCounts \cup {1}]) /\ Len(msgs) <= MaxMsg
    /\ out \in [Msg -> 0 .. RetryMax] /\ acks \subseteq Msg
    /\ asm \in Seq([id : Msg, parts : SUBSET (1 .. MaxTotal)])
    /\ opening \in 0 .. MaxMsg /\ window \in W!Window
    /\ taken \subseteq Msg /\ handed \in [Msg -> Nat]
    /\ refused \cup learned \cup given \subseteq Msg
    /\ late \in [failed : SUBSET Msg, down : BOOLEAN, heartbeat : BOOLEAN, on : BOOLEAN] /\ hearing \in -1 .. MaxMsg
    /\ downs \in 0 .. MaxDown /\ {trusted, alive, up, closed} \subseteq BOOLEAN

\* What the sender stops retransmitting because it was acknowledged reached the
\* owner, unless the receiver's trust, clock or window refused it: the replay
\* guard never takes a message away that was not handed over before, although the
\* acknowledgment leaves before the envelope is opened (receive, ReplayGuard.admit).
AckedIsHanded ==
    \A m \in acks : m # opening => handed[m] > 0 \/ m \in refused

\* One session direction implements the channel: at most one hand-over for a
\* message, and one answer, arrived or undeliverable, to each reliable one
\* (session.py: fragments, acknowledgments, retransmission, replay window).
C == INSTANCE Channel WITH
        pool <- {[msg |-> m, reliable |-> Reliable(m)] : m \in {n \in DOMAIN msgs : Sent(n)}},
        handed <- [m \in {n \in DOMAIN msgs : Sent(n)} |-> handed[m]],
        arrived <- learned
ImplementsChannel == C!Spec

Answer(m) == m \in learned \cup given \/ closed

\* Every reliable message is acknowledged or reported undeliverable, unless the
\* session is closed first (tick: retry_max attempts, on_undeliverable).
Answered == \A m \in Msg : out[m] > 0 ~> Answer(m)

\* What the session reports undeliverable never reached the other side's owner, as
\* the App's Request says of a request the session gave up ("the node never got it").
GivenUpNeverGot == \A m \in given : handed[m] = 0

\* Once the callbacks are through, the owner was told last what the session
\* thinks of its peer (module docstring: down, and up again when heard from).
OwnerKnows == ~late.on /\ hearing = Idle => up = alive

=============================================================================
