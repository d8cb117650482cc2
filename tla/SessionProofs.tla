---------------------------- MODULE SessionProofs ----------------------------
(***************************************************************************)
(* Proofs about Session for every number of messages and fragments, every  *)
(* window size, retry limit and reassembly limit: its types, what an       *)
(* acknowledgment is worth, and that it implements Channel.                *)
(***************************************************************************)
EXTENDS Session, TLAPS

Envelope == [kind : Kind, total : FragmentCounts \cup {1}]
Late == [failed : SUBSET Msg, down : BOOLEAN, heartbeat : BOOLEAN, on : BOOLEAN]

-----------------------------------------------------------------------------
(* The replay window. *)

\* The message m was admitted, and its bit is still in the window w.
Marked(w, m) == ~W!accepts(w, m) /\ w.highest - m < WindowSize

\* Admitting c keeps the window a window, refuses c and what was refused before,
\* and marks nothing else.
LEMMA WindowAdmits ==
    ASSUME SessionConstants, NEW w \in W!Window, NEW c \in Nat, W!accepts(w, c), NEW v, v = W!accepted(w, c)
    PROVE  /\ v \in W!Window /\ v.highest \in Nat
           /\ ~W!accepts(v, c)
           /\ \A m \in Nat : ~W!accepts(w, m) => ~W!accepts(v, m)
           /\ \A m \in Nat : Marked(v, m) => m = c \/ Marked(w, m)
  <1> USE DEF SessionConstants
  <1>0. WindowSize \in Nat \ {0} /\ w.highest \in Nat \cup {-1} /\ w.bits \subseteq 0 .. (WindowSize - 1)
    BY DEF W!Window, W!None
  <1>1. CASE w.highest = -1
    <2>1. v.highest = c /\ v.bits = {0} /\ v = [highest |-> c, bits |-> {0}]
      BY <1>1 DEF W!accepted, W!None
    <2>2. v \in W!Window
      BY <2>1, <1>0 DEF W!Window
    <2> QED BY <2>1, <2>2, <1>0, <1>1 DEF W!accepts, W!None, Marked
  <1>2. CASE w.highest # -1 /\ c > w.highest
    <2> DEFINE B == {i \in 0 .. (WindowSize - 1) : i = 0 \/ i - (c - w.highest) \in w.bits}
    <2>1. v = [highest |-> c, bits |-> B]
      BY <1>2 DEF W!accepted, W!None, W!ShiftBits
    <2>2. v.highest = c /\ v.bits = B /\ v \in W!Window /\ w.highest \in Nat
      BY <2>1, <1>0, <1>2 DEF W!Window
    <2>3. ~W!accepts(v, c)
      BY <2>2, <1>0 DEF W!accepts, W!None
    <2>4. ASSUME NEW m \in Nat, ~W!accepts(w, m) PROVE ~W!accepts(v, m)
      <3>1. m =< w.highest /\ (w.highest - m < WindowSize => w.highest - m \in w.bits)
        BY <2>4, <1>2, <2>2 DEF W!accepts, W!None
      <3>2. ASSUME c - m < WindowSize PROVE c - m \in B
        <4>1. c - m \in 0 .. (WindowSize - 1) /\ (c - m) - (c - w.highest) = w.highest - m
          BY <3>1, <3>2, <1>0, <1>2, <2>2
        <4>2. w.highest - m < WindowSize
          BY <3>1, <3>2, <1>0, <1>2, <2>2
        <4> QED BY <4>1, <4>2, <3>1
      <3> QED BY <3>1, <3>2, <2>2, <1>2 DEF W!accepts, W!None
    <2>5. ASSUME NEW m \in Nat, Marked(v, m), m # c PROVE Marked(w, m)
      <3>1. m =< c /\ c - m \in B /\ c - m # 0
        BY <2>5, <2>2 DEF Marked, W!accepts, W!None
      <3>2. (c - m) - (c - w.highest) = w.highest - m
        BY <2>2
      <3>3. w.highest - m \in w.bits
        BY <3>1, <3>2
      <3> QED BY <3>3, <1>0, <1>2, <2>2 DEF Marked, W!accepts, W!None
    <2> QED BY <2>2, <2>3, <2>4, <2>5
  <1>3. CASE w.highest # -1 /\ ~(c > w.highest)
    <2>1. w.highest \in Nat /\ w.highest - c \in 0 .. (WindowSize - 1)
      BY <1>3, <1>0 DEF W!accepts, W!None
    <2>2. v = [w EXCEPT !.bits = @ \cup {w.highest - c}]
      BY <1>3 DEF W!accepted, W!None
    <2>3. v.highest = w.highest /\ v.bits = w.bits \cup {w.highest - c} /\ v \in W!Window
      BY <2>1, <2>2 DEF W!Window
    <2>4. \A m \in Nat : w.highest - m = w.highest - c => m = c
      BY <2>1
    <2> QED BY <2>1, <2>3, <2>4, <1>3 DEF W!accepts, W!None, Marked
  <1> QED BY <1>0, <1>1, <1>2, <1>3

-----------------------------------------------------------------------------
(* The invariant: what is acknowledged was taken and is open or opened, what *)
(* is marked in the window was handed over or is a heartbeat, and what is    *)
(* outstanding is reliable and not answered yet.                             *)

Received ==
    /\ acks \subseteq taken /\ \A m \in taken : Sent(m)
    /\ \A m \in acks : Reliable(m)
    /\ opening # 0 => opening \in taken
    /\ \A m \in Msg : handed[m] > 0 => m \in taken /\ ~W!accepts(window, m)
    /\ \A m \in Msg : Marked(window, m) => m \in DOMAIN msgs /\ (handed[m] > 0 \/ msgs[m].kind = "heartbeat")
    /\ AckedIsHanded

Judged ==
    /\ \A m \in Msg : out[m] > 0 => Sent(m) /\ Reliable(m) /\ m \notin learned \cup given \cup late.failed
    /\ learned \subseteq acks /\ learned \cap (given \cup late.failed) = {}
    /\ \A m \in given \cup late.failed : Sent(m) /\ Reliable(m)
    /\ hearing \in acks \cup {0, Idle}

SessionInv == TypeOK /\ Received /\ Judged

-----------------------------------------------------------------------------
(* Sealing a message. *)

\* A sealed message leaves the older ones as they are.
LEMMA SealedGrows ==
    ASSUME SessionConstants, TypeOK, NEW k \in Kind, NEW t \in FragmentCounts \cup {1}, Sealed(k, t),
           NEW n, n = Len(msgs) + 1
    PROVE  /\ n \in Msg \ DOMAIN msgs /\ DOMAIN msgs' = DOMAIN msgs \cup {n}
           /\ msgs' \in Seq(Envelope) /\ Len(msgs') =< MaxMsg
           /\ msgs'[n] = [kind |-> k, total |-> t]
           /\ \A m \in DOMAIN msgs : msgs'[m] = msgs[m] /\ (Reliable(m)' <=> Reliable(m))
           /\ \A m \in DOMAIN msgs : (Sent(m)' <=> Sent(m))
           /\ (Sent(n)' <=> t =< MaxTotal) /\ (Reliable(n)' <=> default_reliable(k))
           /\ out' \in [Msg -> 0 .. RetryMax]
           /\ \A m \in Msg : out'[m] = out[m] \/ (m = n /\ Sent(m)' /\ Reliable(m)')
  <1> DEFINE e == [kind |-> k, total |-> t]
  <1>1. msgs \in Seq(Envelope) /\ Len(msgs) \in Nat /\ e \in Envelope /\ Len(msgs) < MaxMsg /\ MaxMsg \in Nat
    BY DEF TypeOK, Envelope, Sealed, SessionConstants
  <1>2. msgs' = Append(msgs, e)
    BY DEF Sealed
  <1>3. /\ msgs' \in Seq(Envelope) /\ Len(msgs') = n /\ msgs'[n] = e
        /\ \A m \in 1 .. Len(msgs) : msgs'[m] = msgs[m]
    BY <1>1, <1>2
  <1>4. DOMAIN msgs = 1 .. Len(msgs) /\ DOMAIN msgs' = 1 .. n
    BY <1>1, <1>3
  <1>5. n \in Msg \ DOMAIN msgs /\ DOMAIN msgs' = DOMAIN msgs \cup {n} /\ Len(msgs') =< MaxMsg
    BY <1>1, <1>3, <1>4 DEF Msg
  <1>6. \A m \in DOMAIN msgs : msgs'[m] = msgs[m] /\ (Sent(m)' <=> Sent(m)) /\ (Reliable(m)' <=> Reliable(m))
    BY <1>3, <1>4, <1>5 DEF Sent, Reliable
  <1>7. (Sent(n)' <=> t =< MaxTotal) /\ (Reliable(n)' <=> default_reliable(k)) /\ msgs'[n] = e
    BY <1>3, <1>5 DEF Sent, Reliable
  <1>9. out' = IF default_reliable(k) /\ t =< MaxTotal THEN [out EXCEPT ![n] = 1] ELSE out
    BY DEF Sealed
  <1>10. out \in [Msg -> 0 .. RetryMax] /\ 1 \in 0 .. RetryMax
    BY DEF TypeOK, SessionConstants
  <1> HIDE DEF e
  <1>11. out' \in [Msg -> 0 .. RetryMax]
         /\ \A m \in Msg : out'[m] = out[m] \/ (m = n /\ Sent(m)' /\ Reliable(m)')
    BY <1>5, <1>7, <1>9, <1>10
  <1> QED BY <1>3, <1>5, <1>6, <1>7, <1>11 DEF e

\* A sealed message changes nothing about those that are acknowledged or judged.
LEMMA SealedKeeps ==
    ASSUME SessionConstants, SessionInv, NEW k \in Kind, NEW t \in FragmentCounts \cup {1}, Sealed(k, t),
           UNCHANGED <<recvVars, knowVars, hearing>>, late'.failed = late.failed
    PROVE  /\ msgs' \in Seq(Envelope) /\ Len(msgs') =< MaxMsg /\ out' \in [Msg -> 0 .. RetryMax]
           /\ Received' /\ Judged'
  <1> USE DEF SessionInv
  <1>0. PICK n : n = Len(msgs) + 1
    OBVIOUS
  <1>b. TypeOK
    OBVIOUS
  <1>1. /\ n \notin DOMAIN msgs /\ DOMAIN msgs' = DOMAIN msgs \cup {n}
        /\ msgs' \in Seq(Envelope) /\ Len(msgs') =< MaxMsg /\ out' \in [Msg -> 0 .. RetryMax]
        /\ \A m \in DOMAIN msgs : msgs'[m] = msgs[m] /\ (Reliable(m)' <=> Reliable(m))
        /\ \A m \in DOMAIN msgs : (Sent(m)' <=> Sent(m))
        /\ \A m \in Msg : out'[m] = out[m] \/ (m = n /\ Sent(m)' /\ Reliable(m)')
    BY ZenonT(30), <1>0, <1>b, SealedGrows
  <1>2. \A m : Sent(m) => m \in DOMAIN msgs
    BY DEF Sent
  <1>3. UNCHANGED <<asm, opening, window, taken, handed, refused, acks, learned, given, hearing>>
    BY DEF recvVars, knowVars
  <1>4. Received'
    <2>1. acks' \subseteq taken' /\ (\A m \in taken' : Sent(m)') /\ (opening' # 0 => opening' \in taken')
      BY <1>1, <1>2, <1>3 DEF Received
    <2>2. \A m \in acks' : Reliable(m)'
      BY <1>1, <1>2, <1>3 DEF Received
    <2>3. \A m \in Msg : Marked(window, m)' => m \in DOMAIN msgs' /\ (handed'[m] > 0 \/ msgs'[m].kind = "heartbeat")
      BY <1>1, <1>3 DEF Received, Marked
    <2>4. \A m \in Msg : handed'[m] > 0 => m \in taken' /\ ~W!accepts(window', m)
      BY <1>3 DEF Received
    <2>5. AckedIsHanded'
      BY <1>3 DEF Received, AckedIsHanded
    <2> QED BY <2>1, <2>2, <2>3, <2>4, <2>5 DEF Received
  <1>5. Judged'
    <2>1. \A m \in learned \cup given \cup late.failed : m \in DOMAIN msgs
      BY <1>2 DEF Judged, Received
    <2>2. \A m \in Msg : out'[m] > 0 => Sent(m)' /\ Reliable(m)' /\ m \notin learned' \cup given' \cup late'.failed
      BY <1>1, <1>2, <1>3, <2>1 DEF Judged
    <2>3. \A m \in given' \cup late'.failed : Sent(m)' /\ Reliable(m)'
      BY <1>1, <1>2, <1>3 DEF Judged
    <2> QED BY <1>3, <2>2, <2>3 DEF Judged
  <1> QED BY <1>1, <1>4, <1>5

-----------------------------------------------------------------------------
(* Receiving. *)

Reassembly == [id : Msg, parts : SUBSET (1 .. MaxTotal)]

\* Started finds or makes room for the reassembly of m; the others keep their types.
LEMMA ReassemblyTypes ==
    ASSUME SessionConstants, asm \in Seq(Reassembly), NEW m \in Msg, NEW idx \in 1 .. MaxTotal,
           NEW s, s = Started(m)
    PROVE  /\ s \in Seq(Reassembly)
           /\ WithPart(s, m, idx) \in Seq(Reassembly)
           /\ Without(s, m) \in Seq(Reassembly)
  <1> DEFINE r == [id |-> m, parts |-> {}]
  <1>1. r \in Reassembly /\ r.id = m
    BY DEF Reassembly
  <1>2. s \in Seq(Reassembly) /\ \E i \in DOMAIN s : s[i].id = m
    <2>1. CASE Position(m) # {}
      BY <2>1 DEF Started, Position
    <2>2. CASE Position(m) = {}
      <3>1. PICK u : u = IF Len(asm) >= MaxReassemblies THEN Tail(asm) ELSE asm
        OBVIOUS
      <3>2. u \in Seq(Reassembly)
        <4>1. Len(asm) >= MaxReassemblies => asm # << >>
          BY DEF SessionConstants
        <4> QED BY <3>1, <4>1
      <3>3. s = Append(u, r)
        BY <2>2, <3>1 DEF Started
      <3> HIDE DEF r
      <3>4. s \in Seq(Reassembly) /\ Len(s) = Len(u) + 1 /\ s[Len(u) + 1] = r /\ Len(u) \in Nat
        BY <1>1, <3>2, <3>3
      <3>5. Len(u) + 1 \in DOMAIN s
        BY <3>4
      <3> QED BY <1>1, <3>4, <3>5
    <2> QED BY <2>1, <2>2
  <1>3. WithPart(s, m, idx) \in Seq(Reassembly)
    <2>1. ASSUME NEW i \in DOMAIN s
          PROVE  (IF s[i].id = m THEN [s[i] EXCEPT !.parts = @ \cup {idx}] ELSE s[i]) \in Reassembly
      <3>1. s[i] \in Reassembly
        BY <1>2
      <3> QED BY <3>1 DEF Reassembly
    <2>2. DOMAIN s = 1 .. Len(s) /\ Len(s) \in Nat
      BY <1>2
    <2>3. WithPart(s, m, idx) \in [1 .. Len(s) -> Reassembly]
      BY <2>1, <2>2 DEF WithPart
    <2> QED BY <2>2, <2>3
  <1>4. Without(s, m) \in Seq(Reassembly)
    <2>1. PICK i \in DOMAIN s : Without(s, m) = SubSeq(s, 1, i - 1) \o SubSeq(s, i + 1, Len(s))
      BY <1>2 DEF Without, RemoveAt
    <2>2. i \in 1 .. Len(s) /\ Len(s) \in Nat
      BY SMTT(30), <1>2, <2>1
    <2>3. \A j \in 1 .. Len(s) : s[j] \in Reassembly
      BY <1>2
    <2>4. SubSeq(s, 1, i - 1) \in Seq(Reassembly) /\ SubSeq(s, i + 1, Len(s)) \in Seq(Reassembly)
      BY <1>2, <2>2, <2>3
    <2> QED BY <2>1, <2>4
  <1> QED BY <1>2, <1>3, <1>4

LEMMA TotalType == ASSUME SessionConstants, NEW e \in Envelope PROVE e.total \in Nat
  <1>1. PICK t \in FragmentCounts \cup {1} : e.total = t
    BY DEF Envelope
  <1>2. FragmentCounts \subseteq Nat
    BY DEF SessionConstants
  <1>3. t \in Nat
    BY <1>1, <1>2
  <1> QED BY <1>1, <1>3

LEMMA ReceiveKeeps ==
    ASSUME SessionConstants, SessionInv, NEW m \in DOMAIN msgs, NEW idx \in 1 .. msgs[m].total, receive(m, idx)
    PROVE  SessionInv'
  <1> USE DEF SessionInv
  <1>1. PICK s : s = Started(m)
    OBVIOUS
  <1>2. /\ opening = 0 /\ Sent(m)
        /\ asm' = Without(s, m) \/ asm' = WithPart(s, m, idx)
        /\ UNCHANGED <<msgs, out, window, handed, refused, learned, given, late, hearing, alive, up, downs, closed, trusted>>
        /\ \/ opening' = m /\ taken' = taken \cup {m} /\ acks' = (IF Reliable(m) THEN acks \cup {m} ELSE acks)
           \/ UNCHANGED <<opening, taken, acks>>
    BY <1>1 DEF receive, sendVars, knowVars, lifeVars
  <1>3. m \in Msg /\ idx \in 1 .. MaxTotal /\ m # 0
    <2>1. msgs \in Seq(Envelope) /\ Len(msgs) =< MaxMsg /\ MaxMsg \in Nat
      BY DEF TypeOK, Envelope, SessionConstants
    <2>2. m \in 1 .. Len(msgs) /\ Len(msgs) \in Nat /\ msgs[m] \in Envelope
      BY <2>1
    <2>3. msgs[m].total \in Nat /\ msgs[m].total =< MaxTotal
      <3>1. msgs[m] \in Envelope
        BY <2>1
      <3> QED BY <1>2, <3>1, TotalType DEF Sent
    <2> QED BY <2>1, <2>2, <2>3 DEF Msg, SessionConstants
  <1>4. asm' \in Seq(Reassembly)
    <2>1. asm \in Seq(Reassembly)
      BY DEF TypeOK, Reassembly
    <2> QED BY <1>1, <1>2, <1>3, <2>1, ReassemblyTypes
  <1>5. TypeOK'
    <2>1. opening' \in 0 .. MaxMsg /\ taken' \subseteq Msg /\ acks' \subseteq Msg
      <3>1. opening \in 0 .. MaxMsg /\ m \in 0 .. MaxMsg /\ taken \subseteq Msg /\ acks \subseteq Msg
        <4>1. opening \in 0 .. MaxMsg /\ taken \subseteq Msg /\ acks \subseteq Msg
          BY DEF TypeOK
        <4>2. m \in 0 .. MaxMsg
          <5> HIDE DEF SessionInv
          <5> QED BY <1>3 DEF Msg
        <4> QED BY <4>1, <4>2
      <3>2. \/ opening' = m /\ taken' = taken \cup {m} /\ acks' \subseteq acks \cup {m}
            \/ UNCHANGED <<opening, taken, acks>>
        BY <1>2
      <3> QED BY <1>3, <3>1, <3>2
    <2> QED BY <1>2, <1>4, <2>1 DEF TypeOK, Reassembly
  <1>6. Received'
    <2>1. /\ acks' \subseteq taken' /\ (\A n \in taken' : Sent(n)') /\ (\A n \in acks' : Reliable(n)')
          /\ opening' # 0 => opening' \in taken'
      BY <1>2 DEF Received, Sent, Reliable
    <2>2. \A n \in Msg : handed'[n] > 0 => n \in taken' /\ ~W!accepts(window', n)
      BY <1>2 DEF Received
    <2>3. \A n \in Msg : Marked(window, n)' => n \in DOMAIN msgs' /\ (handed'[n] > 0 \/ msgs'[n].kind = "heartbeat")
      BY <1>2 DEF Received, Marked
    <2>4. AckedIsHanded'
      <3> SUFFICES ASSUME NEW n \in acks', n # opening' PROVE handed'[n] > 0 \/ n \in refused'
        BY DEF AckedIsHanded
      <3>1. n \in acks /\ n # 0
        <4>1. n \in Msg
          BY <1>5 DEF TypeOK
        <4>2. n \in acks
          BY <1>2
        <4> QED BY <4>1, <4>2 DEF Msg
      <3> QED BY <1>2, <3>1 DEF Received, AckedIsHanded
    <2> QED BY <2>1, <2>2, <2>3, <2>4 DEF Received
  <1>7. Judged'
    BY <1>2 DEF Judged, Sent, Reliable
  <1> QED BY <1>5, <1>6, <1>7

LEMMA OpenKeeps ==
    ASSUME SessionConstants, SessionInv, NEW b \in BOOLEAN, _open(b)
    PROVE  SessionInv'
  <1> USE DEF SessionInv
  <1>1. PICK m : m = opening
    OBVIOUS
  <1>2. /\ m # 0 /\ opening' = 0 /\ m \in taken /\ Sent(m) /\ m \in Msg /\ m \in Nat
        /\ UNCHANGED <<msgs, out, asm, taken, acks, learned, given, late, hearing, alive, up, downs, closed, trusted>>
    BY <1>1 DEF _open, sendVars, knowVars, lifeVars, Received, TypeOK, Msg
  <1>3. /\ window' \in W!Window /\ handed' \in [Msg -> Nat] /\ refused' \subseteq Msg
        /\ refused \subseteq refused' /\ \A n \in Msg : handed'[n] >= handed[n]
        /\ \A n \in Msg : handed'[n] > 0 => n \in taken /\ ~W!accepts(window', n)
        /\ \A n \in Msg : Marked(window', n) => n \in DOMAIN msgs /\ (handed'[n] > 0 \/ msgs[n].kind = "heartbeat")
        /\ Reliable(m) => handed'[m] > 0 \/ m \in refused'
    <2>1. CASE trusted /\ admit(opening, b)
      <3>1. /\ window' = W!accepted(window, m) /\ W!accepts(window, m) /\ refused' = refused
            /\ handed' = IF msgs[m].kind = "heartbeat" THEN handed ELSE [handed EXCEPT ![m] = @ + 1]
        BY <1>1, <2>1 DEF _open, admit
      <3>2. /\ window' \in W!Window /\ ~W!accepts(window', m)
            /\ \A n \in Nat : ~W!accepts(window, n) => ~W!accepts(window', n)
            /\ \A n \in Nat : Marked(window', n) => n = m \/ Marked(window, n)
        BY <1>2, <3>1, WindowAdmits DEF TypeOK
      <3>3. /\ handed' \in [Msg -> Nat] /\ \A n \in Msg : handed'[n] >= handed[n]
            /\ \A n \in Msg : handed'[n] > 0 => n = m \/ handed[n] > 0
            /\ handed'[m] > 0 \/ msgs[m].kind = "heartbeat"
        BY SMTT(30), <1>2, <3>1 DEF TypeOK
      <3>4. m \in DOMAIN msgs /\ (Reliable(m) => msgs[m].kind # "heartbeat")
        BY <1>2 DEF Sent, Reliable, default_reliable
      <3>5. Msg \subseteq Nat
        BY DEF Msg
      <3>6. \A n \in Msg : handed'[n] > 0 => n \in taken /\ ~W!accepts(window', n)
        BY <1>2, <3>2, <3>3, <3>5 DEF Received
      <3>7. \A n \in Msg : Marked(window', n) => n \in DOMAIN msgs /\ (handed'[n] > 0 \/ msgs[n].kind = "heartbeat")
        <4> SUFFICES ASSUME NEW n \in Msg, Marked(window', n)
                     PROVE  n \in DOMAIN msgs /\ (handed'[n] > 0 \/ msgs[n].kind = "heartbeat")
          OBVIOUS
        <4>1. CASE n = m
          BY <3>3, <3>4, <4>1
        <4>2. CASE n # m
          <5>1. Marked(window, n)
            BY <3>2, <3>5, <4>2
          <5>2. n \in DOMAIN msgs /\ (handed[n] > 0 \/ msgs[n].kind = "heartbeat")
            BY <5>1 DEF Received
          <5>3. handed[n] \in Nat /\ handed'[n] \in Nat /\ handed'[n] >= handed[n]
            BY <3>3 DEF TypeOK
          <5> QED BY <5>2, <5>3
        <4> QED BY <4>1, <4>2
      <3> QED BY <3>1, <3>2, <3>3, <3>4, <3>6, <3>7 DEF TypeOK
    <2>2. CASE ~(trusted /\ admit(opening, b))
      <3>1. /\ handed' = handed /\ window' = window
            /\ refused' = IF handed[m] > 0 \/ (trusted /\ Replayed(m, b)) THEN refused ELSE refused \cup {m}
        BY <1>1, <2>2 DEF _open
      <3>2. ASSUME Replayed(m, b) PROVE handed[m] > 0 \/ msgs[m].kind = "heartbeat"
        <4>1. Marked(window, m)
          BY <3>2 DEF Replayed, Marked
        <4> QED BY <1>2, <4>1 DEF Received
      <3>3. Reliable(m) => msgs[m].kind # "heartbeat"
        BY DEF Reliable, default_reliable
      <3>4. window \in W!Window /\ handed \in [Msg -> Nat] /\ refused \subseteq Msg
        BY DEF TypeOK
      <3>5. \A n \in Msg : handed[n] >= handed[n]
        BY <3>4
      <3> QED BY <1>2, <3>1, <3>2, <3>3, <3>4, <3>5 DEF Received
    <2> QED BY <2>1, <2>2
  <1>4. TypeOK'
    <2>1. opening' \in 0 .. MaxMsg
      BY <1>2 DEF SessionConstants
    <2> QED BY <1>2, <1>3, <2>1 DEF TypeOK
  <1>5. Received'
    <2>1. AckedIsHanded'
      <3> SUFFICES ASSUME NEW n \in acks PROVE handed'[n] > 0 \/ n \in refused'
        BY <1>2 DEF AckedIsHanded
      <3>1. n \in Msg /\ Reliable(n)
        BY DEF TypeOK, Received
      <3>2. handed[n] \in Nat /\ handed'[n] \in Nat /\ handed'[n] >= handed[n]
        BY <1>3, <3>1 DEF TypeOK
      <3> QED BY <1>1, <1>3, <3>1, <3>2 DEF Received, AckedIsHanded
    <2>2. \A n \in Msg : Marked(window, n)' => n \in DOMAIN msgs' /\ (handed'[n] > 0 \/ msgs'[n].kind = "heartbeat")
      BY <1>2, <1>3 DEF Marked
    <2>3. /\ acks' \subseteq taken' /\ (\A n \in taken' : Sent(n)') /\ (\A n \in acks' : Reliable(n)')
          /\ opening' = 0
      BY <1>2 DEF Received, Sent, Reliable
    <2> QED BY <1>2, <1>3, <2>1, <2>2, <2>3 DEF Received
  <1>6. Judged'
    BY <1>2 DEF Judged, Sent, Reliable
  <1> QED BY <1>4, <1>5, <1>6

-----------------------------------------------------------------------------
(* Sending, and judging what was sent. *)

\* TypeOK of what sealing a message leaves alone.
LEMMA SealedStep ==
    ASSUME SessionConstants, SessionInv, NEW k \in Kind, NEW t \in FragmentCounts \cup {1}, Sealed(k, t),
           UNCHANGED <<recvVars, knowVars, hearing, alive, up, downs, trusted>>,
           late' \in Late, late'.failed = late.failed, closed' \in BOOLEAN
    PROVE  SessionInv'
  <1>1. /\ msgs' \in Seq(Envelope) /\ Len(msgs') =< MaxMsg /\ out' \in [Msg -> 0 .. RetryMax]
        /\ Received' /\ Judged'
    BY SealedKeeps
  <1>2. TypeOK'
    BY <1>1 DEF SessionInv, TypeOK, Envelope, Late, recvVars, knowVars
  <1> QED BY <1>1, <1>2 DEF SessionInv

\* Only the liveness variables, the late callbacks or the trust change.
LEMMA LifeStep ==
    ASSUME SessionConstants, SessionInv, UNCHANGED <<sendVars, recvVars, knowVars, hearing, downs>>,
           late' \in Late, late'.failed = late.failed, {trusted, alive, up, closed}' \subseteq BOOLEAN
    PROVE  SessionInv'
  <1>1. UNCHANGED <<msgs, out, asm, opening, window, taken, handed, refused, acks, learned, given, hearing, downs>>
    BY DEF sendVars, recvVars, knowVars
  <1>2. TypeOK'
    BY <1>1 DEF SessionInv, TypeOK, Late
  <1>3. Received'
    BY <1>1 DEF SessionInv, Received, AckedIsHanded, Marked, Sent, Reliable
  <1>4. Judged'
    BY <1>1 DEF SessionInv, Judged, Sent, Reliable
  <1> QED BY <1>2, <1>3, <1>4 DEF SessionInv

LEMMA ExpireKeeps ==
    ASSUME SessionConstants, SessionInv, NEW n \in 1 .. MaxReassemblies, expire(n)
    PROVE  SessionInv'
  <1>1. /\ asm' = SubSeq(asm, n + 1, Len(asm)) /\ n \in 1 .. Len(asm)
        /\ UNCHANGED <<msgs, out, opening, window, taken, handed, refused, acks, learned, given>>
        /\ UNCHANGED <<late, hearing, alive, up, downs, closed, trusted>>
    BY DEF expire, sendVars, knowVars, lifeVars
  <1>2. asm' \in Seq(Reassembly)
    <2>1. asm \in Seq(Reassembly) /\ Len(asm) \in Nat
      BY DEF SessionInv, TypeOK, Reassembly
    <2>2. \A i \in 1 .. Len(asm) : asm[i] \in Reassembly
      BY <2>1
    <2> QED BY <1>1, <2>1, <2>2
  <1>3. TypeOK'
    BY <1>1, <1>2 DEF SessionInv, TypeOK, Reassembly
  <1>4. Received'
    BY <1>1 DEF SessionInv, Received, AckedIsHanded, Marked, Sent, Reliable
  <1>5. Judged'
    BY <1>1 DEF SessionInv, Judged, Sent, Reliable
  <1> QED BY <1>3, <1>4, <1>5 DEF SessionInv

\* An acknowledgment settles its message once.
LEMMA HearKeeps ==
    ASSUME SessionConstants, SessionInv, NEW m \in acks \cup {0},
           Settle(m) \/ UNCHANGED <<out, learned>>, hearing' \in acks \cup {0, Idle},
           UNCHANGED <<msgs, recvVars, given, late, downs, closed, trusted>>,
           {alive, up}' \subseteq BOOLEAN
    PROVE  SessionInv'
  <1> USE DEF SessionInv
  <1>1. UNCHANGED <<msgs, asm, opening, window, taken, handed, refused, acks, given, late, downs, closed, trusted>>
    BY DEF recvVars
  <1>2. /\ out \in [Msg -> 0 .. RetryMax] /\ learned \subseteq Msg /\ acks \subseteq Msg /\ 0 \in 0 .. RetryMax
        /\ 0 \notin Msg /\ MaxMsg \in Nat
    <2>1. out \in [Msg -> 0 .. RetryMax] /\ learned \subseteq Msg /\ acks \subseteq Msg
      BY DEF TypeOK
    <2>2. RetryMax \in Nat /\ MaxMsg \in Nat
      BY DEF SessionConstants
    <2> QED BY <2>1, <2>2 DEF Msg
  <1>3. /\ out' \in [Msg -> 0 .. RetryMax] /\ learned \subseteq learned' /\ learned' \subseteq learned \cup (acks \ {0})
        /\ \A n \in Msg : out'[n] > 0 => out'[n] = out[n] /\ (n \in learned' => n \in learned)
        /\ \A n \in learned' : n \in learned \/ out[n] > 0
    <2>1. CASE Settle(m) /\ m # 0
      BY <1>2, <2>1 DEF Settle
    <2>2. CASE (Settle(m) /\ m = 0) \/ UNCHANGED <<out, learned>>
      BY <1>2, <2>2 DEF Settle
    <2> QED BY <2>1, <2>2
  <1>4. TypeOK'
    <2>1. learned' \subseteq Msg /\ hearing' \in -1 .. MaxMsg
      BY SMTT(30), <1>2, <1>3 DEF Idle, Msg
    <2> QED BY <1>1, <1>3, <2>1 DEF TypeOK
  <1>5. Received'
    BY <1>1 DEF Received, AckedIsHanded, Marked, Sent, Reliable
  <1>6. Judged'
    <2>1. \A n \in Msg : out'[n] > 0 => Sent(n)' /\ Reliable(n)' /\ n \notin learned' \cup given' \cup late'.failed
      BY <1>1, <1>3 DEF Judged, Sent, Reliable
    <2>2. learned' \subseteq acks' /\ learned' \cap (given' \cup late'.failed) = {}
      BY <1>1, <1>2, <1>3 DEF Judged
    <2>3. \A n \in given' \cup late'.failed : Sent(n)' /\ Reliable(n)'
      BY <1>1 DEF Judged, Sent, Reliable
    <2> QED BY <1>1, <2>1, <2>2, <2>3 DEF Judged
  <1> QED BY <1>4, <1>5, <1>6

LEMMA TickKeeps ==
    ASSUME SessionConstants, SessionInv, NEW D \in SUBSET Msg, NEW d \in BOOLEAN, NEW h \in BOOLEAN, tick(D, d, h)
    PROVE  SessionInv'
  <1> USE DEF SessionInv
  <1> DEFINE failed == {m \in D : out[m] >= RetryMax}
  <1>1. /\ D \subseteq {m \in Msg : out[m] > 0}
        /\ out' = [m \in Msg |-> IF m \in failed THEN 0 ELSE IF m \in D THEN out[m] + 1 ELSE out[m]]
        /\ late' = [failed |-> failed, down |-> d, heartbeat |-> h, on |-> TRUE]
        /\ d => downs < MaxDown
        /\ downs' = (IF d THEN downs + 1 ELSE downs) /\ alive' = (alive /\ ~d)
        /\ UNCHANGED <<msgs, asm, opening, window, taken, handed, refused, acks, learned, given, hearing, up, closed, trusted>>
    BY DEF tick, recvVars, knowVars
  <1>2. out \in [Msg -> 0 .. RetryMax] /\ RetryMax \in Nat /\ D \subseteq Msg
    BY DEF TypeOK, SessionConstants
  <1>3. \A m \in D : out[m] > 0
    BY <1>1
  <1>4. late'.failed = failed /\ failed \subseteq D /\ late' \in Late
    BY <1>1, <1>2 DEF Late
  <1>5. out' \in [Msg -> 0 .. RetryMax]
    BY <1>1, <1>2
  <1>6. \A m \in Msg : out'[m] > 0 => out[m] > 0 /\ m \notin failed
    BY <1>1, <1>2, <1>3
  <1> HIDE DEF failed
  <1>7. TypeOK'
    <2>1. downs' \in 0 .. MaxDown /\ alive' \in BOOLEAN
      BY <1>1 DEF TypeOK, SessionConstants
    <2> QED BY <1>1, <1>4, <1>5, <2>1 DEF TypeOK, Late
  <1>8. Received'
    BY <1>1 DEF Received, AckedIsHanded, Marked, Sent, Reliable
  <1>9. Judged'
    <2>1. \A m \in Msg : out'[m] > 0 => Sent(m)' /\ Reliable(m)' /\ m \notin learned' \cup given' \cup late'.failed
      BY <1>1, <1>4, <1>6 DEF Judged, Sent, Reliable
    <2>2. learned' \cap (given' \cup late'.failed) = {}
      BY <1>1, <1>2, <1>3, <1>4 DEF Judged
    <2>3. \A m \in given' \cup late'.failed : Sent(m)' /\ Reliable(m)'
      BY <1>1, <1>2, <1>3, <1>4 DEF Judged, Sent, Reliable
    <2> QED BY <1>1, <2>1, <2>2, <2>3 DEF Judged
  <1> QED BY <1>7, <1>8, <1>9

LEMMA CallsKeep == ASSUME SessionConstants, SessionInv, tickCalls PROVE SessionInv'
  <1> USE DEF SessionInv
  <1>1. /\ late' = None /\ given' = given \cup late.failed /\ up' = (up /\ ~late.down)
        /\ UNCHANGED <<msgs, out, asm, opening, window, taken, handed, refused, acks, learned, hearing, alive, downs, closed, trusted>>
    BY DEF tickCalls, sendVars, recvVars
  <1>2. late'.failed = {} /\ late' \in Late
    BY <1>1 DEF None, Late
  <1>3. TypeOK'
    <2>1. given' \subseteq Msg /\ up' \in BOOLEAN
      BY <1>1 DEF TypeOK
    <2> QED BY <1>1, <1>2, <2>1 DEF TypeOK, Late
  <1>4. Received'
    BY <1>1 DEF Received, AckedIsHanded, Marked, Sent, Reliable
  <1>5. Judged'
    BY <1>1, <1>2 DEF Judged, Sent, Reliable
  <1> QED BY <1>3, <1>4, <1>5

LEMMA SessionStep == ASSUME SessionConstants, SessionInv, [Next]_vars PROVE SessionInv'
  <1>1. late \in Late /\ {trusted, alive, up, closed} \subseteq BOOLEAN /\ MaxMsg \in Nat
    BY DEF SessionInv, TypeOK, Late, SessionConstants
  <1>2. ASSUME NEW k \in Kind \ {"heartbeat"}, NEW t \in FragmentCounts, send(k, t) PROVE SessionInv'
    BY <1>1, <1>2, SealedStep DEF send, lifeVars
  <1>3. ASSUME NEW m \in DOMAIN msgs, NEW idx \in 1 .. msgs[m].total, receive(m, idx) PROVE SessionInv'
    BY <1>3, ReceiveKeeps
  <1>4. ASSUME NEW b \in BOOLEAN, _open(b) PROVE SessionInv'
    BY <1>4, OpenKeeps
  <1>5. ASSUME NEW n \in 1 .. MaxReassemblies, expire(n) PROVE SessionInv'
    BY <1>5, ExpireKeeps
  <1>6. ASSUME NEW m \in 0 .. MaxMsg, _heard(m) PROVE SessionInv'
    <2>1. m \in acks \cup {0} /\ (Settle(m) \/ UNCHANGED <<out, learned>>)
      BY <1>6 DEF _heard
    <2>2. hearing' \in acks \cup {0, Idle}
      BY <1>6, <2>1 DEF _heard, SessionInv, Judged
    <2>3. UNCHANGED <<msgs, recvVars, given, late, downs, closed, trusted>> /\ {alive, up}' \subseteq BOOLEAN
      BY <1>1, <1>6 DEF _heard
    <2> QED BY <2>1, <2>2, <2>3, HearKeeps
  <1>7. CASE on_peer_up
    <2>1. hearing \in acks \cup {0} /\ Settle(hearing) /\ hearing' = Idle
      BY <1>7 DEF on_peer_up, SessionInv, Judged
    <2>2. UNCHANGED <<msgs, recvVars, given, late, downs, closed, trusted>> /\ {alive, up}' \subseteq BOOLEAN
      BY <1>1, <1>7 DEF on_peer_up
    <2>3. PICK m \in acks \cup {0} : m = hearing
      BY <2>1
    <2>4. Settle(m)
      BY <2>1, <2>3
    <2> QED BY <2>1, <2>2, <2>4, HearKeeps
  <1>8. ASSUME NEW D \in SUBSET Msg, NEW d \in BOOLEAN, NEW h \in BOOLEAN, tick(D, d, h) PROVE SessionInv'
    BY <1>8, TickKeeps
  <1>9. CASE heartbeat
    <2>1. late' \in Late /\ late'.failed = late.failed
      BY <1>1, <1>9 DEF heartbeat, Late
    <2>2. CASE Sealed("heartbeat", 1)
      BY <1>1, <1>9, <2>1, <2>2, SealedStep DEF heartbeat, Kind
    <2>3. CASE UNCHANGED sendVars
      BY <1>1, <1>9, <2>1, <2>3, LifeStep DEF heartbeat
    <2> QED BY <1>9, <2>2, <2>3 DEF heartbeat
  <1>10. CASE tickCalls
    BY <1>10, CallsKeep
  <1>11. CASE close
    <2>1. CASE Sealed("snapshot", 1)
      BY <1>1, <1>11, <2>1, SealedStep DEF close, Kind
    <2>2. CASE UNCHANGED sendVars
      BY <1>1, <1>11, <2>2, LifeStep DEF close
    <2> QED BY <1>11, <2>1, <2>2 DEF close
  <1>12. CASE revoke
    BY <1>1, <1>12, LifeStep DEF revoke, lifeVars
  <1>13. CASE UNCHANGED vars
    BY <1>1, <1>13, LifeStep DEF vars, sendVars, recvVars, knowVars
  <1> QED BY <1>2, <1>3, <1>4, <1>5, <1>6, <1>7, <1>8, <1>9, <1>10, <1>11, <1>12, <1>13 DEF Next

LEMMA SessionHolds == Spec => []SessionInv
  <1> USE SessionConstants
  <1>1. Init => SessionInv
    <2> SUFFICES ASSUME Init PROVE SessionInv
      OBVIOUS
    <2>1. W!Empty \in W!Window /\ \A m \in Nat : ~Marked(W!Empty, m)
      BY DEF W!Empty, W!Window, W!None, W!accepts, Marked
    <2>2. TypeOK
      <3>1. 0 \in 0 .. RetryMax /\ 0 \in 0 .. MaxMsg /\ 0 \in 0 .. MaxDown
        BY DEF SessionConstants
      <3>2. hearing \in -1 .. MaxMsg
        BY DEF Init, Idle, SessionConstants
      <3>3. msgs \in Seq([kind : Kind, total : FragmentCounts \cup {1}]) /\ Len(msgs) =< MaxMsg
        BY DEF Init, SessionConstants
      <3>4. late \in [failed : SUBSET Msg, down : BOOLEAN, heartbeat : BOOLEAN, on : BOOLEAN]
        BY DEF Init, None
      <3>5. out \in [Msg -> 0 .. RetryMax] /\ handed \in [Msg -> Nat] /\ opening \in 0 .. MaxMsg /\ downs \in 0 .. MaxDown
        BY <3>1 DEF Init
      <3>6. asm \in Seq([id : Msg, parts : SUBSET (1 .. MaxTotal)]) /\ window \in W!Window
        BY <2>1 DEF Init
      <3>7. /\ acks = {} /\ taken = {} /\ refused = {} /\ learned = {} /\ given = {}
            /\ {trusted, alive, up, closed} \subseteq BOOLEAN
        BY DEF Init
      <3> QED BY <3>2, <3>3, <3>4, <3>5, <3>6, <3>7 DEF TypeOK
    <2>3. Received
      BY <2>1 DEF Init, Received, AckedIsHanded, Msg
    <2>4. Judged
      BY DEF Init, Judged, None
    <2> QED BY <2>2, <2>3, <2>4 DEF SessionInv
  <1>2. SessionInv /\ [Next]_vars => SessionInv'
    BY SessionStep
  <1> QED BY <1>1, <1>2, PTL DEF Spec

\* Every variable keeps its type.
THEOREM TypeCorrect == Spec => []TypeOK
  BY SessionHolds, PTL DEF SessionInv

\* An acknowledgment leaves before the envelope is opened; still, what was
\* acknowledged is handed to the owner or was refused by trust, clock or window
\* before it was ever admitted (DialogueSession.receive, ReplayGuard.admit).
THEOREM AckIsWorthIt == Spec => []AckedIsHanded
  BY SessionHolds, PTL DEF SessionInv, Received

-----------------------------------------------------------------------------
(* The session implements the channel. *)

LEMMA ChannelInit == Init => C!Init
  BY DEF Init, C!Init

\* The channel's messages, and how often each was handed over.
Entry(m) == [msg |-> m, reliable |-> Reliable(m)]
Pool == {Entry(m) : m \in {n \in DOMAIN msgs : Sent(n)}}
HandedOver == [m \in {n \in DOMAIN msgs : Sent(n)} |-> handed[m]]

\* Sealing a message accepts it, or refuses it for its size.
LEMMA SealedAccepts ==
    ASSUME SessionConstants, SessionInv, NEW k \in Kind, NEW t \in FragmentCounts \cup {1}, Sealed(k, t),
           UNCHANGED <<taken, handed, refused, learned, given>>
    PROVE  C!Accept \/ UNCHANGED C!vars
  <1>1. PICK new : new = Len(msgs) + 1
    OBVIOUS
  <1>2. TypeOK
    BY DEF SessionInv
  <1>3. new \in Msg /\ new \notin DOMAIN msgs /\ DOMAIN msgs' = DOMAIN msgs \cup {new}
    BY <1>1, <1>2, SealedGrows
  <1>4. /\ \A m \in DOMAIN msgs : (Sent(m)' <=> Sent(m)) /\ (Reliable(m)' <=> Reliable(m))
        /\ (Sent(new)' <=> t =< MaxTotal) /\ (Reliable(new)' <=> default_reliable(k))
    BY ZenonT(30), <1>1, <1>2, SealedGrows
  <1>5. \A m \in DOMAIN msgs : msgs'[m] = msgs[m]
    BY <1>1, <1>2, SealedGrows
  <1>6. handed[new] = 0
    BY <1>3 DEF SessionInv, Received, TypeOK, Sent
  <1>7. PICK e : e = [msg |-> new, reliable |-> default_reliable(k)]
    OBVIOUS
  <1>8. (\A m \in DOMAIN msgs : Entry(m)' = Entry(m)) /\ Entry(new)' = e /\ e.msg = new
    <2>1. msgs'[new] = [kind |-> k, total |-> t]
      BY <1>1, <1>2 DEF Sealed, TypeOK
    <2> QED BY <1>5, <1>7, <2>1 DEF Entry, Reliable
  <1>9. CASE t =< MaxTotal
    <2>1. Pool' = Pool \cup {e}
      BY <1>3, <1>4, <1>8, <1>9 DEF Pool
    <2>2. \A q \in Pool : q.msg \in DOMAIN msgs /\ Sent(q.msg)
      BY DEF Pool, Entry
    <2>3. \A m \in DOMAIN msgs : Sent(m) => Entry(m) \in Pool /\ Entry(m).msg = m
      BY DEF Pool, Entry
    <2>4. e \notin Pool /\ ~\E q \in Pool : q.msg = e.msg
      BY <1>3, <1>8, <2>2
    <2>5. DOMAIN HandedOver = {n \in DOMAIN msgs : Sent(n)}
          /\ DOMAIN HandedOver' = {n \in DOMAIN msgs : Sent(n)} \cup {new}
      BY <1>3, <1>4, <1>9 DEF HandedOver
    <2>6. DOMAIN HandedOver' = {q.msg : q \in Pool'}
      BY <1>8, <2>1, <2>2, <2>3, <2>5
    <2>7. ASSUME NEW m \in DOMAIN HandedOver'
          PROVE  HandedOver'[m] = IF \E q \in Pool : q.msg = m THEN HandedOver[m] ELSE 0
      <3>1. HandedOver'[m] = handed[m]
        BY <2>7 DEF HandedOver
      <3>2. CASE m = new
        BY <1>3, <1>6, <1>8, <2>2, <3>1, <3>2
      <3>3. CASE m # new
        <4>1. m \in DOMAIN msgs /\ Sent(m)
          BY <2>5, <3>3
        <4>2. HandedOver[m] = handed[m] /\ \E q \in Pool : q.msg = m
          BY <2>3, <4>1 DEF HandedOver
        <4> QED BY <3>1, <4>2
      <3> QED BY <3>2, <3>3
    <2>8. C!Known(e.msg) <=> \E q \in Pool : q.msg = e.msg
      BY DEF C!Known, Pool, Entry
    <2>9. \A m : C!Known(m) <=> \E q \in Pool : q.msg = m
      BY DEF C!Known, Pool, Entry
    <2>10. /\ e \in Pool' \ Pool /\ Pool' = Pool \cup {e} /\ ~C!Known(e.msg)
           /\ UNCHANGED <<taken, refused, learned, given>>
           /\ DOMAIN HandedOver' = {q.msg : q \in Pool'}
           /\ \A m \in DOMAIN HandedOver' : HandedOver'[m] = IF C!Known(m) THEN HandedOver[m] ELSE 0
      BY <2>1, <2>4, <2>6, <2>7, <2>9
    <2> QED BY <2>10 DEF C!Accept, Pool, HandedOver, Entry
  <1>10. CASE ~(t =< MaxTotal)
    <2>1. Pool' = Pool
      BY <1>3, <1>4, <1>8, <1>10 DEF Pool
    <2>2. HandedOver' = HandedOver
      BY <1>3, <1>4, <1>10 DEF HandedOver
    <2> QED BY <2>1, <2>2 DEF C!vars, Pool, HandedOver, Entry
  <1> QED BY <1>9, <1>10

\* What the channel sees when no message is sealed.
LEMMA PoolStays == ASSUME msgs' = msgs PROVE Pool' = Pool /\ (handed' = handed => HandedOver' = HandedOver)
  <1>1. \A m : (Sent(m)' <=> Sent(m)) /\ Entry(m)' = Entry(m)
    BY DEF Sent, Entry, Reliable
  <1> QED BY <1>1 DEF Pool, HandedOver

LEMMA PoolHas ==
    ASSUME SessionInv, NEW m, Sent(m)
    PROVE  /\ Entry(m) \in Pool /\ Entry(m).msg = m /\ HandedOver[m] = handed[m] /\ m \in DOMAIN HandedOver
           /\ Reliable(m) => [msg |-> m, reliable |-> TRUE] \in Pool
  <1>1. m \in {n \in DOMAIN msgs : Sent(n)}
    BY DEF Sent
  <1>2. Reliable(m) => Entry(m) = [msg |-> m, reliable |-> TRUE]
    BY DEF Entry
  <1> QED BY <1>1, <1>2 DEF Pool, HandedOver, Entry

\* A message received whole is taken.
LEMMA ReceiveTakes ==
    ASSUME SessionInv, NEW m, NEW idx, receive(m, idx)
    PROVE  C!Take \/ UNCHANGED C!vars
  <1>1. /\ Sent(m) /\ UNCHANGED <<msgs, handed, refused, learned, given>>
        /\ taken' = taken \cup {m} \/ taken' = taken
    BY DEF receive, sendVars, knowVars
  <1>2. Pool' = Pool /\ HandedOver' = HandedOver /\ Entry(m) \in Pool /\ Entry(m).msg = m
    BY <1>1, PoolStays, PoolHas
  <1>3. CASE taken' = taken
    BY <1>1, <1>2, <1>3 DEF C!vars, Pool, HandedOver, Entry
  <1>4. CASE taken' # taken
    <2>1. \E q \in Pool : taken' = taken \cup {q.msg} /\ taken' # taken
      BY <1>1, <1>2, <1>4
    <2> QED BY <1>1, <1>2, <2>1 DEF C!Take, Pool, HandedOver, Entry
  <1> QED BY <1>3, <1>4

\* An envelope opened is handed over for the first time, refused, or a heartbeat.
LEMMA OpenHandsOver ==
    ASSUME SessionConstants, SessionInv, NEW b \in BOOLEAN, _open(b)
    PROVE  C!HandOver \/ C!Refuse \/ UNCHANGED C!vars
  <1>1. PICK m : m = opening
    OBVIOUS
  <1>2. /\ m \in taken /\ Sent(m) /\ m \in Msg /\ handed \in [Msg -> Nat]
        /\ UNCHANGED <<msgs, taken, learned, given>>
    BY <1>1 DEF _open, sendVars, knowVars, SessionInv, Received, TypeOK
  <1>3. Pool' = Pool /\ HandedOver[m] = handed[m] /\ m \in DOMAIN HandedOver
    BY <1>2, PoolStays, PoolHas
  <1>4. CASE handed' = handed /\ refused' = refused
    BY <1>2, <1>3, <1>4, PoolStays DEF C!vars, Pool, HandedOver, Entry
  <1>5. CASE trusted /\ admit(opening, b)
    <2>1. W!accepts(window, m) /\ refused' = refused
          /\ (handed' = handed \/ handed' = [handed EXCEPT ![m] = @ + 1])
      BY <1>1, <1>5 DEF _open, admit
    <2>2. handed[m] = 0
      BY <1>2, <2>1 DEF SessionInv, Received
    <2>3. CASE handed' = [handed EXCEPT ![m] = @ + 1]
      <3>1. \A n : Sent(n)' <=> Sent(n)
        BY <1>2 DEF Sent
      <3>2. HandedOver' = [HandedOver EXCEPT ![m] = 1]
        <4>1. \A n \in DOMAIN msgs : Sent(n) => n \in Msg
          BY SMTT(30) DEF SessionInv, TypeOK, Msg
        <4>2. DOMAIN HandedOver' = DOMAIN HandedOver /\ HandedOver = [n \in DOMAIN HandedOver |-> handed[n]]
              /\ HandedOver' = [n \in DOMAIN HandedOver |-> handed'[n]]
          BY <1>2, <3>1 DEF HandedOver
        <4>3. \A n \in DOMAIN HandedOver : n \in Msg
          BY <4>1 DEF HandedOver
        <4>4. handed'[m] = 1 /\ \A n \in DOMAIN HandedOver : n # m => handed'[n] = handed[n]
          BY <1>2, <2>2, <2>3, <4>3
        <4> QED BY <4>2, <4>4
      <3>3. \E n \in taken : HandedOver[n] = 0 /\ HandedOver' = [HandedOver EXCEPT ![n] = 1]
        BY <1>2, <1>3, <2>2, <3>2
      <3> QED BY <1>2, <1>3, <2>1, <3>3 DEF C!HandOver, Pool, HandedOver, Entry
    <2> QED BY <1>4, <2>1, <2>3
  <1>6. CASE ~(trusted /\ admit(opening, b))
    <2>1. /\ handed' = handed
          /\ refused' = IF handed[m] > 0 \/ (trusted /\ Replayed(m, b)) THEN refused ELSE refused \cup {m}
      BY <1>1, <1>6 DEF _open
    <2>2. CASE refused' # refused
      <3>1. HandedOver[m] = 0 /\ refused' = refused \cup {m}
        BY <1>2, <1>3, <2>1, <2>2
      <3>2. \E n \in taken : HandedOver[n] = 0 /\ refused' = refused \cup {n}
        BY <1>2, <3>1
      <3>3. HandedOver' = HandedOver
        BY <1>2, <2>1, PoolStays
      <3> QED BY <1>2, <1>3, <3>2, <3>3 DEF C!Refuse, Pool, HandedOver, Entry
    <2> QED BY <1>4, <2>1, <2>2
  <1> QED BY <1>5, <1>6

\* An acknowledgment of an outstanding message tells that it arrived.
LEMMA SettleLearns ==
    ASSUME SessionInv, NEW m \in acks \cup {0}, Settle(m) \/ UNCHANGED <<out, learned>>,
           UNCHANGED <<msgs, taken, handed, refused, given>>
    PROVE  C!Learn \/ UNCHANGED C!vars
  <1>1. Pool' = Pool /\ HandedOver' = HandedOver
    BY PoolStays
  <1>2. CASE learned' = learned
    BY <1>1, <1>2 DEF C!vars, Pool, HandedOver, Entry
  <1>3. CASE learned' # learned
    <2>1. m \in acks /\ out[m] > 0 /\ learned' = learned \cup {m}
      BY <1>3 DEF Settle
    <2>2. m \in taken \ given /\ Sent(m) /\ Reliable(m)
      BY <2>1 DEF SessionInv, Received, Judged, TypeOK
    <2>3. [msg |-> m, reliable |-> TRUE] \in Pool
      BY <2>2, PoolHas
    <2>4. \E n \in taken \ given : [msg |-> n, reliable |-> TRUE] \in Pool /\ learned' = learned \cup {n}
      BY <2>1, <2>2, <2>3
    <2> QED BY <1>1, <2>4 DEF C!Learn, Pool, HandedOver, Entry
  <1> QED BY <1>2, <1>3

\* The callbacks of a tick give messages up that were not learned to have arrived.
LEMMA CallsGiveUp == ASSUME SessionInv, tickCalls PROVE C!GiveUp
  <1>1. given' = given \cup late.failed /\ UNCHANGED <<msgs, taken, handed, refused, learned>>
    BY DEF tickCalls, sendVars, recvVars
  <1>2. Pool' = Pool /\ HandedOver' = HandedOver
    BY <1>1, PoolStays
  <1>3. given' \cap learned = {} /\ \A m \in given' : [msg |-> m, reliable |-> TRUE] \in Pool
    BY <1>1, PoolHas DEF SessionInv, Judged
  <1> QED BY <1>1, <1>2, <1>3 DEF C!GiveUp, Pool, HandedOver, Entry

LEMMA StaysStill ==
    ASSUME UNCHANGED <<msgs, taken, handed, refused, learned, given>> PROVE UNCHANGED C!vars
  BY PoolStays DEF C!vars, Pool, HandedOver, Entry

LEMMA ChannelStep == ASSUME SessionConstants, SessionInv, [Next]_vars PROVE [C!Next]_(C!vars)
  <1> USE DEF C!Next
  <1>1. ASSUME NEW k \in Kind \ {"heartbeat"}, NEW t \in FragmentCounts, send(k, t) PROVE [C!Next]_(C!vars)
    BY <1>1, SealedAccepts DEF send, recvVars, knowVars
  <1>2. ASSUME NEW m \in DOMAIN msgs, NEW idx \in 1 .. msgs[m].total, receive(m, idx) PROVE [C!Next]_(C!vars)
    BY <1>2, ReceiveTakes
  <1>3. ASSUME NEW b \in BOOLEAN, _open(b) PROVE [C!Next]_(C!vars)
    BY <1>3, OpenHandsOver
  <1>4. ASSUME NEW n \in 1 .. MaxReassemblies, expire(n) PROVE [C!Next]_(C!vars)
    BY <1>4, StaysStill DEF expire, sendVars, knowVars
  <1>5. ASSUME NEW m \in 0 .. MaxMsg, _heard(m) PROVE [C!Next]_(C!vars)
    <2>1. m \in acks \cup {0} /\ (Settle(m) \/ UNCHANGED <<out, learned>>)
      BY <1>5 DEF _heard
    <2>2. UNCHANGED <<msgs, taken, handed, refused, given>>
      BY <1>5 DEF _heard, recvVars
    <2> QED BY <2>1, <2>2, SettleLearns
  <1>6. CASE on_peer_up
    <2>1. PICK m \in acks \cup {0} : m = hearing
      BY <1>6 DEF on_peer_up, SessionInv, Judged
    <2>2. Settle(m) /\ UNCHANGED <<msgs, taken, handed, refused, given>>
      BY <1>6, <2>1 DEF on_peer_up, recvVars
    <2> QED BY <2>2, SettleLearns
  <1>7. ASSUME NEW D \in SUBSET Msg, NEW d \in BOOLEAN, NEW h \in BOOLEAN, tick(D, d, h) PROVE [C!Next]_(C!vars)
    BY <1>7, StaysStill DEF tick, recvVars, knowVars
  <1>8. CASE heartbeat
    <2>1. UNCHANGED <<taken, handed, refused, learned, given>>
      BY <1>8 DEF heartbeat, recvVars, knowVars
    <2>2. CASE Sealed("heartbeat", 1)
      BY <2>1, <2>2, SealedAccepts DEF Kind
    <2>3. CASE UNCHANGED sendVars
      BY <2>1, <2>3, StaysStill DEF sendVars
    <2> QED BY <1>8, <2>2, <2>3 DEF heartbeat
  <1>9. CASE tickCalls
    BY <1>9, CallsGiveUp
  <1>10. CASE close
    <2>1. UNCHANGED <<taken, handed, refused, learned, given>>
      BY <1>10 DEF close, recvVars, knowVars
    <2>2. CASE Sealed("snapshot", 1)
      BY <2>1, <2>2, SealedAccepts DEF Kind
    <2>3. CASE UNCHANGED sendVars
      BY <2>1, <2>3, StaysStill DEF sendVars
    <2> QED BY <1>10, <2>2, <2>3 DEF close
  <1>11. CASE revoke
    BY <1>11, StaysStill DEF revoke, sendVars, recvVars, knowVars
  <1>12. CASE UNCHANGED vars
    BY <1>12, StaysStill DEF vars
  <1> QED BY <1>1, <1>2, <1>3, <1>4, <1>5, <1>6, <1>7, <1>8, <1>9, <1>10, <1>11, <1>12 DEF Next

\* One session direction implements the channel: each message is handed over at
\* most once, and each reliable one has one outcome, arrived or undeliverable
\* (session.py: fragments, acknowledgments, retransmission, replay window).
THEOREM SessionImplementsChannel == Spec => ImplementsChannel
  <1>1. Init => C!Init
    BY ChannelInit
  <1>2. SessionInv /\ [Next]_vars => [C!Next]_(C!vars)
    BY SessionConstants, ChannelStep
  <1> QED BY <1>1, <1>2, SessionHolds, PTL DEF Spec, ImplementsChannel, C!Spec

=============================================================================
