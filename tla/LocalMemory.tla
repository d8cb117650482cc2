----------------------------- MODULE LocalMemory ----------------------------
(***************************************************************************)
(* The agent's memory file (agent/memory.py): the model writes facts with  *)
(* `remember', the operator lists, confirms and forgets them from another  *)
(* process, and every later run is started with the confirmed ones in its  *)
(* prompt.  Each statement on the SQLite file is atomic; nothing holds     *)
(* between two of them.  A keyless note's key is the time it was written.  *)
(***************************************************************************)
EXTENDS Integers, FiniteSets

CONSTANTS
    Keys,      \* keys the model may name
    Values,    \* values it may write
    Secrets,   \* the <<key, value>> pairs that look like a credential
    MaxItems,  \* render's limit
    MaxWrites, \* BOUND: facts the model writes
    MaxTime    \* BOUND: the clock

VARIABLES
    rows,      \* the table: key -> [value, at, confirmed]
    now, writes,
    seen,      \* what the operator's last list showed of each key
    prompt,    \* what the run under way was started with: <<key, value>>
    sanctioned,\* ghost: <<key, value>> pairs that were confirmed in the table, or predate confirmation
    reviewed   \* ghost: <<key, value>> pairs an operator confirmed after a list showed them

vars == <<rows, now, writes, seen, prompt, sanctioned, reviewed>>

Notes == {<<"note", t>> : t \in 0 .. MaxTime}
Pairs(f) == {<<k, f[k].value>> : k \in DOMAIN f}

\* A file written before confirmation existed: its rows count as confirmed.
Init ==
    /\ \E old \in SUBSET Keys : rows \in [old -> [value : Values, at : {0}, confirmed : {TRUE}]]
    /\ now = 0 /\ writes = 0 /\ seen = <<>> /\ prompt = {}
    /\ sanctioned = Pairs(rows) /\ reviewed = Pairs(rows)

-----------------------------------------------------------------------------
looks_like_secret(k, v) == <<k, v>> \in Secrets

KeepsFlag(k, v) == k \in DOMAIN rows /\ rows[k].confirmed
KeepsConfirmed(k, v) == k \in DOMAIN rows /\ rows[k].confirmed /\ rows[k].value = v

\* The upsert: a changed fact is unconfirmed again.
Upsert(k, v) ==
    rows' = [x \in DOMAIN rows \cup {k} |->
               IF x = k THEN [value |-> v, at |-> now, confirmed |-> KeepsConfirmed(k, v)] ELSE rows[x]]

remember(k, v) ==
    /\ ~looks_like_secret(k, v) /\ writes < MaxWrites
    /\ Upsert(k, v) /\ writes' = writes + 1
    /\ UNCHANGED <<now, seen, prompt, sanctioned, reviewed>>

\* The operator confirms a key that a list has shown; the value is not named.
confirm(k) ==
    /\ k \in DOMAIN rows \cap DOMAIN seen
    /\ rows' = [rows EXCEPT ![k].confirmed = TRUE]
    /\ sanctioned' = sanctioned \cup {<<k, rows[k].value>>}
    /\ reviewed' = reviewed \cup {<<k, seen[k]>>}
    /\ UNCHANGED <<now, writes, seen, prompt>>

forget(k) ==
    /\ k \in DOMAIN rows
    /\ rows' = [x \in DOMAIN rows \ {k} |-> rows[x]]
    /\ UNCHANGED <<now, writes, seen, prompt, sanctioned, reviewed>>

items ==
    /\ seen' = [k \in DOMAIN rows |-> rows[k].value]
    /\ UNCHANGED <<rows, now, writes, prompt, sanctioned, reviewed>>

\* The newest MaxItems confirmed rows, ties by key in some order.
Newest(S) ==
    {T \in SUBSET S : /\ Cardinality(T) = IF Cardinality(S) < MaxItems THEN Cardinality(S) ELSE MaxItems
                      /\ \A t \in T, s \in S \ T : rows[t].at >= rows[s].at}

render ==
    /\ \E T \in Newest({k \in DOMAIN rows : rows[k].confirmed}) : prompt' = {<<k, rows[k].value>> : k \in T}
    /\ UNCHANGED <<rows, now, writes, seen, sanctioned, reviewed>>

Tick == now < MaxTime /\ now' = now + 1 /\ UNCHANGED <<rows, writes, seen, prompt, sanctioned, reviewed>>

Next ==
    \/ \E k \in Keys, v \in Values : remember(k, v)
    \/ \E v \in Values : remember(<<"note", now>>, v)
    \/ \E k \in DOMAIN rows : confirm(k) \/ forget(k)
    \/ items \/ render \/ Tick

Spec == Init /\ [][Next]_vars

-----------------------------------------------------------------------------
\* What a run is started with was confirmed as it stands there: a value that
\* was written over a confirmed one, or came back under a forgotten key, is
\* not in the prompt until it is confirmed itself (remember, render).
RenderedIsConfirmed == prompt \subseteq sanctioned

\* "an unreviewed note re-injected into every later run would let that text
\* steer the agent": the value in the prompt is one the operator was shown
\* when it confirmed its key.
RenderedIsReviewed == prompt \subseteq reviewed
=============================================================================
