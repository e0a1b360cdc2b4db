------------------------------ MODULE TxStore ------------------------------
(***************************************************************************)
(* What the evo database promises its callers, independent of how it is    *)
(* built: a key/value store with one open transaction, a committed state   *)
(* that is not yet durable, and a durable state that a crash falls back    *)
(* to.  The layered implementation is in EvoDB.tla.                        *)
(***************************************************************************)
CONSTANTS Key, Val, NoVal

VARIABLES
    working,    \* what the code inside a transaction reads
    committed,  \* what survives a rollback of the open transaction
    durable,    \* what survives a crash of the process
    up          \* the process runs

vars == <<working, committed, durable, up>>

Content == [Key -> Val \cup {NoVal}]

Init ==
    /\ durable \in Content
    /\ committed = durable
    /\ working = durable
    /\ up = TRUE

Put(k, v) ==
    /\ working' = [working EXCEPT ![k] = v]
    /\ UNCHANGED <<committed, durable, up>>

Commit ==
    /\ committed' = working
    /\ UNCHANGED <<working, durable, up>>

Rollback ==
    /\ working' = committed
    /\ UNCHANGED <<committed, durable, up>>

\* Making the committed state durable is only legal between transactions.
Flush ==
    /\ working = committed
    /\ durable' = committed
    /\ UNCHANGED <<working, committed, up>>

\* A key that no transaction holds can be stored past them; it is durable at
\* once.
PutRaw(k, v) ==
    /\ working[k] = durable[k] /\ committed[k] = durable[k]
    /\ working' = [working EXCEPT ![k] = v]
    /\ committed' = [committed EXCEPT ![k] = v]
    /\ durable' = [durable EXCEPT ![k] = v]
    /\ UNCHANGED up

\* Only the end of the process takes back what is not durable.
Crash ==
    /\ up /\ up' = FALSE
    /\ working' = durable
    /\ committed' = durable
    /\ UNCHANGED durable

Restart ==
    /\ ~up /\ up' = TRUE
    /\ UNCHANGED <<working, committed, durable>>

Next ==
    \/ \E k \in Key, v \in Val \cup {NoVal} : Put(k, v) \/ PutRaw(k, v)
    \/ Commit
    \/ Rollback
    \/ Flush
    \/ Crash
    \/ Restart

Spec == Init /\ [][Next]_vars

=============================================================================
