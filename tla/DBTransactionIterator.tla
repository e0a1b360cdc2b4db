----------------------- MODULE DBTransactionIterator -----------------------
(***************************************************************************)
(* CDBTransactionIterator (dbwrapper.h): a cursor over the merge of a      *)
(* transaction's writes with its parent's keys, used by the quorum block   *)
(* processor to scan mined commitments while blocks are being connected.   *)
(* The parent is any ordered cursor; for curDBTransaction it is itself a   *)
(* CDBTransactionIterator.  Keys are integers in the order of              *)
(* DataStreamCmp.  The transaction does not change under the cursor: the   *)
(* callers hold CEvoDB::cs.                                                *)
(***************************************************************************)
EXTENDS Integers, FiniteSets, FiniteSetsExt

CONSTANT MaxKey
ASSUME MaxKeyAssumption == MaxKey \in Nat

Key == 1 .. MaxKey
End == MaxKey + 1           \* past the last key: the cursor is not Valid()

VARIABLES
    parent, writes, deletes,    \* keys of the parent and of the transaction
    transactionIt, parentIt,    \* positions of the two cursors
    parentKey,                  \* copy of the parent's last examined key
    curIsParent,
    start, last                 \* key sought, last key left behind by Next

content == <<parent, writes, deletes>>
vars == <<parent, writes, deletes, transactionIt, parentIt, parentKey,
          curIsParent, start, last>>

TypeOK ==
    /\ parent \subseteq Key /\ writes \subseteq Key /\ deletes \subseteq Key
    /\ transactionIt \in writes \cup {End}
    /\ parentIt \in (parent \ (writes \cup deletes)) \cup {End}
    /\ parentKey \in Key \cup {End}
    /\ curIsParent \in BOOLEAN
    /\ start \in Key \cup {End} /\ last \in 0 .. MaxKey

\* The first key of S that is not below k, or End.
LowerBound(S, k) == Min({x \in S : x >= k} \cup {End})

\* Where the parent's cursor stops when it skips from k on what the
\* transaction deleted or overwrote, and the last key it copied on the way.
SkipDeletedAndOverwritten(k) ==
    LET stop == LowerBound(parent \ (writes \cup deletes), k)
        seen == {x \in parent : k <= x /\ x <= stop}
    IN  /\ parentIt' = stop
        /\ parentKey' = IF seen = {} THEN parentKey ELSE Max(seen)

\* Mutant: the transaction wins whenever it is valid.
DecideCurPrefersWrites ==
    curIsParent' = IF transactionIt' # End THEN FALSE
                   ELSE IF parentIt' # End THEN TRUE
                   ELSE curIsParent

\* Mutant: the case of an exhausted transaction is missing.
DecideCurForgetsParent ==
    curIsParent' = IF transactionIt' # End /\ parentIt' = End THEN FALSE
                   ELSE IF transactionIt' # End THEN ~(transactionIt' < parentKey')
                   ELSE curIsParent

DecideCur ==
    curIsParent' = IF transactionIt' # End /\ parentIt' = End THEN FALSE
                   ELSE IF transactionIt' = End /\ parentIt' # End THEN TRUE
                   ELSE IF transactionIt' # End THEN ~(transactionIt' < parentKey')
                   ELSE curIsParent

Init ==
    /\ parent \in SUBSET Key
    /\ writes \in SUBSET Key
    /\ deletes \in SUBSET (Key \ writes)    \* EvoDB!LayersDisjoint
    /\ transactionIt = End
    /\ parentIt = End
    /\ parentKey = End
    /\ curIsParent = FALSE
    /\ start = End
    /\ last = 0

\* Seek; SeekToFirst is Seek of the smallest key.
Seek(k) ==
    /\ transactionIt' = LowerBound(writes, k)
    /\ SkipDeletedAndOverwritten(k)
    /\ DecideCur
    /\ start' = k
    /\ last' = 0
    /\ UNCHANGED content

Valid == transactionIt # End \/ parentIt # End

GetKey == IF curIsParent THEN parentKey ELSE transactionIt

\* Mutant: the parent is advanced without skipping.
AdvanceNoSkip ==
    /\ Valid
    /\ last' = GetKey
    /\ IF curIsParent
         THEN /\ parentIt' = LowerBound(parent, parentIt + 1)
              /\ parentKey' = parentIt'
              /\ UNCHANGED transactionIt
         ELSE /\ transactionIt' = LowerBound(writes, transactionIt + 1)
              /\ UNCHANGED <<parentIt, parentKey>>
    /\ DecideCur
    /\ UNCHANGED <<parent, writes, deletes, start>>

\* CDBTransactionIterator::Next
Advance ==
    /\ Valid
    /\ last' = GetKey
    /\ IF curIsParent
         THEN /\ SkipDeletedAndOverwritten(parentIt + 1)
              /\ UNCHANGED transactionIt
         ELSE /\ transactionIt' = LowerBound(writes, transactionIt + 1)
              /\ UNCHANGED <<parentIt, parentKey>>
    /\ DecideCur
    /\ UNCHANGED <<parent, writes, deletes, start>>

Next == (\E k \in Key : Seek(k)) \/ Advance

Spec == Init /\ [][Next]_vars

----------------------------------------------------------------------------
(* Properties *)

\* The keys a reader of the transaction can see.
Visible == (parent \ (writes \cup deletes)) \cup writes
Remaining == {k \in Visible : k >= start /\ k > last}

\* The cursor stands on the smallest visible key it has not passed, and is
\* invalid exactly when there is none: no key is skipped, repeated or
\* returned out of order, deleted keys never appear, overwritten ones once.
\* A stale parentKey is never returned.
YieldsVisibleKeysInOrder ==
    /\ Valid <=> Remaining # {}
    /\ Valid => GetKey = Min(Remaining)

\* The assertions of Next: the cursor chosen by DecideCur is valid.
ChosenCursorValid ==
    Valid => IF curIsParent THEN parentIt # End ELSE transactionIt # End

=============================================================================
