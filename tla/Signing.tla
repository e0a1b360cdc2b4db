------------------------------ MODULE Signing ------------------------------
(***************************************************************************)
(* Threshold signing by quorums of masternodes (llmq/signing.cpp,          *)
(* llmq/signing_shares.cpp): every masternode votes for at most one        *)
(* message per request id, signs a share for the quorum it selects, and    *)
(* any member that holds enough shares recovers the quorum's signature.    *)
(*                                                                         *)
(* One LLMQ type.  Time and chain height are one clock: a node that acts   *)
(* at time now has its tip at one of the last Lag + 1 heights, so two      *)
(* members may select different quorums for the same id.  The recovered    *)
(* signature database is seen through what CSigningManager asks of it.     *)
(***************************************************************************)
EXTENDS Integers, FiniteSets

CONSTANTS
    Masternode, Quorum, Id, Msg,
    Members,            \* Members[q]: the valid members of a quorum
    Threshold,          \* Threshold[q]: shares needed to recover
    MaxTime,            \* bound on the clock
    SelectQuorum,       \* SelectQuorum[h][id]: SelectQuorumForSigning at height h
    Lag,                \* how many heights tips may be apart
    MaxAge,             \* -maxrecsigsage
    ReSign,             \* callers may pass allowReSign (InstantSend does)
    NoVote, NoSig

Height == 0 .. MaxTime
Sig == [quorum : Quorum, id : Id, msg : Msg]
Share == [member : Masternode, sig : Sig]
Vote == [msg : Msg, time : Height]

ASSUME QuorumAssumption ==
    /\ Members \in [Quorum -> SUBSET Masternode]
    /\ Threshold \in [Quorum -> Nat]
    /\ \A q \in Quorum : /\ IsFiniteSet(Members[q])
                         /\ 2 * Threshold[q] > Cardinality(Members[q])

ASSUME ClockAssumption ==
    /\ MaxTime \in Nat /\ Lag \in Nat /\ MaxAge \in Nat
    /\ SelectQuorum \in [Height -> [Id -> Quorum]]

\* A quorum stays selectable for less time than a vote is kept: a week against
\* the at most four days of the LLMQ types in llmq/params.h.
ASSUME RetireAssumption ==
    \A h, k \in Height : \A id \in Id :
        SelectQuorum[h][id] = SelectQuorum[k][id] => k - h <= MaxAge - Lag

ASSUME NoneAssumption == NoVote \notin Vote /\ NoSig \notin Sig /\ ReSign \in BOOLEAN

VARIABLES
    now,
    vote,           \* rs_v, rs_vt: on disk
    recSig,         \* rs_r: the recovered signature stored for an id, on disk
    byHash,         \* rs_h: recovered signatures known by hash, on disk
    pendingSigns,   \* what the worker thread has been asked to sign
    sigShares,      \* verified shares a node holds
    sent,           \* every share that was ever released to the network
    recovered       \* every signature that was ever recovered

disk == <<vote, recSig, byHash>>
vars == <<now, vote, recSig, byHash, pendingSigns, sigShares, sent, recovered>>

TypeOK ==
    /\ now \in Height
    /\ vote \in [Masternode -> [Id -> Vote \cup {NoVote}]]
    /\ recSig \in [Masternode -> [Id -> Sig \cup {NoSig}]]
    /\ byHash \in [Masternode -> SUBSET Sig]
    /\ pendingSigns \in [Masternode -> SUBSET Sig]
    /\ sigShares \in [Masternode -> SUBSET Share]
    /\ sent \subseteq Share
    /\ recovered \subseteq Sig

Init ==
    /\ now = 0
    /\ vote = [n \in Masternode |-> [id \in Id |-> NoVote]]
    /\ recSig = [n \in Masternode |-> [id \in Id |-> NoSig]]
    /\ byHash = [n \in Masternode |-> {}]
    /\ pendingSigns = [n \in Masternode |-> {}]
    /\ sigShares = [n \in Masternode |-> {}]
    /\ sent = {} /\ recovered = {}

Tick ==
    /\ now < MaxTime
    /\ now' = now + 1
    /\ UNCHANGED <<disk, pendingSigns, sigShares, sent, recovered>>

\* The heights a tip may have now.
TipHeights == {h \in Height : h <= now /\ now <= h + Lag}

----------------------------------------------------------------------------
(* CSigningManager *)

\* A vote binds: a member never votes for two messages of one id, and signs
\* again only when the caller asks for it.
MayVoteFor(n, id, m) ==
    vote[n][id] # NoVote => vote[n][id].msg = m /\ ReSign

\* The vote is written before the share is queued.  A node that has the
\* recovered signature already does nothing.
AsyncSignIfMember(n, id, m) ==
    \E h \in TipHeights :
        LET q == SelectQuorum[h][id]
        IN  /\ n \in Members[q]
            /\ MayVoteFor(n, id, m)
            /\ recSig[n][id] = NoSig
            /\ vote' = IF vote[n][id] # NoVote THEN vote
                       ELSE [vote EXCEPT ![n][id] = [msg |-> m, time |-> now]]
            /\ pendingSigns' = [pendingSigns EXCEPT
                   ![n] = @ \cup {[quorum |-> q, id |-> id, msg |-> m]}]
            /\ UNCHANGED <<now, recSig, byHash, sigShares, sent, recovered>>

SharesFor(S, s) == {x \in S : x.sig = s}

\* ProcessRecoveredSig, with the session's shares S still in memory: the first
\* signature for an id is stored and stays, HandleNewRecoveredSig drops the
\* shares.
ProcessRecoveredSig(n, s, S) ==
    IF s \in byHash[n] \/ recSig[n][s.id] # NoSig
      THEN /\ sigShares' = [sigShares EXCEPT ![n] = S]
           /\ UNCHANGED <<recSig, byHash>>
      ELSE /\ recSig' = [recSig EXCEPT ![n][s.id] = s]
           /\ byHash' = [byHash EXCEPT ![n] = @ \cup {s}]
           /\ sigShares' = [sigShares EXCEPT ![n] = S \ SharesFor(S, s)]

\* A QSIGREC message, or a signature reconstructed from an ISLOCK or CLSIG.
ReceiveRecoveredSig(n, s) ==
    /\ s \in recovered
    /\ s \notin byHash[n] /\ recSig[n][s.id] = NoSig
    /\ ProcessRecoveredSig(n, s, sigShares[n])
    /\ UNCHANGED <<now, vote, pendingSigns, sent, recovered>>

\* InstantSend lets go of a signature it no longer needs; the hash stays.
TruncateRecoveredSig(n, id) ==
    /\ recSig[n][id] # NoSig
    /\ recSig' = [recSig EXCEPT ![n][id] = NoSig]
    /\ UNCHANGED <<now, vote, byHash, pendingSigns, sigShares, sent, recovered>>

\* The age of a stored signature is not kept, and the time key of an earlier
\* signature for the id may remove a newer one: once anything can be MaxAge
\* old, any signature may go.
CleanupOldRecoveredSigs(n, id) ==
    /\ now > MaxAge
    /\ recSig[n][id] # NoSig
    /\ recSig' = [recSig EXCEPT ![n][id] = NoSig]
    /\ byHash' = [byHash EXCEPT ![n] = @ \ {recSig[n][id]}]
    /\ UNCHANGED <<now, vote, pendingSigns, sigShares, sent, recovered>>

\* Mutant: votes are dropped one unit too early.
ExpiredEarly(v) == v # NoVote /\ v.time < now - MaxAge + 1

Expired(v) == v # NoVote /\ v.time < now - MaxAge

CleanupOldVotes(n) ==
    /\ \E id \in Id : Expired(vote[n][id])
    /\ vote' = [vote EXCEPT
           ![n] = [id \in Id |-> IF Expired(@[id]) THEN NoVote ELSE @[id]]]
    /\ UNCHANGED <<now, recSig, byHash, pendingSigns, sigShares, sent, recovered>>

----------------------------------------------------------------------------
(* CSigSharesManager *)

\* Mutant: one share less is enough.
CanRecoverEarly(S, s) == Cardinality(SharesFor(S, s)) >= Threshold[s.quorum] - 1

\* sigShareCount >= threshold
CanRecover(S, s) == Cardinality(SharesFor(S, s)) >= Threshold[s.quorum]

\* ProcessSigShare and TryRecoverSig: nothing is kept once the id is done.
ProcessSigShare(n, x) ==
    LET S == sigShares[n] \cup {x}
    IN  IF recSig[n][x.sig.id] # NoSig
          THEN UNCHANGED <<recSig, byHash, sigShares, recovered>>
          ELSE IF CanRecover(S, x.sig)
          THEN /\ recovered' = recovered \cup {x.sig}
               /\ ProcessRecoveredSig(n, x.sig, S)
          ELSE /\ sigShares' = [sigShares EXCEPT ![n] = S]
               /\ UNCHANGED <<recSig, byHash, recovered>>

\* The worker thread signs what AsyncSign queued.
SignPendingSigShares(n, s) ==
    /\ s \in pendingSigns[n]
    /\ pendingSigns' = [pendingSigns EXCEPT ![n] = @ \ {s}]
    /\ sent' = sent \cup {[member |-> n, sig |-> s]}
    /\ ProcessSigShare(n, [member |-> n, sig |-> s])
    /\ UNCHANGED <<now, vote>>

\* A share arrives at another member: late, twice, or not at all.
ReceiveSigShare(n, x) ==
    /\ x \in sent \ sigShares[n]
    /\ n \in Members[x.sig.quorum]
    /\ ProcessSigShare(n, x)
    /\ UNCHANGED <<now, vote, pendingSigns, sent>>

\* Cleanup: a session times out, is done, or its quorum became inactive.
RemoveSigSharesForSession(n, s) ==
    /\ SharesFor(sigShares[n], s) # {}
    /\ sigShares' = [sigShares EXCEPT ![n] = @ \ SharesFor(@, s)]
    /\ UNCHANGED <<now, disk, pendingSigns, sent, recovered>>

\* The process dies and is started again.
Crash(n) ==
    /\ pendingSigns' = [pendingSigns EXCEPT ![n] = {}]
    /\ sigShares' = [sigShares EXCEPT ![n] = {}]
    /\ UNCHANGED <<now, disk, sent, recovered>>

Next ==
    \/ Tick
    \/ \E n \in Masternode :
         \/ \E id \in Id : \E m \in Msg : AsyncSignIfMember(n, id, m)
         \/ \E s \in recovered : ReceiveRecoveredSig(n, s)
         \/ \E id \in Id : TruncateRecoveredSig(n, id)
         \/ \E id \in Id : CleanupOldRecoveredSigs(n, id)
         \/ CleanupOldVotes(n)
         \/ \E s \in pendingSigns[n] : SignPendingSigShares(n, s)
         \/ \E x \in sent : ReceiveSigShare(n, x)
         \/ \E x \in sigShares[n] : RemoveSigSharesForSession(n, x.sig)
         \/ Crash(n)

Spec == Init /\ [][Next]_vars

----------------------------------------------------------------------------
(* Properties *)

\* The quorum of s cannot be selected for its id any more.
Retired(s) ==
    \A h \in Height : now <= h + Lag => SelectQuorum[h][s.id] # s.quorum

\* What a member has signed, or is about to sign.
Commits(n, s) == s \in pendingSigns[n] \/ [member |-> n, sig |-> s] \in sent

\* A member that signs has its vote for that very message on disk, whatever it
\* forgot in a crash, for as long as the quorum can be selected: the vote is
\* written first, and CleanupOldVotes comes too late to release it.
SharesAreVoted ==
    \A n \in Masternode : \A s \in pendingSigns[n] \cup {x.sig : x \in sent} :
        Commits(n, s) => \/ Retired(s)
                         \/ vote[n][s.id] # NoVote /\ vote[n][s.id].msg = s.msg

\* A quorum recovers at most one message per id: the members' votes, kept
\* longer than the quorum can be selected, leave no second majority.  Crashes,
\* late shares and forgotten sessions do not change that.
OneMessagePerQuorum ==
    \A s, t \in recovered : s.quorum = t.quorum /\ s.id = t.id => s.msg = t.msg

\* "a majority is only possible on one quorum and one msgHash per id"
OneMessagePerId ==
    \A s, t \in recovered : s.id = t.id => s.msg = t.msg

=============================================================================
