--------------------------- MODULE SigningProofs ---------------------------
(***************************************************************************)
(* For every set of masternodes, every family of quorums whose threshold   *)
(* is a majority and every selection that retires a quorum before votes    *)
(* for it are forgotten: a quorum recovers at most one message per id.     *)
(*                                                                         *)
(* The argument: (Bound) what a member signs is either voted for on disk,  *)
(* by a vote that is younger than the quorum's last selection, or belongs  *)
(* to a retired quorum; so (SignsOnce) no member ever signs two messages   *)
(* of one id for one quorum; (Backed) every recovered signature has a      *)
(* majority of the members behind it; and two majorities meet.             *)
(***************************************************************************)
EXTENDS Signing, FiniteSetTheorems, TLAPS

ShareOf(n, s) == [member |-> n, sig |-> s]
Signers(s) == {n \in Members[s.quorum] : ShareOf(n, s) \in sent}

\* The vote that stands behind a signature was cast while the quorum of the
\* signature could be selected.
HasVote(n, s) ==
    /\ vote[n][s.id] \in Vote
    /\ vote[n][s.id].msg = s.msg
    /\ \E h \in Height : h <= vote[n][s.id].time /\ SelectQuorum[h][s.id] = s.quorum

Bound ==
    \A n \in Masternode : \A s \in Sig :
        Commits(n, s) => n \in Members[s.quorum] /\ (Retired(s) \/ HasVote(n, s))

SignsOnce ==
    \A n \in Masternode : \A s, t \in Sig :
        Commits(n, s) /\ Commits(n, t) /\ s.quorum = t.quorum /\ s.id = t.id
            => s.msg = t.msg

Held == \A n \in Masternode : sigShares[n] \subseteq sent

Backed == \A s \in recovered : Cardinality(Signers(s)) >= Threshold[s.quorum]

IInv == TypeOK /\ Bound /\ SignsOnce /\ Held /\ Backed

----------------------------------------------------------------------------
(* Type correctness *)

LEMMA TypeInit == Init => TypeOK
  BY ClockAssumption DEF Init, TypeOK, Height

LEMMA SigType ==
    ASSUME TypeOK, NEW h \in Height, NEW id \in Id, NEW m \in Msg
    PROVE  [quorum |-> SelectQuorum[h][id], id |-> id, msg |-> m] \in Sig
  BY Zenon, ClockAssumption DEF Sig

LEMMA ProcessRecoveredSigType ==
    ASSUME TypeOK, NEW n \in Masternode, NEW s \in Sig, NEW S \in SUBSET Share,
           ProcessRecoveredSig(n, s, S)
    PROVE  /\ recSig' \in [Masternode -> [Id -> Sig \cup {NoSig}]]
           /\ byHash' \in [Masternode -> SUBSET Sig]
           /\ sigShares' \in [Masternode -> SUBSET Share]
<1>1. s.id \in Id
  BY Zenon DEF Sig
<1>2. SharesFor(S, s) \subseteq Share
  BY Zenon DEF SharesFor
<1>3. recSig' = recSig \/ recSig' = [recSig EXCEPT ![n][s.id] = s]
  BY Zenon DEF ProcessRecoveredSig
<1>4. byHash' = byHash \/ byHash' = [byHash EXCEPT ![n] = @ \cup {s}]
  BY Zenon DEF ProcessRecoveredSig
<1>5. sigShares' = [sigShares EXCEPT ![n] = S]
      \/ sigShares' = [sigShares EXCEPT ![n] = S \ SharesFor(S, s)]
  BY Zenon DEF ProcessRecoveredSig
<1>6. [recSig[n] EXCEPT ![s.id] = s] \in [Id -> Sig \cup {NoSig}]
  BY Zenon, <1>1 DEF TypeOK
<1>7. recSig' \in [Masternode -> [Id -> Sig \cup {NoSig}]]
  <2>1. CASE recSig' = recSig
    BY Zenon, <2>1 DEF TypeOK
  <2>2. CASE recSig' = [recSig EXCEPT ![n][s.id] = s]
    <3>1. recSig' = [recSig EXCEPT ![n] = [recSig[n] EXCEPT ![s.id] = s]]
      BY Zenon, <2>2
    <3> QED
      BY Zenon, <3>1, <1>6 DEF TypeOK
  <2> QED
    BY Zenon, <1>3, <2>1, <2>2
<1>8. byHash' \in [Masternode -> SUBSET Sig]
  BY <1>4 DEF TypeOK
<1>9. sigShares' \in [Masternode -> SUBSET Share]
  BY SMTT(30), <1>2, <1>5 DEF TypeOK
<1> QED
  BY Zenon, <1>7, <1>8, <1>9

LEMMA ProcessSigShareType ==
    ASSUME TypeOK, NEW n \in Masternode, NEW x \in Share, ProcessSigShare(n, x)
    PROVE  /\ recSig' \in [Masternode -> [Id -> Sig \cup {NoSig}]]
           /\ byHash' \in [Masternode -> SUBSET Sig]
           /\ sigShares' \in [Masternode -> SUBSET Share]
           /\ recovered' \subseteq Sig
<1>1. x.sig \in Sig
  BY Zenon DEF Share
<1>2. sigShares[n] \cup {x} \in SUBSET Share
  BY Zenon DEF TypeOK
<1>3. CASE recSig[n][x.sig.id] # NoSig
  BY Zenon, <1>3 DEF ProcessSigShare, TypeOK
<1>4. CASE /\ recSig[n][x.sig.id] = NoSig
           /\ CanRecover(sigShares[n] \cup {x}, x.sig)
  <2>1. ProcessRecoveredSig(n, x.sig, sigShares[n] \cup {x})
    BY Zenon, <1>4 DEF ProcessSigShare
  <2>2. recovered' = recovered \cup {x.sig}
    BY Zenon, <1>4 DEF ProcessSigShare
  <2> QED
    BY Zenon, <2>1, <2>2, <1>1, <1>2, ProcessRecoveredSigType DEF TypeOK
<1>5. CASE /\ recSig[n][x.sig.id] = NoSig
           /\ ~CanRecover(sigShares[n] \cup {x}, x.sig)
  BY Zenon, <1>5, <1>2 DEF ProcessSigShare, TypeOK
<1> QED
  BY Zenon, <1>3, <1>4, <1>5

LEMMA TypeStep == TypeOK /\ [Next]_vars => TypeOK'
<1> SUFFICES ASSUME TypeOK, [Next]_vars
             PROVE  TypeOK'
  BY Zenon
<1>1. CASE Tick
  BY <1>1, ClockAssumption DEF Tick, TypeOK, disk, Height, Vote
<1>2. ASSUME NEW n \in Masternode, NEW id \in Id, NEW m \in Msg, AsyncSignIfMember(n, id, m)
      PROVE  TypeOK'
  <2>1. PICK h \in TipHeights :
            /\ vote' = IF vote[n][id] # NoVote THEN vote
                       ELSE [vote EXCEPT ![n][id] = [msg |-> m, time |-> now]]
            /\ pendingSigns' = [pendingSigns EXCEPT ![n] = @ \cup
                   {[quorum |-> SelectQuorum[h][id], id |-> id, msg |-> m]}]
            /\ UNCHANGED <<now, recSig, byHash, sigShares, sent, recovered>>
    BY <1>2, Zenon DEF AsyncSignIfMember
  <2>2. [quorum |-> SelectQuorum[h][id], id |-> id, msg |-> m] \in Sig
    BY Zenon, SigType DEF TipHeights
  <2>3. [msg |-> m, time |-> now] \in Vote
    BY Zenon DEF TypeOK, Vote
  <2>4. vote' \in [Masternode -> [Id -> Vote \cup {NoVote}]]
    <3>1. [vote[n] EXCEPT ![id] = [msg |-> m, time |-> now]] \in [Id -> Vote \cup {NoVote}]
      BY Zenon, <2>3 DEF TypeOK
    <3>2. vote' = vote \/ vote' = [vote EXCEPT ![n] = [vote[n] EXCEPT ![id] = [msg |-> m, time |-> now]]]
      BY Zenon, <2>1
    <3> QED
      BY <3>1, <3>2, Zenon DEF TypeOK
  <2>5. pendingSigns' \in [Masternode -> SUBSET Sig]
    BY Zenon, <2>1, <2>2 DEF TypeOK
  <2> QED
    BY Zenon, <2>1, <2>4, <2>5 DEF TypeOK
<1>3. ASSUME NEW n \in Masternode, NEW s \in recovered, ReceiveRecoveredSig(n, s)
      PROVE  TypeOK'
  <2>1. s \in Sig /\ sigShares[n] \in SUBSET Share
    BY Zenon DEF TypeOK
  <2>2. ProcessRecoveredSig(n, s, sigShares[n])
        /\ UNCHANGED <<now, vote, pendingSigns, sent, recovered>>
    BY Zenon, <1>3 DEF ReceiveRecoveredSig
  <2> QED
    BY Zenon, <2>1, <2>2, ProcessRecoveredSigType DEF TypeOK
<1>4. ASSUME NEW n \in Masternode, NEW id \in Id, TruncateRecoveredSig(n, id)
      PROVE  TypeOK'
  BY Zenon, <1>4 DEF TruncateRecoveredSig, TypeOK
<1>4a. ASSUME NEW n \in Masternode, NEW id \in Id, CleanupOldRecoveredSigs(n, id)
       PROVE  TypeOK'
  <2>1. /\ recSig' = [recSig EXCEPT ![n] = [recSig[n] EXCEPT ![id] = NoSig]]
        /\ byHash' = [byHash EXCEPT ![n] = @ \ {recSig[n][id]}]
        /\ UNCHANGED <<now, vote, pendingSigns, sigShares, sent, recovered>>
    BY Zenon, <1>4a DEF CleanupOldRecoveredSigs
  <2>2. byHash' \in [Masternode -> SUBSET Sig]
    BY Zenon, <2>1 DEF TypeOK
  <2>3. [recSig[n] EXCEPT ![id] = NoSig] \in [Id -> Sig \cup {NoSig}]
    BY Zenon DEF TypeOK
  <2>4. recSig' \in [Masternode -> [Id -> Sig \cup {NoSig}]]
    BY Zenon, <2>1, <2>3 DEF TypeOK
  <2> QED
    BY Zenon, <2>1, <2>2, <2>4 DEF TypeOK
<1>5. ASSUME NEW n \in Masternode, CleanupOldVotes(n)
      PROVE  TypeOK'
  <2>1. vote' = [vote EXCEPT ![n] =
                    [id \in Id |-> IF Expired(@[id]) THEN NoVote ELSE @[id]]]
    BY Zenon, <1>5 DEF CleanupOldVotes
  <2>2. vote' \in [Masternode -> [Id -> Vote \cup {NoVote}]]
    BY Zenon, <2>1 DEF TypeOK
  <2> QED
    BY Zenon, <1>5, <2>2 DEF CleanupOldVotes, TypeOK
<1>6. ASSUME NEW n \in Masternode, NEW s \in pendingSigns[n], SignPendingSigShares(n, s)
      PROVE  TypeOK'
  <2>1. s \in Sig
    BY Zenon DEF TypeOK
  <2>2. [member |-> n, sig |-> s] \in Share
    BY Zenon, <2>1 DEF Share
  <2>3. ProcessSigShare(n, [member |-> n, sig |-> s])
    BY Zenon, <1>6 DEF SignPendingSigShares
  <2> QED
    BY Zenon, <1>6, <2>2, <2>3, ProcessSigShareType DEF SignPendingSigShares, TypeOK
<1>7. ASSUME NEW n \in Masternode, NEW x \in sent, ReceiveSigShare(n, x)
      PROVE  TypeOK'
  <2>1. x \in Share
    BY Zenon DEF TypeOK
  <2> QED
    BY Zenon, <1>7, <2>1, ProcessSigShareType DEF ReceiveSigShare, TypeOK
<1>8. ASSUME NEW n \in Masternode, NEW x \in sigShares[n], RemoveSigSharesForSession(n, x.sig)
      PROVE  TypeOK'
  BY Zenon, <1>8 DEF RemoveSigSharesForSession, TypeOK, disk
<1>9. ASSUME NEW n \in Masternode, Crash(n)
      PROVE  TypeOK'
  BY Zenon, <1>9 DEF Crash, TypeOK, disk
<1>10. CASE UNCHANGED vars
  BY Zenon, <1>10 DEF vars, TypeOK
<1> QED
  BY Zenon, <1>1, <1>2, <1>3, <1>4, <1>4a, <1>5, <1>6, <1>7, <1>8, <1>9, <1>10 DEF Next

\* Type correctness of votes, signatures, shares and queues.
THEOREM TypeCorrect == Spec => []TypeOK
  BY TypeInit, TypeStep, PTL DEF Spec
----------------------------------------------------------------------------
(* Votes and quorums *)

\* Time only retires quorums.
LEMMA RetiredStays ==
    ASSUME NEW s \in Sig, TypeOK, TypeOK', now' >= now, Retired(s)
    PROVE  Retired(s)'
  BY ClockAssumption DEF Retired, TypeOK, Height

\* CleanupOldVotes drops only votes for quorums that are retired.
LEMMA ExpiryRetires ==
    ASSUME NEW n \in Masternode, NEW s \in Sig, TypeOK, HasVote(n, s),
           Expired(vote[n][s.id])
    PROVE  Retired(s)
<1>1. PICK h \in Height : h <= vote[n][s.id].time /\ SelectQuorum[h][s.id] = s.quorum
  BY Zenon DEF HasVote
<1>2. vote[n][s.id].time \in Height /\ vote[n][s.id].time < now - MaxAge
  BY Zenon DEF HasVote, Vote, Expired
<1>3. s.id \in Id
  BY Zenon DEF Sig
<1>4. ASSUME NEW k \in Height, now <= k + Lag, SelectQuorum[k][s.id] = s.quorum
      PROVE  FALSE
  <2>1. k - h <= MaxAge - Lag
    BY Zenon, <1>1, <1>3, <1>4, RetireAssumption
  <2> QED
    BY <1>1, <1>2, <1>4, <2>1, ClockAssumption DEF Height, TypeOK
<1> QED
  BY Zenon, <1>4 DEF Retired

\* Steps that release nothing new and leave the votes alone.
LEMMA KeepsBound ==
    ASSUME TypeOK, TypeOK', Bound, SignsOnce, now' >= now, UNCHANGED vote,
           \A n \in Masternode : \A s \in Sig : Commits(n, s)' => Commits(n, s)
    PROVE  Bound' /\ SignsOnce'
<1>1. ASSUME NEW n \in Masternode, NEW s \in Sig, Commits(n, s)'
      PROVE  n \in Members[s.quorum] /\ (Retired(s)' \/ HasVote(n, s)')
  <2>1. Commits(n, s)
    BY Zenon, <1>1
  <2>2. n \in Members[s.quorum] /\ (Retired(s) \/ HasVote(n, s))
    BY Zenon, <2>1 DEF Bound
  <2>3. HasVote(n, s) => HasVote(n, s)'
    BY Zenon DEF HasVote
  <2> QED
    BY Zenon, <2>2, <2>3, RetiredStays
<1>2. Bound'
  BY Zenon, <1>1 DEF Bound
<1>3. SignsOnce'
  BY Zenon DEF SignsOnce
<1> QED
  BY Zenon, <1>2, <1>3

----------------------------------------------------------------------------
(* Shares and majorities *)

LEMMA SignersFinite ==
    ASSUME NEW s \in Sig
    PROVE  IsFiniteSet(Signers(s)) /\ Signers(s) \subseteq Members[s.quorum]
           /\ Cardinality(Signers(s)) \in Nat
<1>1. IsFiniteSet(Members[s.quorum]) /\ Signers(s) \subseteq Members[s.quorum]
  BY Zenon, QuorumAssumption DEF Signers, Sig
<1>2. IsFiniteSet(Signers(s))
  BY Zenon, <1>1, FS_Subset
<1> QED
  BY Zenon, <1>1, <1>2, FS_CardinalityType

LEMMA SignersFiniteNext ==
    ASSUME NEW s \in Sig
    PROVE  IsFiniteSet(Signers(s)') /\ Signers(s)' \subseteq Members[s.quorum]
           /\ Cardinality(Signers(s)') \in Nat
<1>1. IsFiniteSet(Members[s.quorum]) /\ Signers(s)' \subseteq Members[s.quorum]
  BY Zenon, QuorumAssumption DEF Signers, Sig
<1>2. IsFiniteSet(Signers(s)')
  BY Zenon, <1>1, FS_Subset
<1> QED
  BY Zenon, <1>1, <1>2, FS_CardinalityType

\* Shares are never taken back, so a majority stays one.
LEMMA KeepsBacked ==
    ASSUME NEW s \in Sig, sent \subseteq sent',
           Cardinality(Signers(s)) >= Threshold[s.quorum]
    PROVE  Cardinality(Signers(s)') >= Threshold[s.quorum]
<1>1. Signers(s) \in SUBSET Signers(s)'
  BY Zenon DEF Signers
<1>2. Cardinality(Signers(s)) <= Cardinality(Signers(s)')
  BY Zenon, <1>1, SignersFiniteNext, FS_Subset
<1>3. Threshold[s.quorum] \in Nat
  BY Zenon, QuorumAssumption DEF Sig
<1> QED
  BY <1>2, <1>3, SignersFinite, SignersFiniteNext

\* Enough shares for a signature come from as many members.
LEMMA SharesAreSigners ==
    ASSUME NEW s \in Sig, NEW S \in SUBSET Share, S \subseteq sent',
           \A n \in Masternode : ShareOf(n, s) \in sent' => n \in Members[s.quorum],
           CanRecover(S, s)
    PROVE  Cardinality(Signers(s)') >= Threshold[s.quorum]
<1> DEFINE T == SharesFor(S, s)
           f == [x \in T |-> x.member]
<1>1. ASSUME NEW x \in T
      PROVE  x.member \in Signers(s)' /\ x = ShareOf(x.member, s)
  <2>1. x \in Share /\ x.sig = s /\ x \in sent'
    BY Zenon DEF SharesFor
  <2>2. x = ShareOf(x.member, s) /\ x.member \in Masternode
    BY Zenon, <2>1 DEF Share, ShareOf
  <2> QED
    BY Zenon, <2>1, <2>2 DEF Signers
<1>2. f \in Injection(T, Signers(s)')
  <2>1. f \in [T -> Signers(s)']
    BY Zenon, <1>1
  <2>2. ASSUME NEW x \in T, NEW y \in T, f[x] = f[y]
        PROVE  x = y
    BY Zenon, <1>1, <2>2
  <2> QED
    BY Zenon, <2>1, <2>2 DEF Injection, IsInjective
<1>3. IsFiniteSet(T) /\ Cardinality(T) <= Cardinality(Signers(s)')
  BY Zenon, <1>2, SignersFiniteNext, FS_Injection
<1>4. Cardinality(T) >= Threshold[s.quorum]
  BY Zenon DEF CanRecover
<1>5. Threshold[s.quorum] \in Nat /\ Cardinality(T) \in Nat
  BY Zenon, <1>3, QuorumAssumption, FS_CardinalityType DEF Sig
<1> QED
  BY <1>3, <1>4, <1>5, SignersFiniteNext

\* Two majorities of a quorum have a member in common.
LEMMA MajoritiesMeet ==
    ASSUME NEW s \in Sig, NEW t \in Sig, s.quorum = t.quorum,
           Cardinality(Signers(s)) >= Threshold[s.quorum],
           Cardinality(Signers(t)) >= Threshold[s.quorum]
    PROVE  \E n \in Members[s.quorum] : n \in Signers(s) /\ n \in Signers(t)
<1> DEFINE A == Signers(s)
           B == Signers(t)
           M == Members[s.quorum]
<1>1. /\ IsFiniteSet(A) /\ A \subseteq M /\ Cardinality(A) \in Nat
      /\ IsFiniteSet(B) /\ B \subseteq M /\ Cardinality(B) \in Nat
  BY Zenon, SignersFinite
<1>2. /\ IsFiniteSet(M) /\ Threshold[s.quorum] \in Nat
      /\ 2 * Threshold[s.quorum] > Cardinality(M)
  BY Zenon, QuorumAssumption DEF Sig
<1>3. Cardinality(A \cup B) = Cardinality(A) + Cardinality(B) - Cardinality(A \cap B)
  BY Zenon, <1>1, FS_Union
<1>4. Cardinality(A \cup B) <= Cardinality(M) /\ A \cup B \in SUBSET M
  BY Zenon, <1>1, <1>2, FS_Subset
<1>5. IsFiniteSet(A \cap B) /\ Cardinality(A \cap B) \in Nat
  <2>1. A \cap B \in SUBSET A
    BY Zenon
  <2> QED
    BY Zenon, <2>1, <1>1, FS_Subset, FS_CardinalityType
<1>6. Cardinality(M) \in Nat
  BY Zenon, <1>2, FS_CardinalityType
<1>7. Cardinality(A \cap B) # 0
  <2>1. Cardinality(A) >= Threshold[s.quorum] /\ Cardinality(B) >= Threshold[s.quorum]
    BY Zenon
  <2> HIDE DEF A, B, M
  <2> QED
    BY <1>1, <1>2, <1>3, <1>4, <1>5, <1>6, <2>1
<1>8. A \cap B # {}
  BY Zenon, <1>5, <1>7, FS_EmptySet
<1> QED
  BY Zenon, <1>1, <1>8
----------------------------------------------------------------------------
(* The inductive invariant *)

\* ProcessSigShare keeps only released shares and recovers only what enough
\* members signed.
LEMMA ProcessSigShareBacked ==
    ASSUME TypeOK, TypeOK', Bound', Held, Backed, NEW n \in Masternode, NEW x \in Share,
           x \in sent', sent \subseteq sent', ProcessSigShare(n, x)
    PROVE  Held' /\ Backed'
<1> DEFINE S == sigShares[n] \cup {x}
<1>1. x.sig \in Sig /\ S \in SUBSET Share /\ S \subseteq sent'
  BY Zenon DEF Share, TypeOK, Held
<1>2. /\ \A k \in Masternode : k # n => sigShares'[k] = sigShares[k]
      /\ sigShares'[n] \subseteq S
      /\ \/ recovered' = recovered
         \/ recovered' = recovered \cup {x.sig} /\ CanRecover(S, x.sig)
  BY DEF ProcessSigShare, ProcessRecoveredSig, TypeOK
<1>3. Held'
  BY Zenon, <1>1, <1>2 DEF Held
<1>4. ASSUME NEW k \in Masternode, ShareOf(k, x.sig) \in sent'
      PROVE  k \in Members[x.sig.quorum]
  BY Zenon, <1>1, <1>4 DEF Bound, Commits, ShareOf
<1>5. ASSUME NEW s \in recovered'
      PROVE  Cardinality(Signers(s)') >= Threshold[s.quorum]
  <2>1. CASE s \in recovered
    <3>1. s \in Sig /\ Cardinality(Signers(s)) >= Threshold[s.quorum]
      BY Zenon, <2>1 DEF TypeOK, Backed
    <3> QED
      BY Zenon, <3>1, KeepsBacked
  <2>2. CASE s \notin recovered
    <3>1. s = x.sig /\ CanRecover(S, x.sig)
      BY Zenon, <1>2, <1>5, <2>2
    <3> HIDE DEF S
    <3> QED
      BY Zenon, <3>1, <1>1, <1>4, SharesAreSigners
  <2> QED
    BY Zenon, <2>1, <2>2
<1>6. Backed'
  BY Zenon, <1>5 DEF Backed
<1> QED
  BY Zenon, <1>3, <1>6

\* Steps that take no share and recover nothing.
LEMMA KeepsShares ==
    ASSUME TypeOK, Held, Backed, UNCHANGED <<sent, recovered>>,
           \A n \in Masternode : sigShares'[n] \subseteq sigShares[n]
    PROVE  Held' /\ Backed'
<1>1. Held'
  BY Zenon DEF Held
<1>2. ASSUME NEW s \in recovered'
      PROVE  Cardinality(Signers(s)') >= Threshold[s.quorum]
  <2>1. s \in recovered /\ s \in Sig /\ Cardinality(Signers(s)) >= Threshold[s.quorum]
    BY Zenon, <1>2 DEF TypeOK, Backed
  <2> QED
    BY Zenon, <2>1, KeepsBacked
<1> QED
  BY Zenon, <1>1, <1>2 DEF Backed

\* Without allowReSign a member that votes has no vote for the id, so
\* everything it signed for the id belongs to retired quorums.
LEMMA AsyncSignBound ==
    ASSUME ~ReSign, TypeOK, TypeOK', Bound, SignsOnce,
           NEW n \in Masternode, NEW id \in Id, NEW m \in Msg,
           AsyncSignIfMember(n, id, m)
    PROVE  Bound' /\ SignsOnce'
<1>1. PICK h \in TipHeights :
        /\ n \in Members[SelectQuorum[h][id]]
        /\ MayVoteFor(n, id, m)
        /\ vote' = IF vote[n][id] # NoVote THEN vote
                   ELSE [vote EXCEPT ![n][id] = [msg |-> m, time |-> now]]
        /\ pendingSigns' = [pendingSigns EXCEPT
               ![n] = @ \cup {[quorum |-> SelectQuorum[h][id], id |-> id, msg |-> m]}]
        /\ UNCHANGED <<now, recSig, byHash, sigShares, sent, recovered>>
  BY Zenon DEF AsyncSignIfMember
<1>2. h \in Height /\ h <= now /\ now <= h + Lag
  BY Zenon DEF TipHeights
<1>3. PICK u \in Sig : u = [quorum |-> SelectQuorum[h][id], id |-> id, msg |-> m]
  BY <1>2, SigType, Zenon
<1>4. u.quorum = SelectQuorum[h][id] /\ u.id = id /\ u.msg = m
  BY Zenon, <1>3
<1>5. vote[n][id] = NoVote
  BY Zenon, <1>1 DEF MayVoteFor
<1>6. vote' = [vote EXCEPT ![n] = [vote[n] EXCEPT ![id] = [msg |-> m, time |-> now]]]
  BY SMTT(30), <1>1, <1>5
<1>7. /\ vote'[n][id] = [msg |-> m, time |-> now]
      /\ \A k \in Masternode : \A i \in Id : k # n \/ i # id => vote'[k][i] = vote[k][i]
  BY SMTT(30), <1>6 DEF TypeOK
<1>8. \A k \in Masternode : \A s \in Sig :
        Commits(k, s)' <=> (Commits(k, s) \/ (k = n /\ s = u))
  BY Zenon, <1>1, <1>3 DEF Commits, TypeOK
<1>9. HasVote(n, u)'
  <2>1. [msg |-> m, time |-> now] \in Vote
    BY Zenon DEF Vote, TypeOK
  <2> QED
    BY <1>2, <1>4, <1>7, <2>1 DEF HasVote
<1>10. ASSUME NEW k \in Masternode, NEW s \in Sig, HasVote(k, s)
       PROVE  HasVote(k, s)'
  <2>1. s.id \in Id
    BY Zenon DEF Sig
  <2>2. k # n \/ s.id # id
    BY Zenon, <1>5, <1>10, NoneAssumption DEF HasVote
  <2>3. vote'[k][s.id] = vote[k][s.id]
    BY SMTT(30), <1>7, <2>1, <2>2
  <2> QED
    BY Zenon, <1>10, <2>3 DEF HasVote
<1>11. ASSUME NEW k \in Masternode, NEW s \in Sig, Commits(k, s)'
       PROVE  k \in Members[s.quorum] /\ (Retired(s)' \/ HasVote(k, s)')
  <2>1. CASE k = n /\ s = u
    BY SMTT(30), <2>1, <1>1, <1>4, <1>9
  <2>2. CASE Commits(k, s)
    <3>1. k \in Members[s.quorum] /\ (Retired(s) \/ HasVote(k, s))
      BY SMTT(30), <2>2 DEF Bound
    <3>2. now' >= now
      BY SMTT(30), <1>1 DEF TypeOK, Height
    <3> QED
      BY SMTT(30), <3>1, <3>2, <1>10, RetiredStays
  <2> QED
    BY Zenon, <1>8, <1>11, <2>1, <2>2
<1>12. Bound'
  BY Zenon, <1>11 DEF Bound
<1>13. ASSUME NEW t \in Sig, Commits(n, t), t.quorum = u.quorum, t.id = u.id
       PROVE  FALSE
  <2>1. ~HasVote(n, t)
    BY SMTT(30), <1>4, <1>5, <1>13, NoneAssumption DEF HasVote
  <2>2. Retired(t)
    BY Zenon, <1>13, <2>1 DEF Bound
  <2> QED
    BY SMTT(30), <1>2, <1>4, <1>13, <2>2 DEF Retired
<1>14. SignsOnce'
  <2> SUFFICES ASSUME NEW k \in Masternode, NEW s \in Sig, NEW t \in Sig,
                      Commits(k, s)', Commits(k, t)', s.quorum = t.quorum, s.id = t.id
               PROVE  s.msg = t.msg
    BY Zenon DEF SignsOnce
  <2>1. CASE Commits(k, s) /\ Commits(k, t)
    BY Zenon, <2>1 DEF SignsOnce
  <2>2. CASE ~(Commits(k, s) /\ Commits(k, t))
    BY Zenon, <1>8, <1>13, <2>2
  <2> QED
    BY Zenon, <2>1, <2>2
<1> QED
  BY Zenon, <1>12, <1>14

\* Cleanup releases a member only from votes for retired quorums.
LEMMA CleanupBound ==
    ASSUME TypeOK, TypeOK', Bound, SignsOnce, NEW n \in Masternode, CleanupOldVotes(n)
    PROVE  Bound' /\ SignsOnce'
<1>1. /\ vote' = [vote EXCEPT
            ![n] = [id \in Id |-> IF Expired(@[id]) THEN NoVote ELSE @[id]]]
      /\ UNCHANGED <<now, pendingSigns, sent>>
  BY SMTT(30) DEF CleanupOldVotes
<1>2. ASSUME NEW k \in Masternode, NEW s \in Sig, Commits(k, s)'
      PROVE  k \in Members[s.quorum] /\ (Retired(s)' \/ HasVote(k, s)')
  <2>1. Commits(k, s)
    BY Zenon, <1>1, <1>2 DEF Commits
  <2>2. k \in Members[s.quorum] /\ (Retired(s) \/ HasVote(k, s))
    BY Zenon, <2>1 DEF Bound
  <2>3. Retired(s) => Retired(s)'
    BY Zenon, <1>1 DEF Retired
  <2>4. s.id \in Id
    BY Zenon DEF Sig
  <2>5. CASE HasVote(k, s) /\ Expired(vote[k][s.id])
    BY SMTT(30), <2>2, <2>3, <2>5, ExpiryRetires
  <2>6. CASE HasVote(k, s) /\ ~Expired(vote[k][s.id])
    <3>1. vote'[k][s.id] = vote[k][s.id]
      BY Zenon, <1>1, <2>4, <2>6 DEF TypeOK
    <3> QED
      BY SMTT(30), <2>2, <2>6, <3>1 DEF HasVote
  <2> QED
    BY Zenon, <2>2, <2>3, <2>5, <2>6
<1>3. Bound'
  BY Zenon, <1>2 DEF Bound
<1>4. SignsOnce'
  BY <1>1 DEF SignsOnce, Commits
<1> QED
  BY Zenon, <1>3, <1>4
LEMMA InvInit == Init => IInv
<1> SUFFICES ASSUME Init PROVE IInv
  BY Zenon
<1>1. TypeOK
  BY Zenon, TypeInit
<1>2. \A n \in Masternode : \A s \in Sig : ~Commits(n, s)
  BY SMTT(30) DEF Init, Commits
<1>3. Bound /\ SignsOnce
  BY Zenon, <1>2 DEF Bound, SignsOnce
<1>4. Held /\ Backed
  BY SMTT(30) DEF Init, Held, Backed
<1> QED
  BY Zenon, <1>1, <1>3, <1>4 DEF IInv

LEMMA InvStep ==
    ASSUME ~ReSign, IInv, [Next]_vars
    PROVE  IInv'
<1>1. TypeOK /\ Bound /\ SignsOnce /\ Held /\ Backed
  BY Zenon DEF IInv
<1>2. TypeOK'
  BY Zenon, <1>1, TypeStep
<1> SUFFICES Bound' /\ SignsOnce' /\ Held' /\ Backed'
  BY Zenon, <1>2 DEF IInv
<1>3. now' = now => now' >= now
  BY <1>1 DEF TypeOK, Height
<1>4. CASE Tick
  <2>1. now' >= now /\ UNCHANGED <<vote, pendingSigns, sigShares, sent, recovered>>
    BY <1>1, <1>4 DEF Tick, disk, TypeOK, Height
  <2>2. \A n \in Masternode : \A s \in Sig : Commits(n, s)' => Commits(n, s)
    BY Zenon, <2>1 DEF Commits
  <2> QED
    BY Zenon, <1>1, <1>2, <2>1, <2>2, KeepsBound, KeepsShares
<1>5. ASSUME NEW n \in Masternode, NEW id \in Id, NEW m \in Msg,
             AsyncSignIfMember(n, id, m)
      PROVE  Bound' /\ SignsOnce' /\ Held' /\ Backed'
  <2>1. UNCHANGED <<sigShares, sent, recovered>>
    BY <1>5, Zenon DEF AsyncSignIfMember
  <2> QED
    BY Zenon, <1>1, <1>2, <1>5, <2>1, AsyncSignBound, KeepsShares
<1>6. ASSUME NEW n \in Masternode, NEW s \in recovered, ReceiveRecoveredSig(n, s)
      PROVE  Bound' /\ SignsOnce' /\ Held' /\ Backed'
  <2>1. UNCHANGED <<now, vote, pendingSigns, sent, recovered>>
    BY Zenon, <1>6 DEF ReceiveRecoveredSig
  <2>2. \A k \in Masternode : sigShares'[k] \subseteq sigShares[k]
    BY SMTT(30), <1>1, <1>6 DEF ReceiveRecoveredSig, ProcessRecoveredSig, TypeOK
  <2>3. \A k \in Masternode : \A t \in Sig : Commits(k, t)' => Commits(k, t)
    BY Zenon, <2>1 DEF Commits
  <2> QED
    BY Zenon, <1>1, <1>2, <1>3, <2>1, <2>2, <2>3, KeepsBound, KeepsShares
<1>7. ASSUME NEW n \in Masternode, NEW id \in Id, TruncateRecoveredSig(n, id)
      PROVE  Bound' /\ SignsOnce' /\ Held' /\ Backed'
  <2>1. UNCHANGED <<now, vote, pendingSigns, sigShares, sent, recovered>>
    BY Zenon, <1>7 DEF TruncateRecoveredSig
  <2>2. \A k \in Masternode : \A t \in Sig : Commits(k, t)' => Commits(k, t)
    BY Zenon, <2>1 DEF Commits
  <2> QED
    BY Zenon, <1>1, <1>2, <1>3, <2>1, <2>2, KeepsBound, KeepsShares
<1>7a. ASSUME NEW n \in Masternode, NEW id \in Id, CleanupOldRecoveredSigs(n, id)
       PROVE  Bound' /\ SignsOnce' /\ Held' /\ Backed'
  <2>1. UNCHANGED <<now, vote, pendingSigns, sigShares, sent, recovered>>
    BY Zenon, <1>7a DEF CleanupOldRecoveredSigs
  <2>2. \A k \in Masternode : \A t \in Sig : Commits(k, t)' => Commits(k, t)
    BY Zenon, <2>1 DEF Commits
  <2> QED
    BY Zenon, <1>1, <1>2, <1>3, <2>1, <2>2, KeepsBound, KeepsShares
<1>8. ASSUME NEW n \in Masternode, CleanupOldVotes(n)
      PROVE  Bound' /\ SignsOnce' /\ Held' /\ Backed'
  <2>1. UNCHANGED <<sigShares, sent, recovered>>
    BY Zenon, <1>8 DEF CleanupOldVotes
  <2> QED
    BY Zenon, <1>1, <1>2, <1>8, <2>1, CleanupBound, KeepsShares
<1>9. ASSUME NEW n \in Masternode, NEW s \in pendingSigns[n], SignPendingSigShares(n, s)
      PROVE  Bound' /\ SignsOnce' /\ Held' /\ Backed'
  <2>1. s \in Sig
    BY Zenon, <1>1, <1>9 DEF TypeOK
  <2>2. /\ pendingSigns' = [pendingSigns EXCEPT ![n] = @ \ {s}]
        /\ sent' = sent \cup {ShareOf(n, s)}
        /\ ProcessSigShare(n, ShareOf(n, s))
        /\ UNCHANGED <<now, vote>>
    BY Zenon, <1>9 DEF SignPendingSigShares, ShareOf
  <2>3. \A k \in Masternode : \A t \in Sig : Commits(k, t)' => Commits(k, t)
    BY Zenon, <1>1, <1>9, <2>2 DEF Commits, TypeOK, ShareOf
  <2>4. Bound' /\ SignsOnce'
    BY Zenon, <1>1, <1>2, <1>3, <2>2, <2>3, KeepsBound
  <2>5. ShareOf(n, s) \in Share
    BY Zenon, <2>1 DEF Share, ShareOf
  <2> QED
    BY Zenon, <1>1, <1>2, <2>2, <2>4, <2>5, ProcessSigShareBacked
<1>10. ASSUME NEW n \in Masternode, NEW x \in sent, ReceiveSigShare(n, x)
       PROVE  Bound' /\ SignsOnce' /\ Held' /\ Backed'
  <2>1. ProcessSigShare(n, x) /\ UNCHANGED <<now, vote, pendingSigns, sent>>
    BY SMTT(30), <1>10 DEF ReceiveSigShare
  <2>2. \A k \in Masternode : \A t \in Sig : Commits(k, t)' => Commits(k, t)
    BY Zenon, <2>1 DEF Commits
  <2>3. Bound' /\ SignsOnce'
    BY Zenon, <1>1, <1>2, <1>3, <2>1, <2>2, KeepsBound
  <2>4. x \in Share /\ x \in sent' /\ sent \subseteq sent'
    BY SMTT(30), <1>1, <1>10, <2>1 DEF TypeOK
  <2> QED
    BY SMTT(30), <1>1, <1>2, <2>1, <2>3, <2>4, ProcessSigShareBacked
<1>11. ASSUME NEW n \in Masternode, NEW s, RemoveSigSharesForSession(n, s)
       PROVE  Bound' /\ SignsOnce' /\ Held' /\ Backed'
  <2>1. UNCHANGED <<now, vote, pendingSigns, sent, recovered>>
    BY Zenon, <1>11 DEF RemoveSigSharesForSession, disk
  <2>2. \A k \in Masternode : sigShares'[k] \subseteq sigShares[k]
    BY Zenon, <1>1, <1>11 DEF RemoveSigSharesForSession, TypeOK
  <2>3. \A k \in Masternode : \A t \in Sig : Commits(k, t)' => Commits(k, t)
    BY SMTT(30), <2>1 DEF Commits
  <2> QED
    BY Zenon, <1>1, <1>2, <1>3, <2>1, <2>2, <2>3, KeepsBound, KeepsShares
<1>12. ASSUME NEW n \in Masternode, Crash(n)
       PROVE  Bound' /\ SignsOnce' /\ Held' /\ Backed'
  <2>1. UNCHANGED <<now, vote, sent, recovered>>
    BY Zenon, <1>12 DEF Crash, disk
  <2>2. \A k \in Masternode : sigShares'[k] \subseteq sigShares[k]
    BY Zenon, <1>1, <1>12 DEF Crash, TypeOK
  <2>3. \A k \in Masternode : \A t \in Sig : Commits(k, t)' => Commits(k, t)
    BY SMTT(30), <1>1, <1>12, <2>1 DEF Crash, Commits, TypeOK
  <2> QED
    BY Zenon, <1>1, <1>2, <1>3, <2>1, <2>2, <2>3, KeepsBound, KeepsShares
<1>13. CASE UNCHANGED vars
  <2>1. UNCHANGED <<now, vote, pendingSigns, sigShares, sent, recovered>>
    BY Zenon, <1>13 DEF vars
  <2>2. \A k \in Masternode : \A t \in Sig : Commits(k, t)' => Commits(k, t)
    BY Zenon, <2>1 DEF Commits
  <2> QED
    BY Zenon, <1>1, <1>2, <1>3, <2>1, <2>2, KeepsBound, KeepsShares
<1> QED
  BY Zenon, <1>4, <1>5, <1>6, <1>7, <1>7a, <1>8, <1>9, <1>10, <1>11, <1>12, <1>13 DEF Next

----------------------------------------------------------------------------
(* Theorems *)

\* What a member has signed without allowReSign stays bound by its vote on
\* disk, through crashes and cleanups, until the quorum is retired.
THEOREM VotesBind == ASSUME ~ReSign PROVE Spec => []SharesAreVoted
<1>1. IInv => SharesAreVoted
  <2> SUFFICES ASSUME IInv, NEW n \in Masternode,
                      NEW s \in pendingSigns[n] \cup {x.sig : x \in sent}, Commits(n, s)
               PROVE  Retired(s) \/ (vote[n][s.id] # NoVote /\ vote[n][s.id].msg = s.msg)
    BY Zenon DEF SharesAreVoted
  <2>1. s \in Sig
    BY Zenon DEF IInv, TypeOK, Share
  <2>2. Retired(s) \/ HasVote(n, s)
    BY SMTT(30), <2>1 DEF IInv, Bound
  <2> QED
    BY SMTT(30), <2>2, NoneAssumption DEF HasVote
<1> QED
  BY <1>1, InvInit, InvStep, PTL DEF Spec

\* A quorum recovers at most one message for an id that its members sign
\* without allowReSign.
THEOREM OneMessage == ASSUME ~ReSign PROVE Spec => []OneMessagePerQuorum
<1>1. IInv => OneMessagePerQuorum
  <2> SUFFICES ASSUME IInv, NEW s \in recovered, NEW t \in recovered,
                      s.quorum = t.quorum, s.id = t.id
               PROVE  s.msg = t.msg
    BY SMTT(30) DEF OneMessagePerQuorum
  <2>1. /\ s \in Sig /\ Cardinality(Signers(s)) >= Threshold[s.quorum]
        /\ t \in Sig /\ Cardinality(Signers(t)) >= Threshold[s.quorum]
    BY Zenon DEF IInv, TypeOK, Backed
  <2>2. PICK n \in Members[s.quorum] : n \in Signers(s) /\ n \in Signers(t)
    BY Zenon, <2>1, MajoritiesMeet
  <2>3. n \in Masternode
    BY Zenon, <2>1, <2>2, QuorumAssumption DEF Sig
  <2>4. Commits(n, s) /\ Commits(n, t)
    BY Zenon, <2>2 DEF Signers, Commits, ShareOf
  <2> QED
    BY Zenon, <2>1, <2>3, <2>4 DEF IInv, SignsOnce
<1> QED
  BY <1>1, InvInit, InvStep, PTL DEF Spec

=============================================================================
