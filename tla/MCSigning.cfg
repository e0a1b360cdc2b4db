CONSTANTS
    m1 = m1
    m2 = m2
    m3 = m3
    m4 = m4
    q1 = q1
    q2 = q2
    Masternode = {m1, m2, m3}
    Quorum = {q1, q2}
    Id = {i1}
    Msg = {a, b}
    Members <- OneOfOurs
    Threshold <- TwoAndOne
    MaxTime = 3
    SelectQuorum <- Successive
    Lag = 1
    MaxAge = 2
    ReSign = FALSE
    NoVote = NoVote
    NoSig = NoSig
SYMMETRY Symmetry
SPECIFICATION Spec
INVARIANTS
    SharesAreVoted
    OneMessagePerQuorum
