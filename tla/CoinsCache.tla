----------------------------- MODULE CoinsCache -----------------------------
(***************************************************************************)
(* CCoinsViewCache (coins.cpp): level 1 is the cache over the coins        *)
(* database, level 2 the cache in which ConnectTip, DisconnectTip and      *)
(* TestBlockValidity work and which they flush into level 1 or throw       *)
(* away.  All of it runs under cs_main.  An outpoint without an entry has  *)
(* the coin and the flags of a default constructed one: spent, none.       *)
(* How a flush reaches the disk in several batches is in Chainstate.tla.   *)
(***************************************************************************)
EXTENDS Integers, FiniteSets, Totals

CONSTANTS
    Outpoint, Coin, Spent,
    Block, Null,
    Usage           \* DynamicMemoryUsage of a coin

ASSUME OutpointAssumption == IsFiniteSet(Outpoint)
ASSUME SpentAssumption == Spent \notin Coin
ASSUME NullAssumption == Null \notin Block
ASSUME UsageAssumption == Usage \in [Coin \cup {Spent} -> Nat] /\ Usage[Spent] = 0

VARIABLES
    db, dbBest,         \* coins database and its best block
    cached,             \* cached[l]: outpoints with an entry in cacheCoins
    coin, flags,        \* coin[l][o], flags[l][o]: the entry
    hashBlock,          \* hashBlock[l], Null until it is set or read
    cachedCoinsUsage,
    open,               \* "yes" while the level 2 cache exists
    threw               \* a std::logic_error was thrown: "yes" ends the node

vars == <<db, dbBest, cached, coin, flags, hashBlock, cachedCoinsUsage, open, threw>>

Level == 1..2
Flag == {"DIRTY", "FRESH"}
Content == [Outpoint -> Coin \cup {Spent}]

Top == IF open = "yes" THEN 2 ELSE 1

TypeOK ==
    /\ db \in Content
    /\ dbBest \in Block \cup {Null}
    /\ cached \in [Level -> SUBSET Outpoint]
    /\ coin \in [Level -> Content]
    /\ flags \in [Level -> [Outpoint -> SUBSET Flag]]
    /\ hashBlock \in [Level -> Block \cup {Null}]
    /\ open \in {"yes", "no"}
    /\ threw \in {"yes", "no"}
    /\ \A l \in Level : \A o \in Outpoint \ cached[l] : coin[l][o] = Spent /\ flags[l][o] = {}
    /\ open = "no" => cached[2] = {} /\ hashBlock[2] = Null

\* What GetCoin answers at each level.
TipView == [o \in Outpoint |-> IF o \in cached[1] THEN coin[1][o] ELSE db[o]]
ScratchView == [o \in Outpoint |-> IF o \in cached[2] THEN coin[2][o] ELSE TipView[o]]
View(l) == CASE l = 0 -> db [] l = 1 -> TipView [] l = 2 -> ScratchView

TipBest == IF hashBlock[1] = Null THEN dbBest ELSE hashBlock[1]
ScratchBest == IF hashBlock[2] = Null THEN TipBest ELSE hashBlock[2]
Best(l) == CASE l = 0 -> dbBest [] l = 1 -> TipBest [] l = 2 -> ScratchBest

\* A database without a best block is empty: genesis is not yet connected.
Init ==
    /\ db \in Content
    /\ dbBest \in Block \cup {Null}
    /\ dbBest = Null => \A o \in Outpoint : db[o] = Spent
    /\ cached = [l \in Level |-> {}]
    /\ coin = [l \in Level |-> [o \in Outpoint |-> Spent]]
    /\ flags = [l \in Level |-> [o \in Outpoint |-> {}]]
    /\ hashBlock = [l \in Level |-> Null]
    /\ cachedCoinsUsage = [l \in Level |-> 0]
    /\ open = "no"
    /\ threw = "no"

----------------------------------------------------------------------------
(* Reading fills the caches.  No base view answers true with a spent coin, *)
(* so FetchCoin's FRESH entry for one is never made.                       *)

\* The levels that FetchCoin at level l gives an entry for o.
Fetching(l, o) ==
    {k \in 1..l : View(k - 1)[o] # Spent /\ \A j \in k..l : o \notin cached[j]}

CachedAfterFetch(l, o) ==
    [k \in Level |-> IF k \in Fetching(l, o) THEN cached[k] \cup {o} ELSE cached[k]]

CoinAfterFetch(l, o) ==
    [k \in Level |-> IF k \in Fetching(l, o) THEN [coin[k] EXCEPT ![o] = View(k - 1)[o]]
                                             ELSE coin[k]]

UsageAfterFetch(l, o) ==
    [k \in Level |-> cachedCoinsUsage[k]
                       + (IF k \in Fetching(l, o) THEN Usage[View(k - 1)[o]] ELSE 0)]

\* GetCoin, HaveCoin, AccessCoin
FetchCoin(l, o) ==
    /\ cached' = CachedAfterFetch(l, o)
    /\ coin' = CoinAfterFetch(l, o)
    /\ cachedCoinsUsage' = UsageAfterFetch(l, o)
    /\ UNCHANGED <<db, dbBest, flags, hashBlock, open, threw>>

GetBestBlock(l) ==
    /\ hashBlock' = [k \in Level |->
                       IF k <= l /\ \A j \in k..l : hashBlock[j] = Null THEN Best(k) ELSE hashBlock[k]]
    /\ UNCHANGED <<db, dbBest, cached, coin, flags, cachedCoinsUsage, open, threw>>

----------------------------------------------------------------------------
(* Changes *)

\* Mutant: an entry that is added is fresh whether or not it is dirty.
AddedFlagsAlwaysFresh(l, o, possible_overwrite) ==
    flags[l][o] \cup {"DIRTY"} \cup (IF possible_overwrite THEN {} ELSE {"FRESH"})

AddedFlags(l, o, possible_overwrite) ==
    flags[l][o] \cup {"DIRTY"}
      \cup (IF possible_overwrite \/ "DIRTY" \in flags[l][o] THEN {} ELSE {"FRESH"})

\* AddCoin.  The entry's usage is subtracted before the check that throws.
AddCoin(l, o, c, possible_overwrite) ==
    LET replaced == cachedCoinsUsage[l] - Usage[coin[l][o]] IN
    /\ IF possible_overwrite \/ coin[l][o] = Spent
         THEN /\ coin' = [coin EXCEPT ![l][o] = c]
              /\ flags' = [flags EXCEPT ![l][o] = AddedFlags(l, o, possible_overwrite)]
              /\ cachedCoinsUsage' = [cachedCoinsUsage EXCEPT ![l] = replaced + Usage[c]]
              /\ UNCHANGED threw
         ELSE /\ threw' = "yes"
              /\ cachedCoinsUsage' = [cachedCoinsUsage EXCEPT ![l] = replaced]
              /\ UNCHANGED <<coin, flags>>
    /\ cached' = [cached EXCEPT ![l] = @ \cup {o}]
    /\ UNCHANGED <<db, dbBest, hashBlock, open>>

\* AddCoins for a block that is connected: a coinbase may overwrite, and for
\* the outputs of other transactions txids are unique or BIP30 was checked.
AddNewCoin(l, o, c) ==
    \E fCoinbase \in BOOLEAN :
      /\ fCoinbase \/ View(l)[o] = Spent
      /\ AddCoin(l, o, c, fCoinbase)

\* Mutant: the answer of HaveCoin is not passed on.
AddCheckedCoinNoOverwrite(l, o, c) ==
    IF View(l)[o] = Spent
      THEN AddCoin(l, o, c, FALSE)
      ELSE /\ cached' = CachedAfterFetch(l, o)
           /\ coin' = CoinAfterFetch(l, o)
           /\ cachedCoinsUsage' = UsageAfterFetch(l, o)
           /\ threw' = "yes"
           /\ UNCHANGED <<db, dbBest, flags, hashBlock, open>>

\* ApplyTxInUndo, and AddCoins with check_for_overwrite: HaveCoin (which
\* fetches) decides.  An entry that it made is clean and unspent.
AddCheckedCoin(l, o, c) ==
    IF View(l)[o] = Spent
      THEN AddCoin(l, o, c, FALSE)
      ELSE /\ cached' = CachedAfterFetch(l, o)
           /\ coin' = [CoinAfterFetch(l, o) EXCEPT ![l][o] = c]
           /\ flags' = [flags EXCEPT ![l][o] = AddedFlags(l, o, TRUE)]
           /\ cachedCoinsUsage' = [UsageAfterFetch(l, o) EXCEPT ![l] = @ - Usage[View(l)[o]] + Usage[c]]
           /\ UNCHANGED <<db, dbBest, hashBlock, open, threw>>

\* Mutant: a coin that was only fetched is erased instead of marked.
SpendCoinErasesClean(l, o) ==
    /\ o \in cached[l]
    /\ IF "DIRTY" \notin flags[l][o] \/ "FRESH" \in flags[l][o]
         THEN /\ cached' = [cached EXCEPT ![l] = @ \ {o}]
              /\ flags' = [flags EXCEPT ![l][o] = {}]
         ELSE UNCHANGED <<cached, flags>>
    /\ coin' = [coin EXCEPT ![l][o] = Spent]
    /\ cachedCoinsUsage' = [cachedCoinsUsage EXCEPT ![l] = @ - Usage[coin[l][o]]]
    /\ UNCHANGED <<db, dbBest, hashBlock, open, threw>>

\* SpendCoin; without an entry and without an unspent coin below it fails.
SpendCoin(l, o) ==
    /\ o \in CachedAfterFetch(l, o)[l]
    /\ IF "FRESH" \in flags[l][o]
         THEN /\ cached' = [cached EXCEPT ![l] = @ \ {o}]
              /\ flags' = [flags EXCEPT ![l][o] = {}]
         ELSE /\ cached' = CachedAfterFetch(l, o)
              /\ flags' = [flags EXCEPT ![l][o] = @ \cup {"DIRTY"}]
    /\ coin' = [CoinAfterFetch(l, o) EXCEPT ![l][o] = Spent]
    /\ cachedCoinsUsage' = [UsageAfterFetch(l, o) EXCEPT ![l] = @ - Usage[CoinAfterFetch(l, o)[l][o]]]
    /\ UNCHANGED <<db, dbBest, hashBlock, open, threw>>

SetBestBlock(l, b) ==
    /\ hashBlock' = [hashBlock EXCEPT ![l] = b]
    /\ UNCHANGED <<db, dbBest, cached, coin, flags, cachedCoinsUsage, open, threw>>

\* Uncache, for what a rejected transaction brought into the tip's cache.
Uncache(o) ==
    /\ o \in cached[1] /\ flags[1][o] = {}
    /\ cached' = [cached EXCEPT ![1] = @ \ {o}]
    /\ coin' = [coin EXCEPT ![1][o] = Spent]
    /\ cachedCoinsUsage' = [cachedCoinsUsage EXCEPT ![1] = @ - Usage[coin[1][o]]]
    /\ UNCHANGED <<db, dbBest, flags, hashBlock, open, threw>>

----------------------------------------------------------------------------
(* Flushing *)

Dirty(l) == {o \in cached[l] : "DIRTY" \in flags[l][o]}

\* The entries that BatchWrite takes over, erases and leaves alone in the
\* parent cache.
Created == {o \in Dirty(2) \ cached[1] : ~("FRESH" \in flags[2][o] /\ coin[2][o] = Spent)}
Erased == {o \in Dirty(2) \cap cached[1] : "FRESH" \in flags[1][o] /\ coin[2][o] = Spent}
Modified == (Dirty(2) \cap cached[1]) \ Erased
Misapplied == {o \in Dirty(2) \cap cached[1] : "FRESH" \in flags[2][o] /\ coin[1][o] # Spent}

ParentFlags(o) ==
    IF o \in Created THEN {"DIRTY"} \cup (flags[2][o] \cap {"FRESH"})
    ELSE IF o \in Modified THEN flags[1][o] \cup {"DIRTY"}
    ELSE IF o \in Erased THEN {} ELSE flags[1][o]

ParentCoin(o) ==
    IF o \in Created \cup Modified THEN coin[2][o]
    ELSE IF o \in Erased THEN Spent ELSE coin[1][o]

UsageOf(l) == [o \in Outpoint |-> Usage[coin[l][o]]]

\* Mutant: what the parent held before stays accounted for.
ParentUsageKeepsOld ==
    cachedCoinsUsage[1] + Total(UsageOf(2), Created \cup Modified) - Total(UsageOf(1), Erased)

ParentUsage ==
    cachedCoinsUsage[1] + Total(UsageOf(2), Created \cup Modified)
                        - Total(UsageOf(1), Erased \cup Modified)

\* Flush of level 2: CCoinsViewCache::BatchWrite of level 1.  The block has
\* been set by ConnectBlock or DisconnectBlock.
FlushScratch ==
    /\ open = "yes" /\ hashBlock[2] # Null
    /\ IF Misapplied # {}
         THEN /\ threw' = "yes"
              /\ UNCHANGED <<cached, coin, flags, hashBlock, cachedCoinsUsage>>
         ELSE /\ cached' = [l \in Level |-> IF l = 1 THEN (cached[1] \cup Created) \ Erased ELSE {}]
              /\ coin' = [l \in Level |-> [o \in Outpoint |-> IF l = 1 THEN ParentCoin(o) ELSE Spent]]
              /\ flags' = [l \in Level |-> [o \in Outpoint |-> IF l = 1 THEN ParentFlags(o) ELSE {}]]
              /\ hashBlock' = [hashBlock EXCEPT ![1] = hashBlock[2]]
              /\ cachedCoinsUsage' = [l \in Level |-> IF l = 1 THEN ParentUsage ELSE 0]
              /\ UNCHANGED threw
    /\ UNCHANGED <<db, dbBest, open>>

\* Mutant: the best block is not written with the coins.
FlushTipWithoutBlock ==
    /\ open = "no" /\ TipBest # Null
    /\ db' = [o \in Outpoint |-> IF o \in Dirty(1) THEN coin[1][o] ELSE db[o]]
    /\ hashBlock' = [hashBlock EXCEPT ![1] = TipBest]
    /\ cached' = [cached EXCEPT ![1] = {}]
    /\ coin' = [coin EXCEPT ![1] = [o \in Outpoint |-> Spent]]
    /\ flags' = [flags EXCEPT ![1] = [o \in Outpoint |-> {}]]
    /\ cachedCoinsUsage' = [cachedCoinsUsage EXCEPT ![1] = 0]
    /\ UNCHANGED <<dbBest, open, threw>>

\* Flush of level 1 (FlushStateToDisk reads the best block first):
\* CCoinsViewDB::BatchWrite erases or writes what is dirty.
FlushTip ==
    /\ open = "no" /\ TipBest # Null
    /\ db' = [o \in Outpoint |-> IF o \in Dirty(1) THEN coin[1][o] ELSE db[o]]
    /\ dbBest' = TipBest
    /\ hashBlock' = [hashBlock EXCEPT ![1] = TipBest]
    /\ cached' = [cached EXCEPT ![1] = {}]
    /\ coin' = [coin EXCEPT ![1] = [o \in Outpoint |-> Spent]]
    /\ flags' = [flags EXCEPT ![1] = [o \in Outpoint |-> {}]]
    /\ cachedCoinsUsage' = [cachedCoinsUsage EXCEPT ![1] = 0]
    /\ UNCHANGED <<open, threw>>

\* A CCoinsViewCache over the tip is constructed, or destroyed unflushed.
OpenScratch ==
    /\ open = "no"
    /\ open' = "yes"
    /\ UNCHANGED <<db, dbBest, cached, coin, flags, hashBlock, cachedCoinsUsage, threw>>

CloseScratch ==
    /\ open = "yes"
    /\ open' = "no"
    /\ cached' = [cached EXCEPT ![2] = {}]
    /\ coin' = [coin EXCEPT ![2] = [o \in Outpoint |-> Spent]]
    /\ flags' = [flags EXCEPT ![2] = [o \in Outpoint |-> {}]]
    /\ hashBlock' = [hashBlock EXCEPT ![2] = Null]
    /\ cachedCoinsUsage' = [cachedCoinsUsage EXCEPT ![2] = 0]
    /\ UNCHANGED <<db, dbBest, threw>>

Next ==
    /\ threw = "no"
    /\ \/ \E l \in 1..Top, o \in Outpoint : FetchCoin(l, o)
       \/ \E l \in 1..Top : GetBestBlock(l)
       \/ \E o \in Outpoint, c \in Coin : AddNewCoin(Top, o, c)
       \/ \E o \in Outpoint, c \in Coin : AddCheckedCoin(Top, o, c)
       \/ \E o \in Outpoint : SpendCoin(Top, o)
       \/ \E b \in Block : SetBestBlock(Top, b)
       \/ \E o \in Outpoint : Uncache(o)
       \/ FlushScratch
       \/ FlushTip
       \/ OpenScratch
       \/ CloseScratch

Spec == Init /\ [][Next]_vars

----------------------------------------------------------------------------
(* Properties *)

Views == INSTANCE CoinViews
    WITH Block <- Block \cup {Null},
         coins <- [l \in 0..2 |-> View(l)], best <- [l \in 0..2 |-> Best(l)]

\* The caches are a stack of whole coin sets: reading, Uncache and the
\* deletion of FRESH entries change no coin at any level, AddCoin and
\* SpendCoin change the top level only, and Flush makes the level below
\* equal to the flushed one and changes nothing further down.
ViewsSpec == Views!Spec

\* No change gets lost on the way through the flags: a coin that was spent is
\* spent, and one that was added is there, for every later reader of that
\* cache; after a flush the level below shows all of it.
ChangesTakeEffect ==
    [][threw' = "no" =>
       /\ \A o \in Outpoint : SpendCoin(Top, o) => View(Top)'[o] = Spent
       /\ \A o \in Outpoint, c \in Coin :
            AddNewCoin(Top, o, c) \/ AddCheckedCoin(Top, o, c) => View(Top)'[o] = c
       /\ FlushScratch => View(1)' = View(2)
       /\ FlushTip => View(0)' = View(1)]_vars

\* What coins.h says of the flags: a FRESH coin is absent or spent in the
\* parent's view, and a coin that differs from the parent's view is DIRTY.
\* Only combinations that its table lists occur.
FlagsAreTrue ==
    \A l \in Level : \A o \in cached[l] :
      /\ "FRESH" \in flags[l][o] => View(l - 1)[o] = Spent
      /\ "DIRTY" \notin flags[l][o] => coin[l][o] = View(l - 1)[o]
      /\ IF coin[l][o] = Spent THEN flags[l][o] = {"DIRTY"}
                               ELSE flags[l][o] \in {{}, {"DIRTY"}, {"FRESH", "DIRTY"}}

\* Neither logic_error is thrown: callers never overwrite an unspent coin
\* without saying so, and FRESH is never misapplied in BatchWrite.
NeverThrows == threw = "no"

\* cachedCoinsUsage is the usage of the coins in the cache; the size of the
\* cache, which triggers flushes, is computed from it.
UsageExact == \A l \in Level : cachedCoinsUsage[l] = Total(UsageOf(l), cached[l])

=============================================================================
