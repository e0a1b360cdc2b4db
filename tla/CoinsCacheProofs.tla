-------------------------- MODULE CoinsCacheProofs --------------------------
(***************************************************************************)
(* The coin caches implement the stack of coin sets of CoinViews.tla, for  *)
(* every set of outpoints, coins and blocks.  The inductive invariant is   *)
(* that the flags are true; without it a flush could lose a spent coin.    *)
(* The accounting of the coins' memory rests on it: no step throws.        *)
(***************************************************************************)
EXTENDS CoinsCache, FiniteSetTheorems, TLAPS

Inv == TypeOK /\ FlagsAreTrue /\ NeverThrows

\* The entry of o at level l, as FlagsAreTrue describes it.
EntryTrue(l, o) ==
    o \in cached[l] =>
      /\ "FRESH" \in flags[l][o] => View(l - 1)[o] = Spent
      /\ "DIRTY" \notin flags[l][o] => coin[l][o] = View(l - 1)[o]
      /\ IF coin[l][o] = Spent THEN flags[l][o] = {"DIRTY"}
                               ELSE flags[l][o] \in {{}, {"DIRTY"}, {"FRESH", "DIRTY"}}

\* The views at one outpoint.
LEMMA ViewAt ==
    ASSUME NEW o \in Outpoint
    PROVE  /\ View(0)[o] = db[o]
           /\ View(1)[o] = IF o \in cached[1] THEN coin[1][o] ELSE db[o]
           /\ View(2)[o] = IF o \in cached[2] THEN coin[2][o] ELSE View(1)[o]
<1>1. View(0) = db /\ View(1) = TipView /\ View(2) = ScratchView
  BY DEF View
<1>2. TipView[o] = IF o \in cached[1] THEN coin[1][o] ELSE db[o]
  BY Zenon DEF TipView
<1>3. ScratchView[o] = IF o \in cached[2] THEN coin[2][o] ELSE TipView[o]
  BY Zenon DEF ScratchView
<1> QED
  BY Zenon, <1>1, <1>2, <1>3

LEMMA ViewAtNext ==
    ASSUME NEW o \in Outpoint
    PROVE  /\ View(0)'[o] = db'[o]
           /\ View(1)'[o] = IF o \in cached'[1] THEN coin'[1][o] ELSE db'[o]
           /\ View(2)'[o] = IF o \in cached'[2] THEN coin'[2][o] ELSE View(1)'[o]
<1>1. View(0)' = db' /\ View(1)' = TipView' /\ View(2)' = ScratchView'
  BY DEF View
<1>2. TipView'[o] = IF o \in cached'[1] THEN coin'[1][o] ELSE db'[o]
  BY Zenon DEF TipView
<1>3. ScratchView'[o] = IF o \in cached'[2] THEN coin'[2][o] ELSE TipView'[o]
  BY Zenon DEF ScratchView
<1> QED
  BY Zenon, <1>1, <1>2, <1>3

LEMMA ViewType ==
    ASSUME TypeOK
    PROVE  View(0) \in Content /\ View(1) \in Content /\ View(2) \in Content
<1>1. View(0) = db /\ View(1) = TipView /\ View(2) = ScratchView
  BY DEF View
<1>2. TipView \in Content
  BY DEF TypeOK, TipView, Content, Level
<1>3. ScratchView \in Content
  BY <1>2 DEF TypeOK, ScratchView, Content, Level
<1> QED
  BY Zenon, <1>1, <1>2, <1>3 DEF TypeOK


LEMMA ViewTypeNext ==
    ASSUME TypeOK'
    PROVE  View(0)' \in Content /\ View(1)' \in Content /\ View(2)' \in Content
<1>1. View(0)' = db' /\ View(1)' = TipView' /\ View(2)' = ScratchView'
  BY DEF View
<1>2. TipView' \in Content
  BY DEF TypeOK, TipView, Content, Level
<1>3. ScratchView' \in Content
  BY <1>2 DEF TypeOK, ScratchView, Content, Level
<1> QED
  BY Zenon, <1>1, <1>2, <1>3 DEF TypeOK

\* What FetchCoin does to the entries of o, and that it does nothing else.
LEMMA FetchAt ==
    ASSUME TypeOK, NEW l \in Level, NEW o \in Outpoint
    PROVE  /\ CachedAfterFetch(l, o) \in [Level -> SUBSET Outpoint]
           /\ CoinAfterFetch(l, o) \in [Level -> Content]
           /\ \A k \in Level : \A p \in Outpoint \ {o} :
                /\ p \in CachedAfterFetch(l, o)[k] <=> p \in cached[k]
                /\ CoinAfterFetch(l, o)[k][p] = coin[k][p]
           /\ \A k \in Level :
                /\ o \in cached[k] => o \in CachedAfterFetch(l, o)[k]
                /\ o \in cached[k] \/ o \notin CachedAfterFetch(l, o)[k]
                     => CoinAfterFetch(l, o)[k][o] = coin[k][o]
                /\ o \notin cached[k] /\ o \in CachedAfterFetch(l, o)[k]
                     => /\ k <= l
                        /\ CoinAfterFetch(l, o)[k][o] = View(k - 1)[o]
                        /\ View(k - 1)[o] # Spent
           /\ o \notin CachedAfterFetch(l, o)[l] => View(l)[o] = Spent
<1> DEFINE ca == CachedAfterFetch(l, o)
           co == CoinAfterFetch(l, o)
           F == Fetching(l, o)
<1>1. /\ ca = [k \in Level |-> IF k \in F THEN cached[k] \cup {o} ELSE cached[k]]
      /\ co = [k \in Level |-> IF k \in F THEN [coin[k] EXCEPT ![o] = View(k - 1)[o]] ELSE coin[k]]
  BY Zenon DEF CachedAfterFetch, CoinAfterFetch
<1>2. F = {k \in 1..l : View(k - 1)[o] # Spent /\ \A j \in k..l : o \notin cached[j]}
  BY Zenon DEF Fetching
<1>3. \A k \in Level : View(k - 1) \in Content
  BY ViewType DEF Level
<1>4. F \subseteq Level /\ \A k \in F : k <= l /\ o \notin cached[k] /\ View(k - 1)[o] # Spent
  BY <1>2 DEF Level
<1> HIDE DEF ca, co, F
<1>5. ca \in [Level -> SUBSET Outpoint]
  BY Zenon, <1>1 DEF TypeOK
<1>6. co \in [Level -> Content]
  <2>1. \A k \in Level : coin[k] \in Content /\ View(k - 1)[o] \in Coin \cup {Spent}
    BY <1>3 DEF TypeOK, Content
  <2>2. \A k \in Level : [coin[k] EXCEPT ![o] = View(k - 1)[o]] \in Content
    BY Zenon, <2>1 DEF Content
  <2> QED
    BY Zenon, <1>1, <2>1, <2>2
<1>7. \A k \in Level : \A p \in Outpoint \ {o} :
         /\ p \in ca[k] <=> p \in cached[k]
         /\ co[k][p] = coin[k][p]
  BY Zenon, <1>1 DEF TypeOK, Content
<1>8. \A k \in Level :
         /\ o \in cached[k] => o \in ca[k]
         /\ o \in cached[k] \/ o \notin ca[k] => co[k][o] = coin[k][o]
         /\ o \notin cached[k] /\ o \in ca[k]
              => k <= l /\ co[k][o] = View(k - 1)[o] /\ View(k - 1)[o] # Spent
  BY <1>1, <1>4 DEF TypeOK, Content
<1>9. o \notin ca[l] => View(l)[o] = Spent
  <2>1. SUFFICES ASSUME o \notin ca[l] PROVE View(l)[o] = Spent
    BY Zenon
  <2>2. o \notin cached[l] /\ l \notin F
    BY Zenon, <2>1, <1>1
  <2>3. View(l - 1)[o] = Spent
    BY <2>2, <1>2 DEF Level
  <2> QED
    BY <2>2, <2>3, ViewAt DEF Level
<1> QED
  BY Zenon, <1>5, <1>6, <1>7, <1>8, <1>9 DEF ca, co

----------------------------------------------------------------------------
(* Steps that change the entries of one outpoint only. *)

Untouched(p) ==
    \A k \in Level : /\ p \in cached'[k] <=> p \in cached[k]
                     /\ coin'[k][p] = coin[k][p]
                     /\ flags'[k][p] = flags[k][p]

LEMMA UntouchedView ==
    ASSUME NEW p \in Outpoint, Untouched(p), db' = db
    PROVE  \A k \in 0..2 : View(k)'[p] = View(k)[p]
BY ViewAt, ViewAtNext DEF Untouched, Level

\* An entry stays as FlagsAreTrue says if it and the views are untouched.
LEMMA OneOutpoint ==
    ASSUME Inv, TypeOK', db' = db, NEW o \in Outpoint,
           \A p \in Outpoint \ {o} : Untouched(p),
           \A l \in Level : EntryTrue(l, o)'
    PROVE  FlagsAreTrue'
<1>1. ASSUME NEW l \in Level, NEW p \in cached'[l]
      PROVE  EntryTrue(l, p)'
  <2>1. p \in Outpoint
    BY Zenon, <1>1 DEF TypeOK
  <2>2. CASE p = o
    BY Zenon, <2>2
  <2>3. CASE p # o
    <3>1. Untouched(p)
      BY Zenon, <2>1, <2>3
    <3>2. View(l - 1)'[p] = View(l - 1)[p]
      BY <3>1, <2>1, UntouchedView DEF Level
    <3>3. EntryTrue(l, p)
      BY Zenon, <3>1, <1>1 DEF Inv, FlagsAreTrue, EntryTrue, Untouched
    <3> QED
      BY Zenon, <3>1, <3>2, <3>3 DEF EntryTrue, Untouched
  <2> QED
    BY Zenon, <2>2, <2>3
<1> QED
  BY Zenon, <1>1 DEF FlagsAreTrue, EntryTrue


LEMMA SameViews ==
    ASSUME TypeOK, TypeOK', \A k \in 0..2 : \A p \in Outpoint : View(k)'[p] = View(k)[p]
    PROVE  \A k \in 0..2 : View(k)' = View(k)
<1>1. \A k \in 0..2 : View(k) \in Content /\ View(k)' \in Content
  BY ViewType, ViewTypeNext
<1> QED
  BY <1>1 DEF Content

LEMMA PutViews ==
    ASSUME TypeOK, TypeOK', NEW o \in Outpoint, NEW c \in Coin \cup {Spent},
           \A k \in 0..2 : \A p \in Outpoint \ {o} : View(k)'[p] = View(k)[p],
           \A k \in 0..2 : View(k)'[o] = IF k < Top THEN View(k)[o] ELSE c
    PROVE  \A k \in 0..2 : View(k)' = IF k < Top THEN View(k) ELSE [View(k) EXCEPT ![o] = c]
<1>1. \A k \in 0..2 : View(k) \in Content /\ View(k)' \in Content
  BY ViewType, ViewTypeNext
<1>2. ASSUME NEW k \in 0..2, k < Top PROVE View(k)' = View(k)
  <2>1. \A p \in Outpoint : View(k)'[p] = View(k)[p]
    BY Zenon, <1>2
  <2> QED
    BY <2>1, <1>1 DEF Content
<1>3. ASSUME NEW k \in 0..2, ~(k < Top) PROVE View(k)' = [View(k) EXCEPT ![o] = c]
  <2>1. View(k)'[o] = c /\ \A p \in Outpoint \ {o} : View(k)'[p] = View(k)[p]
    BY Zenon, <1>3
  <2> QED
    BY Zenon, <2>1, <1>1 DEF Content
<1> QED
  BY Zenon, <1>2, <1>3

LEMMA FetchStep ==
    ASSUME Inv, NEW l \in 1..Top, NEW o \in Outpoint, FetchCoin(l, o)
    PROVE  Inv' /\ \A k \in 0..2 : View(k)' = View(k)
<1>1. l \in Level /\ (open = "no" => l = 1)
  BY DEF Top, Level, Inv, TypeOK
<1>2. /\ cached' = CachedAfterFetch(l, o) /\ coin' = CoinAfterFetch(l, o)
      /\ UNCHANGED <<db, dbBest, flags, hashBlock, open, threw>>
  BY Zenon DEF FetchCoin
<1>3. TypeOK /\ FlagsAreTrue /\ threw = "no"
  BY Zenon DEF Inv, NeverThrows
<1> HIDE DEF Inv
<1>4. TypeOK'
  <2>1. \A k \in Level : \A p \in Outpoint \ cached'[k] : coin'[k][p] = Spent /\ flags'[k][p] = {}
    BY <1>1, <1>2, <1>3, FetchAt DEF TypeOK
  <2>2. open' = "no" => cached'[2] = {} /\ hashBlock'[2] = Null
    BY <1>1, <1>2, <1>3, FetchAt DEF TypeOK, Level
  <2> QED
    BY Zenon, <2>1, <2>2, <1>1, <1>2, <1>3, FetchAt DEF TypeOK
<1>5. \A p \in Outpoint \ {o} : Untouched(p)
  <2>1. \A k \in Level : \A p \in Outpoint \ {o} :
           /\ p \in CachedAfterFetch(l, o)[k] <=> p \in cached[k]
           /\ CoinAfterFetch(l, o)[k][p] = coin[k][p]
    BY Zenon, <1>1, <1>3, FetchAt
  <2> QED
    BY Zenon, <2>1, <1>2 DEF Untouched
<1>6. \A k \in 0..2 : View(k)'[o] = View(k)[o]
  BY <1>1, <1>2, <1>3, FetchAt, ViewAt, ViewAtNext DEF Level
<1>7. \A k \in Level : EntryTrue(k, o)'
  BY SMTT(30), <1>1, <1>2, <1>3, <1>6, FetchAt DEF EntryTrue, FlagsAreTrue, Level, TypeOK
<1>8. FlagsAreTrue'
  BY Zenon, <1>2, <1>4, <1>5, <1>7, OneOutpoint DEF Inv
<1>9. \A k \in 0..2 : \A p \in Outpoint : View(k)'[p] = View(k)[p]
  BY Zenon, <1>2, <1>5, <1>6, UntouchedView
<1> QED
  BY Zenon, <1>2, <1>3, <1>4, <1>8, <1>9, SameViews DEF Inv, NeverThrows


\* AddCoin at the top, by a caller that overwrites no unspent coin unless
\* it says so.
LEMMA AddStep ==
    ASSUME Inv, NEW o \in Outpoint, NEW c \in Coin, NEW ow \in BOOLEAN,
           ow \/ View(Top)[o] = Spent, AddCoin(Top, o, c, ow)
    PROVE  /\ Inv'
           /\ \A k \in 0..2 : View(k)' = IF k < Top THEN View(k) ELSE [View(k) EXCEPT ![o] = c]
<1>0. PICK l \in Level : l = Top
  BY DEF Top, Level
<1>1. l \in Level /\ (open = "no" => l = 1) /\ (open = "yes" => l = 2)
  BY Zenon, <1>0 DEF Top
<1>2. TypeOK /\ FlagsAreTrue /\ threw = "no" /\ Spent \notin Coin
  BY Zenon, SpentAssumption DEF Inv, NeverThrows
<1>3. ow \/ coin[l][o] = Spent
  <2>1. CASE o \in cached[l]
    BY <2>1, <1>0, ViewAt DEF Level
  <2>2. CASE o \notin cached[l]
    BY Zenon, <2>2, <1>1, <1>2 DEF TypeOK
  <2> QED
    BY Zenon, <2>1, <2>2
<1>4. /\ coin' = [coin EXCEPT ![l][o] = c]
      /\ flags' = [flags EXCEPT ![l][o] = AddedFlags(l, o, ow)]
      /\ cached' = [cached EXCEPT ![l] = @ \cup {o}]
      /\ UNCHANGED <<db, dbBest, hashBlock, open, threw>>
  BY Zenon, <1>0, <1>3 DEF AddCoin
<1>5. AddedFlags(l, o, ow) =
        flags[l][o] \cup {"DIRTY"} \cup (IF ow \/ "DIRTY" \in flags[l][o] THEN {} ELSE {"FRESH"})
  BY Zenon DEF AddedFlags
<1>6. TypeOK'
  <2>1. AddedFlags(l, o, ow) \in SUBSET Flag
    BY <1>1, <1>2, <1>5 DEF TypeOK, Flag
  <2>2. \A k \in Level : \A p \in Outpoint \ cached'[k] : coin'[k][p] = Spent /\ flags'[k][p] = {}
    BY <1>1, <1>2, <1>4 DEF TypeOK
  <2>3. cached' \in [Level -> SUBSET Outpoint]
    BY Zenon, <1>1, <1>2, <1>4 DEF TypeOK
  <2>4. coin' \in [Level -> Content] /\ flags' \in [Level -> [Outpoint -> SUBSET Flag]]
    BY Zenon, <1>1, <1>2, <1>4, <2>1 DEF TypeOK, Content
  <2>5. open' = "no" => cached'[2] = {} /\ hashBlock'[2] = Null
    BY <1>1, <1>2, <1>4 DEF TypeOK, Level
  <2> QED
    BY <1>2, <1>4, <2>2, <2>3, <2>4, <2>5, Zenon DEF TypeOK
<1>7. /\ \A p \in Outpoint \ {o} : Untouched(p)
      /\ coin'[l][o] = c /\ flags'[l][o] = AddedFlags(l, o, ow) /\ o \in cached'[l]
      /\ \A k \in Level \ {l} : cached'[k] = cached[k] /\ coin'[k] = coin[k] /\ flags'[k] = flags[k]
  BY Zenon, <1>1, <1>2, <1>4 DEF Untouched, TypeOK, Content
<1>8. \A k \in 0..2 : View(k)'[o] = IF k < l THEN View(k)[o] ELSE c
  BY <1>1, <1>2, <1>4, <1>7, ViewAt, ViewAtNext DEF Level, TypeOK
<1>9. \A k \in Level : EntryTrue(k, o)'
  <2>1. \A k \in Level : o \in cached[k] => EntryTrue(k, o)
    BY Zenon, <1>2 DEF FlagsAreTrue, EntryTrue
  <2>2. EntryTrue(l, o)'
    <3>1. View(l - 1)'[o] = View(l - 1)[o]
      BY <1>1, <1>8 DEF Level
    <3>2. "FRESH" \in flags'[l][o] => View(l - 1)[o] = Spent
      <4>1. CASE o \in cached[l]
        BY <4>1, <2>1, <1>1, <1>2, <1>3, <1>5, <1>7 DEF EntryTrue
      <4>2. CASE o \notin cached[l]
        BY <4>2, <1>1, <1>2, <1>5, <1>7, ViewAt, <1>0 DEF TypeOK, Level
      <4> QED
        BY Zenon, <4>1, <4>2
    <3>3. flags'[l][o] \in {{"DIRTY"}, {"FRESH", "DIRTY"}}
      <4>1. flags[l][o] \in {{}, {"DIRTY"}, {"FRESH", "DIRTY"}}
        BY Zenon, <2>1, <1>1, <1>2 DEF EntryTrue, TypeOK
      <4> QED
        BY Zenon, <4>1, <1>5, <1>7
    <3> QED
      BY Zenon, <3>1, <3>2, <3>3, <1>2, <1>7 DEF EntryTrue
  <2>3. ASSUME NEW k \in Level, k # l PROVE EntryTrue(k, o)'
    <3>1. CASE k < l
      <4>1. View(k - 1)'[o] = View(k - 1)[o]
        BY <3>1, <1>1, <1>8 DEF Level
      <4> QED
        BY Zenon, <4>1, <2>1, <2>3, <1>7 DEF EntryTrue
    <3>2. CASE k > l
      <4>1. o \notin cached'[k]
        BY <3>2, <1>1, <1>2, <1>4 DEF TypeOK, Level
      <4> QED
        BY Zenon, <4>1 DEF EntryTrue
    <3> QED
      BY <3>1, <3>2, <2>3, <1>1 DEF Level
  <2> QED
    BY Zenon, <2>2, <2>3
<1>10. FlagsAreTrue'
  BY Zenon, <1>4, <1>6, <1>7, <1>9, OneOutpoint
<1>11. \A k \in 0..2 : \A p \in Outpoint \ {o} : View(k)'[p] = View(k)[p]
  BY Zenon, <1>4, <1>7, UntouchedView
<1>12. \A k \in 0..2 : View(k)' = IF k < l THEN View(k) ELSE [View(k) EXCEPT ![o] = c]
  BY Zenon, <1>2, <1>6, <1>8, <1>11, <1>0, PutViews
<1> QED
  BY Zenon, <1>2, <1>4, <1>6, <1>10, <1>12, <1>0 DEF Inv, NeverThrows

\* The level below the top after a fetch: its view is the same and its entry
\* is as FlagsAreTrue says, whatever happens to the entry at the top.
LEMMA BelowTop ==
    ASSUME Inv, NEW l \in Level, NEW o \in Outpoint, l = Top,
           \A k \in Level \ {l} : /\ cached'[k] = CachedAfterFetch(l, o)[k]
                                  /\ coin'[k][o] = CoinAfterFetch(l, o)[k][o]
                                  /\ flags'[k][o] = flags[k][o],
           db' = db
    PROVE  /\ \A k \in 0..2 : k < l => View(k)'[o] = View(k)[o]
           /\ \A k \in Level \ {l} : EntryTrue(k, o)'
           /\ l = 1 => o \notin cached'[2]
<1>1. TypeOK /\ FlagsAreTrue /\ (l = 1 => open = "no")
  BY DEF Inv, Top, TypeOK
<1>2. l = 1 => o \notin cached'[2]
  BY SMTT(30), <1>1, FetchAt DEF Level, TypeOK
<1>3. \A k \in 0..2 : k < l => View(k)'[o] = View(k)[o]
  BY SMTT(30), <1>1, FetchAt, ViewAt, ViewAtNext DEF Level
<1>4. ASSUME NEW k \in Level \ {l} PROVE EntryTrue(k, o)'
  <2>1. CASE k > l
    BY <2>1, <1>2 DEF EntryTrue, Level
  <2>2. CASE k < l
    <3>1. k = 1 /\ l = 2
      BY <2>2 DEF Level
    <3>2. View(0)'[o] = View(0)[o]
      BY <3>1, <1>3
    <3>3. CASE o \in cached[1]
      <4>1. EntryTrue(1, o)
        BY <3>3, <1>1 DEF FlagsAreTrue, EntryTrue, Level
      <4>2. coin'[1][o] = coin[1][o] /\ flags'[1][o] = flags[1][o]
        BY <3>1, <3>3, <1>1, FetchAt DEF Level
      <4> QED
        BY <4>1, <4>2, <3>1, <3>2, <3>3 DEF EntryTrue
    <3>4. CASE o \notin cached[1] /\ o \in cached'[1]
      <4>1. coin'[1][o] = View(0)[o] /\ View(0)[o] # Spent /\ flags'[1][o] = {}
        BY <3>1, <3>4, <1>1, FetchAt DEF Level, TypeOK
      <4> QED
        BY SMTT(30), <4>1, <3>1, <3>2 DEF EntryTrue
    <3> QED
      BY Zenon, <3>1, <3>3, <3>4 DEF EntryTrue
  <2> QED
    BY <2>1, <2>2 DEF Level
<1> QED
  BY Zenon, <1>2, <1>3, <1>4

LEMMA AddCheckedStep ==
    ASSUME Inv, NEW o \in Outpoint, NEW c \in Coin, AddCheckedCoin(Top, o, c)
    PROVE  /\ Inv'
           /\ \A k \in 0..2 : View(k)' = IF k < Top THEN View(k) ELSE [View(k) EXCEPT ![o] = c]
<1>1. CASE View(Top)[o] = Spent
  BY <1>1, AddStep, Zenon DEF AddCheckedCoin
<1>2. CASE View(Top)[o] # Spent
  <2>0. PICK l \in Level : l = Top
    BY DEF Top, Level
  <2>1. (open = "no" => l = 1) /\ (open = "yes" => l = 2)
    BY Zenon, <2>0 DEF Top
  <2>2. TypeOK /\ FlagsAreTrue /\ threw = "no" /\ Spent \notin Coin
    BY Zenon, SpentAssumption DEF Inv, NeverThrows
  <2>3. /\ cached' = CachedAfterFetch(l, o)
        /\ coin' = [CoinAfterFetch(l, o) EXCEPT ![l][o] = c]
        /\ flags' = [flags EXCEPT ![l][o] = flags[l][o] \cup {"DIRTY"}]
        /\ UNCHANGED <<db, dbBest, hashBlock, open, threw>>
    <3>1. AddedFlags(l, o, TRUE) = flags[l][o] \cup {"DIRTY"}
      BY Zenon DEF AddedFlags
    <3> QED
      BY <1>2, <2>0, <3>1, Zenon DEF AddCheckedCoin
  <2>4. o \in cached'[l]
    BY SMTT(30), <1>2, <2>0, <2>2, <2>3, FetchAt
  <2>5. CoinAfterFetch(l, o) \in [Level -> Content] /\ flags \in [Level -> [Outpoint -> SUBSET Flag]]
    BY Zenon, <2>2, FetchAt DEF TypeOK
  <2>6. /\ \A p \in Outpoint \ {o} : \A k \in Level :
             coin'[k][p] = CoinAfterFetch(l, o)[k][p] /\ flags'[k][p] = flags[k][p]
        /\ \A k \in Level \ {l} : coin'[k][o] = CoinAfterFetch(l, o)[k][o] /\ flags'[k][o] = flags[k][o]
        /\ coin'[l][o] = c /\ flags'[l][o] = flags[l][o] \cup {"DIRTY"}
    <3> DEFINE co == CoinAfterFetch(l, o)
    <3> HIDE DEF co
    <3>1. co \in [Level -> Content] /\ coin' = [co EXCEPT ![l][o] = c]
      BY Zenon, <2>3, <2>5 DEF co
    <3>2. /\ \A p \in Outpoint \ {o} : \A k \in Level : coin'[k][p] = co[k][p]
          /\ \A k \in Level \ {l} : coin'[k][o] = co[k][o]
          /\ coin'[l][o] = c
      BY Zenon, <3>1 DEF Content
    <3>3. /\ \A p \in Outpoint \ {o} : \A k \in Level : flags'[k][p] = flags[k][p]
          /\ \A k \in Level \ {l} : flags'[k][o] = flags[k][o]
          /\ flags'[l][o] = flags[l][o] \cup {"DIRTY"}
      BY SMTT(30), <2>3, <2>5
    <3> QED
      BY Zenon, <3>2, <3>3 DEF co
  <2>7. TypeOK'
    <3>1. coin' \in [Level -> Content]
      BY <2>2, <2>3, FetchAt DEF Content
    <3>2. flags' \in [Level -> [Outpoint -> SUBSET Flag]]
      <4>1. flags[l][o] \cup {"DIRTY"} \in SUBSET Flag
        BY <2>2 DEF TypeOK, Flag
      <4> QED
        BY Zenon, <4>1, <2>2, <2>3 DEF TypeOK
    <3>3. ASSUME NEW k \in Level, NEW p \in Outpoint \ cached'[k]
          PROVE  coin'[k][p] = Spent /\ flags'[k][p] = {}
      <4>1. p \notin cached[k] /\ CoinAfterFetch(l, o)[k][p] = coin[k][p]
        BY <3>3, <2>2, <2>3, FetchAt
      <4>2. coin[k][p] = Spent /\ flags[k][p] = {}
        BY Zenon, <4>1, <2>2 DEF TypeOK
      <4> QED
        BY Zenon, <4>1, <4>2, <2>4, <2>6, <3>3
    <3>4. open' = "no" => cached'[2] = {} /\ hashBlock'[2] = Null
      BY SMTT(30), <2>1, <2>2, <2>3, FetchAt DEF TypeOK, Level
    <3>5. cached' \in [Level -> SUBSET Outpoint]
      BY Zenon, <2>2, <2>3, FetchAt
    <3> QED
      BY Zenon, <2>2, <2>3, <3>1, <3>2, <3>3, <3>4, <3>5 DEF TypeOK
  <2>8. \A p \in Outpoint \ {o} : Untouched(p)
    <3>1. \A k \in Level : \A p \in Outpoint \ {o} :
             (p \in cached'[k] <=> p \in cached[k]) /\ CoinAfterFetch(l, o)[k][p] = coin[k][p]
      BY <2>2, <2>3, FetchAt
    <3> QED
      BY <3>1, <2>6 DEF Untouched
  <2>9. /\ \A k \in 0..2 : k < l => View(k)'[o] = View(k)[o]
        /\ \A k \in Level \ {l} : EntryTrue(k, o)'
        /\ l = 1 => o \notin cached'[2]
    BY <2>0, <2>3, <2>6, BelowTop
  <2>10. \A k \in 0..2 : View(k)'[o] = IF k < l THEN View(k)[o] ELSE c
    BY <2>4, <2>6, <2>9, ViewAtNext DEF Level
  <2>11. EntryTrue(l, o)'
    <3>1. View(l - 1)'[o] = View(l - 1)[o]
      BY <2>9 DEF Level
    <3>2. CASE o \in cached[l]
      <4>1. EntryTrue(l, o)
        BY Zenon, <3>2, <2>2 DEF FlagsAreTrue, EntryTrue
      <4> QED
        BY Zenon, <4>1, <3>1, <3>2, <2>2, <2>6 DEF EntryTrue
    <3>3. CASE o \notin cached[l]
      <4>1. flags[l][o] = {}
        BY Zenon, <3>3, <2>2 DEF TypeOK
      <4> QED
        BY Zenon, <4>1, <3>1, <2>2, <2>6 DEF EntryTrue
    <3> QED
      BY Zenon, <3>2, <3>3
  <2>12. FlagsAreTrue'
    BY Zenon, <2>3, <2>7, <2>8, <2>9, <2>11, OneOutpoint
  <2>13. \A k \in 0..2 : \A p \in Outpoint \ {o} : View(k)'[p] = View(k)[p]
    BY Zenon, <2>3, <2>8, UntouchedView
  <2>14. \A k \in 0..2 : View(k)' = IF k < l THEN View(k) ELSE [View(k) EXCEPT ![o] = c]
    BY Zenon, <2>0, <2>2, <2>7, <2>10, <2>13, PutViews
  <2> QED
    BY Zenon, <2>0, <2>2, <2>3, <2>7, <2>12, <2>14 DEF Inv, NeverThrows
<1> QED
  BY Zenon, <1>1, <1>2

LEMMA FetchNothing ==
    ASSUME TypeOK, NEW l \in Level, NEW o \in Outpoint, o \in cached[l]
    PROVE  CachedAfterFetch(l, o) = cached /\ CoinAfterFetch(l, o) = coin
<1>1. \A k \in Level : k \notin Fetching(l, o)
  BY DEF Fetching, Level
<1>2. cached = [k \in Level |-> cached[k]] /\ coin = [k \in Level |-> coin[k]]
  BY Zenon DEF TypeOK
<1> QED
  BY Zenon, <1>1, <1>2 DEF CachedAfterFetch, CoinAfterFetch

LEMMA SpendStep ==
    ASSUME Inv, NEW o \in Outpoint, SpendCoin(Top, o)
    PROVE  /\ Inv'
           /\ \A k \in 0..2 : View(k)' = IF k < Top THEN View(k) ELSE [View(k) EXCEPT ![o] = Spent]
<1>0. PICK l \in Level : l = Top
  BY DEF Top, Level
<1>1. (open = "no" => l = 1) /\ (open = "yes" => l = 2)
  BY Zenon, <1>0 DEF Top
<1>2. TypeOK /\ FlagsAreTrue /\ threw = "no" /\ Spent \notin Coin
  BY Zenon, SpentAssumption DEF Inv, NeverThrows
<1> DEFINE ca == CachedAfterFetch(l, o)
           co == CoinAfterFetch(l, o)
           erase == "FRESH" \in flags[l][o]
<1>3. /\ o \in ca[l]
      /\ cached' = IF erase THEN [cached EXCEPT ![l] = @ \ {o}] ELSE ca
      /\ flags' = [flags EXCEPT ![l][o] = IF erase THEN {} ELSE flags[l][o] \cup {"DIRTY"}]
      /\ coin' = [co EXCEPT ![l][o] = Spent]
      /\ UNCHANGED <<db, dbBest, hashBlock, open, threw>>
  BY Zenon, <1>0 DEF SpendCoin
<1>4. erase => o \in cached[l] /\ ca = cached /\ View(l - 1)[o] = Spent
  <2>1. SUFFICES ASSUME erase PROVE o \in cached[l] /\ ca = cached /\ View(l - 1)[o] = Spent
    BY Zenon
  <2>2. o \in cached[l]
    BY SMTT(30), <2>1, <1>2 DEF TypeOK
  <2> QED
    BY Zenon, <2>1, <2>2, <1>2, FetchNothing DEF FlagsAreTrue
<1>5. /\ ca \in [Level -> SUBSET Outpoint] /\ co \in [Level -> Content]
      /\ flags \in [Level -> [Outpoint -> SUBSET Flag]]
      /\ \A k \in Level : \A p \in Outpoint \ {o} : (p \in ca[k] <=> p \in cached[k]) /\ co[k][p] = coin[k][p]
      /\ \A k \in Level : o \in cached[k] \/ o \notin ca[k] => co[k][o] = coin[k][o]
      /\ \A k \in Level : o \in cached[k] => o \in ca[k]
  BY <1>2, FetchAt DEF TypeOK
<1> HIDE DEF ca, co, erase
<1>6. /\ \A p \in Outpoint \ {o} : \A k \in Level : coin'[k][p] = co[k][p]
      /\ \A k \in Level \ {l} : coin'[k][o] = co[k][o]
      /\ coin'[l][o] = Spent
  BY Zenon, <1>3, <1>5 DEF Content
<1>7. /\ \A p \in Outpoint \ {o} : \A k \in Level : flags'[k][p] = flags[k][p]
      /\ \A k \in Level \ {l} : flags'[k][o] = flags[k][o]
      /\ flags'[l][o] = IF erase THEN {} ELSE flags[l][o] \cup {"DIRTY"}
  BY <1>3, <1>5, Zenon
<1>8. /\ \A k \in Level \ {l} : cached'[k] = ca[k]
      /\ \A k \in Level : \A p \in Outpoint \ {o} : p \in cached'[k] <=> p \in ca[k]
      /\ o \in cached'[l] <=> ~erase
      /\ cached' \in [Level -> SUBSET Outpoint]
  <2>1. CASE erase
    BY Zenon, <2>1, <1>2, <1>3, <1>4 DEF TypeOK
  <2>2. CASE ~erase
    BY SMTT(30), <2>2, <1>3, <1>5
  <2> QED
    BY Zenon, <2>1, <2>2
<1>9. TypeOK'
  <2>1. coin' \in [Level -> Content]
    BY SMTT(30), <1>3, <1>5 DEF Content
  <2>2. flags' \in [Level -> [Outpoint -> SUBSET Flag]]
    <3>1. (IF erase THEN {} ELSE flags[l][o] \cup {"DIRTY"}) \in SUBSET Flag
      BY <1>5 DEF Flag
    <3> QED
      BY Zenon, <3>1, <1>3, <1>5
  <2>3. ASSUME NEW k \in Level, NEW p \in Outpoint \ cached'[k]
        PROVE  coin'[k][p] = Spent /\ flags'[k][p] = {}
    <3>1. CASE p # o \/ k # l
      <4>1. p \notin ca[k]
        BY Zenon, <3>1, <2>3, <1>8
      <4>2. p \notin cached[k] /\ co[k][p] = coin[k][p]
        BY SMTT(30), <4>1, <2>3, <1>5
      <4>3. coin[k][p] = Spent /\ flags[k][p] = {}
        BY Zenon, <4>2, <1>2 DEF TypeOK
      <4> QED
        BY Zenon, <3>1, <4>2, <4>3, <1>6, <1>7
    <3>2. CASE p = o /\ k = l
      BY Zenon, <3>2, <2>3, <1>6, <1>7, <1>8
    <3> QED
      BY Zenon, <3>1, <3>2
  <2>4. open' = "no" => cached'[2] = {} /\ hashBlock'[2] = Null
    <3>1. SUFFICES ASSUME open = "no" PROVE cached'[2] = {} /\ hashBlock'[2] = Null
      BY Zenon, <1>3
    <3>2. l = 1 /\ cached[2] = {} /\ hashBlock'[2] = Null
      BY SMTT(30), <3>1, <1>1, <1>2, <1>3 DEF TypeOK
    <3>3. ca[2] = {}
      BY SMTT(30), <3>2, <1>2, <1>5, FetchAt DEF Level, ca
    <3> QED
      BY <3>2, <3>3, <1>8 DEF Level
  <2> QED
    BY Zenon, <1>2, <1>3, <1>8, <2>1, <2>2, <2>3, <2>4 DEF TypeOK
<1>10. \A p \in Outpoint \ {o} : Untouched(p)
  BY SMTT(30), <1>5, <1>6, <1>7, <1>8 DEF Untouched
<1>11. /\ \A k \in 0..2 : k < l => View(k)'[o] = View(k)[o]
       /\ \A k \in Level \ {l} : EntryTrue(k, o)'
       /\ l = 1 => o \notin cached'[2]
  BY <1>0, <1>3, <1>6, <1>7, <1>8, BelowTop DEF ca, co
<1>12. \A k \in 0..2 : View(k)'[o] = IF k < l THEN View(k)[o] ELSE Spent
  <2>1. View(l - 1)'[o] = View(l - 1)[o]
    BY <1>11 DEF Level
  <2>2. View(l)'[o] = Spent
    BY <2>1, <1>4, <1>6, <1>8, ViewAtNext DEF Level
  <2>3. l = 1 => View(2)'[o] = View(1)'[o]
    BY Zenon, <1>11, ViewAtNext
  <2> QED
    BY <2>2, <2>3, <1>11 DEF Level
<1>13. EntryTrue(l, o)'
  <2>1. CASE erase
    BY Zenon, <2>1, <1>8 DEF EntryTrue
  <2>2. CASE ~erase
    <3>1. flags'[l][o] = {"DIRTY"}
      BY <2>2, <1>5, <1>7 DEF erase, Flag
    <3> QED
      BY Zenon, <3>1, <1>6 DEF EntryTrue
  <2> QED
    BY SMTT(30), <2>1, <2>2
<1>14. FlagsAreTrue'
  BY Zenon, <1>3, <1>9, <1>10, <1>11, <1>13, OneOutpoint
<1>15. \A k \in 0..2 : \A p \in Outpoint \ {o} : View(k)'[p] = View(k)[p]
  BY Zenon, <1>3, <1>10, UntouchedView
<1>16. \A k \in 0..2 : View(k)' = IF k < l THEN View(k) ELSE [View(k) EXCEPT ![o] = Spent]
  BY Zenon, <1>0, <1>2, <1>9, <1>12, <1>15, PutViews
<1> QED
  BY Zenon, <1>0, <1>2, <1>3, <1>9, <1>14, <1>16 DEF Inv, NeverThrows

LEMMA UncacheStep ==
    ASSUME Inv, NEW o \in Outpoint, Uncache(o)
    PROVE  Inv' /\ \A k \in 0..2 : View(k)' = View(k)
<1>1. TypeOK /\ FlagsAreTrue /\ threw = "no"
  BY Zenon DEF Inv, NeverThrows
<1>2. /\ o \in cached[1] /\ flags[1][o] = {}
      /\ cached' = [cached EXCEPT ![1] = @ \ {o}]
      /\ coin' = [coin EXCEPT ![1][o] = Spent]
      /\ UNCHANGED <<db, dbBest, flags, hashBlock, open, threw>>
  BY Zenon DEF Uncache
<1>3. /\ cached'[1] = cached[1] \ {o} /\ cached'[2] = cached[2]
      /\ coin'[1][o] = Spent /\ coin'[2] = coin[2]
      /\ \A p \in Outpoint \ {o} : coin'[1][p] = coin[1][p]
  BY <1>1, <1>2 DEF TypeOK, Level, Content
<1>4. TypeOK'
  <2>1. coin' \in [Level -> Content] /\ cached' \in [Level -> SUBSET Outpoint]
    BY <1>1, <1>2, Zenon DEF TypeOK, Content
  <2>2. \A k \in Level : \A p \in Outpoint \ cached'[k] : coin'[k][p] = Spent /\ flags'[k][p] = {}
    BY <1>1, <1>2, <1>3 DEF TypeOK, Level
  <2> QED
    BY Zenon, <1>1, <1>2, <1>3, <2>1, <2>2 DEF TypeOK
<1>5. \A p \in Outpoint \ {o} : Untouched(p)
  BY <1>2, <1>3 DEF Untouched, Level
<1>6. coin[1][o] = View(0)[o]
  <2>1. coin[1][o] = View(1 - 1)[o]
    BY <1>1, <1>2 DEF FlagsAreTrue, Level
  <2> QED
    BY <2>1
<1>7. \A k \in 0..2 : View(k)'[o] = View(k)[o]
  BY <1>2, <1>3, <1>6, ViewAt, ViewAtNext
<1>8. \A k \in Level : EntryTrue(k, o)'
  <2>1. EntryTrue(1, o)'
    BY Zenon, <1>3 DEF EntryTrue
  <2>2. EntryTrue(2, o)'
    <3>1. o \in cached[2] => EntryTrue(2, o)
      BY <1>1 DEF FlagsAreTrue, EntryTrue, Level
    <3>2. View(2 - 1)'[o] = View(2 - 1)[o]
      BY <1>7
    <3> QED
      BY SMTT(30), <3>1, <3>2, <1>2, <1>3 DEF EntryTrue
  <2> QED
    BY <2>1, <2>2 DEF Level
<1>9. FlagsAreTrue'
  BY Zenon, <1>2, <1>4, <1>5, <1>8, OneOutpoint
<1>10. \A k \in 0..2 : \A p \in Outpoint : View(k)'[p] = View(k)[p]
  BY Zenon, <1>2, <1>5, <1>7, UntouchedView
<1> QED
  BY Zenon, <1>1, <1>2, <1>4, <1>9, <1>10, SameViews DEF Inv, NeverThrows

----------------------------------------------------------------------------
(* Flushing *)

\* BatchWrite never finds FRESH misapplied.
LEMMA NoneMisapplied ==
    ASSUME Inv PROVE Misapplied = {}
<1>1. SUFFICES ASSUME NEW o \in Misapplied PROVE FALSE
  BY Zenon
<1>2. /\ o \in Outpoint /\ o \in cached[1] /\ o \in cached[2]
      /\ "FRESH" \in flags[2][o] /\ coin[1][o] # Spent
  BY DEF Misapplied, Dirty, Inv, TypeOK, Level
<1>3. View(2 - 1)[o] = Spent
  BY SMTT(30), <1>2 DEF Inv, FlagsAreTrue, Level
<1> QED
  BY <1>2, <1>3, ViewAt

\* One outpoint through BatchWrite: the tip's view becomes the scratch view,
\* and the flags of its entry are true of the database.
LEMMA FlushedAt ==
    ASSUME Inv, NEW o \in Outpoint,
           o \in cached'[1] <=> o \in (cached[1] \cup Created) \ Erased,
           coin'[1][o] = ParentCoin(o), flags'[1][o] = ParentFlags(o),
           o \notin cached'[2], db' = db
    PROVE  /\ View(1)'[o] = View(2)[o] /\ View(2)'[o] = View(2)[o]
           /\ \A l \in Level : EntryTrue(l, o)'
           /\ ParentCoin(o) \in Coin \cup {Spent} /\ ParentFlags(o) \in SUBSET Flag
           /\ o \notin cached'[1] => ParentCoin(o) = Spent /\ ParentFlags(o) = {}
<1>1. TypeOK /\ (\A l \in Level : EntryTrue(l, o)) /\ Spent \notin Coin
  BY SMTT(30), SpentAssumption DEF Inv, FlagsAreTrue, EntryTrue
<1>2. /\ coin[1][o] \in Coin \cup {Spent} /\ coin[2][o] \in Coin \cup {Spent} /\ db[o] \in Coin \cup {Spent}
      /\ flags[1][o] \in SUBSET Flag /\ flags[2][o] \in SUBSET Flag
  BY <1>1 DEF TypeOK, Level, Content
<1>3. /\ View(0)[o] = db[o] /\ View(0)'[o] = db[o]
      /\ View(1)[o] = IF o \in cached[1] THEN coin[1][o] ELSE db[o]
      /\ View(2)[o] = IF o \in cached[2] THEN coin[2][o] ELSE View(1)[o]
      /\ View(1)'[o] = IF o \in cached'[1] THEN coin'[1][o] ELSE db[o]
      /\ View(2)'[o] = View(1)'[o]
  BY SMTT(30), ViewAt, ViewAtNext
<1>4. /\ o \in cached[1] =>
           /\ "FRESH" \in flags[1][o] => db[o] = Spent
           /\ "DIRTY" \notin flags[1][o] => coin[1][o] = db[o]
           /\ IF coin[1][o] = Spent THEN flags[1][o] = {"DIRTY"}
                                    ELSE flags[1][o] \in {{}, {"DIRTY"}, {"FRESH", "DIRTY"}}
      /\ o \in cached[2] =>
           /\ "FRESH" \in flags[2][o] => View(1)[o] = Spent
           /\ "DIRTY" \notin flags[2][o] => coin[2][o] = View(1)[o]
           /\ IF coin[2][o] = Spent THEN flags[2][o] = {"DIRTY"}
                                    ELSE flags[2][o] \in {{}, {"DIRTY"}, {"FRESH", "DIRTY"}}
  <2>1. EntryTrue(1, o) /\ EntryTrue(2, o) /\ 1 - 1 = 0 /\ 2 - 1 = 1
    BY SMTT(30), <1>1 DEF Level
  <2> QED
    BY Zenon, <2>1, <1>3 DEF EntryTrue
<1>5. \A l \in Level : o \notin cached[l] => coin[l][o] = Spent /\ flags[l][o] = {}
  BY SMTT(30), <1>1 DEF TypeOK
<1>6. SUFFICES /\ View(1)'[o] = View(2)[o]
               /\ o \in cached'[1] =>
                    /\ "FRESH" \in flags'[1][o] => db[o] = Spent
                    /\ "DIRTY" \notin flags'[1][o] => coin'[1][o] = db[o]
                    /\ IF coin'[1][o] = Spent THEN flags'[1][o] = {"DIRTY"}
                         ELSE flags'[1][o] \in {{}, {"DIRTY"}, {"FRESH", "DIRTY"}}
               /\ ParentCoin(o) \in Coin \cup {Spent} /\ ParentFlags(o) \in SUBSET Flag
               /\ o \notin cached'[1] => ParentCoin(o) = Spent /\ ParentFlags(o) = {}
  <2>1. 1 - 1 = 0
    BY SMTT(30)
  <2> QED
    BY <2>1, <1>3 DEF EntryTrue, Level
<1>7. CASE o \in Created
  <2>1. /\ o \notin cached[1] /\ o \in cached[2] /\ "DIRTY" \in flags[2][o]
        /\ o \notin Erased /\ o \in cached'[1]
        /\ coin'[1][o] = coin[2][o] /\ flags'[1][o] = {"DIRTY"} \cup (flags[2][o] \cap {"FRESH"})
        /\ ParentCoin(o) = coin[2][o] /\ ParentFlags(o) = {"DIRTY"} \cup (flags[2][o] \cap {"FRESH"})
    BY SMTT(30), <1>7 DEF Created, Erased, Dirty, ParentCoin, ParentFlags
  <2>2. flags'[1][o] = IF "FRESH" \in flags[2][o] THEN {"FRESH", "DIRTY"} ELSE {"DIRTY"}
    BY SMTT(30), <2>1
  <2> QED
    BY SMTT(30), <2>1, <2>2, <1>2, <1>3, <1>4 DEF Flag
<1>8. CASE o \in Modified
  <2>1. /\ o \in cached[1] /\ o \in cached[2] /\ "DIRTY" \in flags[2][o]
        /\ o \notin Erased /\ o \notin Created /\ o \in cached'[1]
        /\ coin'[1][o] = coin[2][o] /\ flags'[1][o] = flags[1][o] \cup {"DIRTY"}
        /\ ParentCoin(o) = coin[2][o] /\ ParentFlags(o) = flags[1][o] \cup {"DIRTY"}
        /\ coin[2][o] = Spent => "FRESH" \notin flags[1][o]
    BY SMTT(30), <1>8 DEF Created, Modified, Erased, Dirty, ParentCoin, ParentFlags
  <2>2. flags'[1][o] = IF "FRESH" \in flags[1][o] THEN {"FRESH", "DIRTY"} ELSE {"DIRTY"}
    BY SMTT(30), <2>1, <1>4
  <2> QED
    BY SMTT(30), <2>1, <2>2, <1>2, <1>3, <1>4 DEF Flag
<1>9. CASE o \in Erased
  <2>1. /\ o \in cached[1] /\ o \in cached[2] /\ "FRESH" \in flags[1][o] /\ coin[2][o] = Spent
        /\ o \notin Modified /\ o \notin Created /\ o \notin cached'[1]
        /\ ParentCoin(o) = Spent /\ ParentFlags(o) = {}
    BY SMTT(30), <1>9 DEF Created, Modified, Erased, Dirty, ParentCoin, ParentFlags
  <2> QED
    BY SMTT(30), <2>1, <1>3, <1>4
<1>10. CASE o \notin Created /\ o \notin Modified /\ o \notin Erased
  <2>1. /\ o \in cached'[1] <=> o \in cached[1]
        /\ coin'[1][o] = coin[1][o] /\ flags'[1][o] = flags[1][o]
        /\ ParentCoin(o) = coin[1][o] /\ ParentFlags(o) = flags[1][o]
    BY Zenon, <1>10 DEF ParentCoin, ParentFlags
  <2>2. o \in cached[2] => coin[2][o] = View(1)[o]
    <3>1. CASE o \notin Dirty(2)
      BY Zenon, <3>1, <1>4 DEF Dirty
    <3>2. CASE o \in Dirty(2)
      <4>1. o \notin cached[1] /\ "FRESH" \in flags[2][o] /\ coin[2][o] = Spent /\ o \in cached[2]
        BY Zenon, <3>2, <1>10 DEF Created, Modified, Dirty
      <4> QED
        BY Zenon, <4>1, <1>4
    <3> QED
      BY SMTT(30), <3>1, <3>2
  <2> QED
    BY SMTT(30), <2>1, <2>2, <1>2, <1>3, <1>4, <1>5 DEF Level
<1> QED
  BY SMTT(30), <1>7, <1>8, <1>9, <1>10

LEMMA FlushScratchStep ==
    ASSUME Inv, FlushScratch
    PROVE  /\ Inv'
           /\ \A k \in 0..2 : View(k)' = IF k = 1 THEN View(2) ELSE View(k)
           /\ open = "yes" /\ open' = open
           /\ \A k \in 0..2 : Best(k)' = IF k = 1 THEN Best(2) ELSE Best(k)
<1>1. TypeOK /\ FlagsAreTrue /\ threw = "no"
  BY Zenon DEF Inv, NeverThrows
<1>2. /\ cached' = [l \in Level |-> IF l = 1 THEN (cached[1] \cup Created) \ Erased ELSE {}]
      /\ coin' = [l \in Level |-> [o \in Outpoint |-> IF l = 1 THEN ParentCoin(o) ELSE Spent]]
      /\ flags' = [l \in Level |-> [o \in Outpoint |-> IF l = 1 THEN ParentFlags(o) ELSE {}]]
      /\ hashBlock' = [hashBlock EXCEPT ![1] = hashBlock[2]]
      /\ hashBlock[2] # Null /\ open = "yes"
      /\ UNCHANGED <<db, dbBest, open, threw>>
  BY Zenon, NoneMisapplied DEF FlushScratch
<1>3. /\ cached'[1] = (cached[1] \cup Created) \ Erased /\ cached'[2] = {}
      /\ \A o \in Outpoint : /\ coin'[1][o] = ParentCoin(o) /\ flags'[1][o] = ParentFlags(o)
                             /\ coin'[2][o] = Spent /\ flags'[2][o] = {}
  BY <1>2 DEF Level
<1>4. \A o \in Outpoint :
        /\ View(1)'[o] = View(2)[o] /\ View(2)'[o] = View(2)[o]
        /\ \A l \in Level : EntryTrue(l, o)'
        /\ ParentCoin(o) \in Coin \cup {Spent} /\ ParentFlags(o) \in SUBSET Flag
        /\ o \notin cached'[1] => ParentCoin(o) = Spent /\ ParentFlags(o) = {}
  BY <1>2, <1>3, FlushedAt, Zenon
<1>5. TypeOK'
  <2>1. cached' \in [Level -> SUBSET Outpoint]
    BY <1>1, <1>2 DEF TypeOK, Created, Dirty, Level
  <2>2. coin' \in [Level -> Content] /\ flags' \in [Level -> [Outpoint -> SUBSET Flag]]
    BY <1>2, <1>4, Zenon DEF Content
  <2>3. \A k \in Level : \A p \in Outpoint \ cached'[k] : coin'[k][p] = Spent /\ flags'[k][p] = {}
    BY <1>3, <1>4 DEF Level
  <2>4. hashBlock' \in [Level -> Block \cup {Null}]
    BY SMTT(30), <1>1, <1>2 DEF TypeOK, Level
  <2> QED
    BY Zenon, <1>1, <1>2, <2>1, <2>2, <2>3, <2>4 DEF TypeOK
<1>6. FlagsAreTrue'
  <2>1. \A l \in Level : cached'[l] \subseteq Outpoint
    BY Zenon, <1>5 DEF TypeOK
  <2> QED
    BY Zenon, <2>1, <1>4 DEF FlagsAreTrue, EntryTrue
<1>7. \A k \in 0..2 : View(k)' = IF k = 1 THEN View(2) ELSE View(k)
  <2>1. View(0)' = View(0)
    BY <1>2 DEF View
  <2>2. View(1)' = View(2) /\ View(2)' = View(2)
    <3>1. View(1)' \in Content /\ View(2)' \in Content /\ View(2) \in Content
      BY Zenon, <1>1, <1>5, ViewType, ViewTypeNext
    <3> QED
      BY <3>1, <1>4 DEF Content
  <2> QED
    BY <2>1, <2>2
<1>8. \A k \in 0..2 : Best(k)' = IF k = 1 THEN Best(2) ELSE Best(k)
  <2>1. hashBlock'[1] = hashBlock[2] /\ hashBlock'[2] = hashBlock[2]
    BY <1>1, <1>2 DEF TypeOK, Level
  <2> QED
    BY <2>1, <1>2 DEF Best, TipBest, ScratchBest
<1> QED
  BY Zenon, <1>1, <1>2, <1>5, <1>6, <1>7, <1>8 DEF Inv, NeverThrows

LEMMA FlushTipStep ==
    ASSUME Inv, FlushTip
    PROVE  /\ Inv'
           /\ \A k \in 0..2 : View(k)' = IF k = 0 THEN View(1) ELSE View(k)
           /\ open = "no" /\ open' = open
           /\ \A k \in 0..2 : Best(k)' = IF k = 0 THEN Best(1) ELSE Best(k)
<1>1. TypeOK /\ FlagsAreTrue /\ threw = "no"
  BY Zenon DEF Inv, NeverThrows
<1>2. /\ open = "no" /\ TipBest # Null
      /\ db' = [o \in Outpoint |-> IF o \in Dirty(1) THEN coin[1][o] ELSE db[o]]
      /\ dbBest' = TipBest
      /\ hashBlock' = [hashBlock EXCEPT ![1] = TipBest]
      /\ cached' = [cached EXCEPT ![1] = {}]
      /\ coin' = [coin EXCEPT ![1] = [o \in Outpoint |-> Spent]]
      /\ flags' = [flags EXCEPT ![1] = [o \in Outpoint |-> {}]]
      /\ UNCHANGED <<open, threw>>
  BY Zenon DEF FlushTip
<1>3. /\ cached[2] = {} /\ hashBlock[2] = Null
      /\ TipBest \in Block \cup {Null}
  BY <1>1, <1>2 DEF TypeOK, TipBest, Level
<1>4. /\ cached' \in [Level -> SUBSET Outpoint] /\ coin' \in [Level -> Content]
      /\ flags' \in [Level -> [Outpoint -> SUBSET Flag]]
      /\ hashBlock' \in [Level -> Block \cup {Null}]
  BY Zenon, <1>1, <1>2, <1>3 DEF TypeOK, Content, Level
<1>5. /\ cached'[1] = {} /\ cached'[2] = {}
      /\ \A o \in Outpoint : coin'[1][o] = Spent /\ flags'[1][o] = {}
      /\ coin'[2] = coin[2] /\ flags'[2] = flags[2]
      /\ hashBlock'[1] = TipBest /\ hashBlock'[2] = Null
  BY <1>1, <1>2, <1>3 DEF TypeOK, Level
<1>6. db' \in Content
  BY SMTT(30), <1>1, <1>2 DEF TypeOK, Content, Level
<1>7. TypeOK'
  <2>1. \A k \in Level : \A p \in Outpoint \ cached'[k] : coin'[k][p] = Spent /\ flags'[k][p] = {}
    BY <1>1, <1>3, <1>5 DEF TypeOK, Level
  <2> QED
    BY SMTT(30), <1>1, <1>2, <1>3, <1>4, <1>5, <1>6, <2>1 DEF TypeOK
<1>8. FlagsAreTrue'
  BY <1>5 DEF FlagsAreTrue, Level
<1>9. \A o \in Outpoint : db'[o] = View(1)[o]
  <2>1. SUFFICES ASSUME NEW o \in Outpoint PROVE db'[o] = View(1)[o]
    BY Zenon
  <2>2. CASE o \in Dirty(1)
    BY Zenon, <2>2, <1>2, ViewAt DEF Dirty
  <2>3. CASE o \notin Dirty(1) /\ o \in cached[1]
    <3>1. coin[1][o] = View(1 - 1)[o]
      BY SMTT(30), <2>3, <1>1 DEF FlagsAreTrue, Dirty, Level
    <3> QED
      BY <3>1, <2>3, <1>2, ViewAt
  <2>4. CASE o \notin Dirty(1) /\ o \notin cached[1]
    BY Zenon, <2>4, <1>2, ViewAt
  <2> QED
    BY Zenon, <2>2, <2>3, <2>4
<1>10. \A o \in Outpoint : \A k \in 0..2 : View(k)'[o] = View(1)[o] /\ View(2)[o] = View(1)[o]
  BY <1>3, <1>5, <1>9, ViewAt, ViewAtNext
<1>11. \A k \in 0..2 : View(k)' = IF k = 0 THEN View(1) ELSE View(k)
  <2>1. \A k \in 0..2 : View(k)' \in Content /\ View(k) \in Content
    BY <1>1, <1>7, ViewType, ViewTypeNext
  <2>2. \A k \in 0..2 : View(k)' = View(1)
    BY <2>1, <1>10 DEF Content
  <2>3. View(2) = View(1)
    BY <2>1, <1>10 DEF Content
  <2> QED
    BY <2>2, <2>3
<1>12. \A k \in 0..2 : Best(k)' = IF k = 0 THEN Best(1) ELSE Best(k)
  BY <1>2, <1>3, <1>5 DEF Best, TipBest, ScratchBest
<1> QED
  BY Zenon, <1>1, <1>2, <1>7, <1>8, <1>11, <1>12 DEF Inv, NeverThrows

----------------------------------------------------------------------------
(* The scratch view comes and goes; best blocks. *)

LEMMA CloseStep ==
    ASSUME Inv, CloseScratch
    PROVE  /\ Inv'
           /\ \A k \in 0..2 : View(k)' = IF k = 2 THEN View(1) ELSE View(k)
           /\ \A k \in 0..2 : Best(k)' = IF k = 2 THEN Best(1) ELSE Best(k)
<1>1. TypeOK /\ FlagsAreTrue /\ threw = "no"
  BY Zenon DEF Inv, NeverThrows
<1>2. /\ open' = "no"
      /\ cached' = [cached EXCEPT ![2] = {}]
      /\ coin' = [coin EXCEPT ![2] = [o \in Outpoint |-> Spent]]
      /\ flags' = [flags EXCEPT ![2] = [o \in Outpoint |-> {}]]
      /\ hashBlock' = [hashBlock EXCEPT ![2] = Null]
      /\ UNCHANGED <<db, dbBest, threw>>
  BY Zenon DEF CloseScratch
<1>3. /\ cached'[1] = cached[1] /\ cached'[2] = {}
      /\ \A o \in Outpoint : coin'[2][o] = Spent /\ flags'[2][o] = {}
      /\ coin'[1] = coin[1] /\ flags'[1] = flags[1]
      /\ hashBlock'[1] = hashBlock[1] /\ hashBlock'[2] = Null
  BY <1>1, <1>2 DEF TypeOK, Level
<1>4. /\ cached' \in [Level -> SUBSET Outpoint] /\ coin' \in [Level -> Content]
      /\ flags' \in [Level -> [Outpoint -> SUBSET Flag]]
      /\ hashBlock' \in [Level -> Block \cup {Null}]
  BY SMTT(30), <1>1, <1>2 DEF TypeOK, Content, Level
<1>5. TypeOK'
  <2>1. \A k \in Level : \A p \in Outpoint \ cached'[k] : coin'[k][p] = Spent /\ flags'[k][p] = {}
    BY <1>1, <1>3 DEF TypeOK, Level
  <2> QED
    BY SMTT(30), <1>1, <1>2, <1>3, <1>4, <2>1 DEF TypeOK
<1>6. View(0)' = View(0) /\ View(1)' = View(1)
  BY <1>2, <1>3 DEF View, TipView
<1>7. View(2)' = View(1)
  <2>1. \A o \in Outpoint : View(2)'[o] = View(1)[o]
    BY Zenon, <1>3, <1>6, ViewAtNext
  <2>2. View(2)' \in Content /\ View(1) \in Content
    BY Zenon, <1>1, <1>5, ViewType, ViewTypeNext
  <2> QED
    BY <2>1, <2>2 DEF Content
<1>8. FlagsAreTrue'
  <2>1. ASSUME NEW l \in Level, NEW o \in cached'[l] PROVE EntryTrue(l, o)'
    <3>1. l = 1 /\ o \in cached[1] /\ 1 - 1 = 0
      BY SMTT(30), <2>1, <1>3 DEF Level
    <3>2. EntryTrue(1, o)
      BY Zenon, <3>1, <1>1 DEF FlagsAreTrue, EntryTrue
    <3> QED
      BY <3>1, <3>2, <1>3, <1>6 DEF EntryTrue
  <2> QED
    BY SMTT(30), <2>1 DEF FlagsAreTrue, EntryTrue
<1>9. \A k \in 0..2 : Best(k)' = IF k = 2 THEN Best(1) ELSE Best(k)
  BY <1>2, <1>3 DEF Best, TipBest, ScratchBest
<1> QED
  BY <1>1, <1>2, <1>5, <1>6, <1>7, <1>8, <1>9 DEF Inv, NeverThrows

\* Steps that touch neither entries nor the database.
LEMMA EntriesSame ==
    ASSUME Inv, UNCHANGED <<db, dbBest, cached, coin, flags, threw>>,
           hashBlock' \in [Level -> Block \cup {Null}],
           open' \in {"yes", "no"},
           open' = "no" => open = "no" /\ hashBlock'[2] = Null
    PROVE  Inv' /\ \A k \in 0..2 : View(k)' = View(k)
<1>1. \A k \in 0..2 : View(k)' = View(k)
  BY Zenon DEF View, TipView, ScratchView
<1>2. TypeOK'
  BY SMTT(30) DEF Inv, TypeOK
<1>3. FlagsAreTrue'
  <2>1. \A l \in Level : View(l - 1)' = View(l - 1)
    BY <1>1 DEF Level
  <2> QED
    BY <2>1 DEF Inv, FlagsAreTrue
<1> QED
  BY Zenon, <1>1, <1>2, <1>3 DEF Inv, NeverThrows

LEMMA BestType ==
    ASSUME TypeOK PROVE \A k \in 0..2 : Best(k) \in Block \cup {Null}
BY DEF TypeOK, Best, TipBest, ScratchBest, Level

LEMMA GetBestStep ==
    ASSUME Inv, NEW l \in 1..Top, GetBestBlock(l)
    PROVE  /\ Inv' /\ \A k \in 0..2 : View(k)' = View(k)
           /\ \A k \in 0..2 : Best(k)' = Best(k)
           /\ open' = open
<1>1. l \in Level /\ (open = "no" => l = 1) /\ TypeOK
  BY DEF Top, Level, Inv, TypeOK
<1>2. /\ hashBlock' = [k \in Level |->
            IF k <= l /\ \A j \in k..l : hashBlock[j] = Null THEN Best(k) ELSE hashBlock[k]]
      /\ UNCHANGED <<db, dbBest, cached, coin, flags, open, threw>>
  BY Zenon DEF GetBestBlock
<1>3. hashBlock' \in [Level -> Block \cup {Null}]
  BY <1>1, <1>2, BestType DEF TypeOK, Level
<1>4. /\ hashBlock'[1] = IF hashBlock[1] = Null /\ (l = 2 => hashBlock[2] = Null) THEN Best(1) ELSE hashBlock[1]
      /\ hashBlock'[2] = IF l = 2 /\ hashBlock[2] = Null THEN Best(2) ELSE hashBlock[2]
  BY <1>1, <1>2 DEF Level
<1>5. \A k \in 0..2 : Best(k)' = Best(k)
  BY <1>1, <1>2, <1>4 DEF Best, TipBest, ScratchBest, Level
<1>6. open' = "no" => open = "no" /\ hashBlock'[2] = Null
  BY <1>1, <1>2, <1>4 DEF TypeOK
<1> QED
  BY SMTT(30), <1>1, <1>2, <1>3, <1>5, <1>6, EntriesSame DEF TypeOK

LEMMA SetBestStep ==
    ASSUME Inv, NEW b \in Block, SetBestBlock(Top, b)
    PROVE  /\ Inv' /\ \A k \in 0..2 : View(k)' = View(k)
           /\ \A k \in 0..2 : Best(k)' = IF k < Top THEN Best(k) ELSE b
           /\ open' = open
<1>1. TypeOK /\ Top \in Level /\ (open = "no" => Top = 1) /\ (open = "yes" => Top = 2) /\ b # Null
  BY NullAssumption DEF Top, Level, Inv
<1>2. /\ hashBlock' = [hashBlock EXCEPT ![Top] = b]
      /\ UNCHANGED <<db, dbBest, cached, coin, flags, open, threw>>
  BY Zenon DEF SetBestBlock
<1>3. hashBlock' \in [Level -> Block \cup {Null}]
  BY Zenon, <1>1, <1>2 DEF TypeOK
<1>4. \A k \in 0..2 : Best(k)' = IF k < Top THEN Best(k) ELSE b
  BY <1>1, <1>2 DEF Best, TipBest, ScratchBest, Level, TypeOK
<1>5. open' = "no" => open = "no" /\ hashBlock'[2] = Null
  BY <1>1, <1>2 DEF TypeOK, Level
<1> QED
  BY Zenon, <1>1, <1>2, <1>3, <1>4, <1>5, EntriesSame DEF TypeOK

LEMMA OpenStep ==
    ASSUME Inv, OpenScratch
    PROVE  /\ Inv' /\ \A k \in 0..2 : View(k)' = View(k)
           /\ \A k \in 0..2 : Best(k)' = Best(k)
<1>1. Inv' /\ \A k \in 0..2 : View(k)' = View(k)
  BY Zenon, EntriesSame DEF OpenScratch, Inv, TypeOK
<1>2. \A k \in 0..2 : Best(k)' = Best(k)
  BY Zenon DEF OpenScratch, Best, TipBest, ScratchBest
<1> QED
  BY SMTT(30), <1>1, <1>2

\* Steps that leave hashBlock, dbBest and open leave the best blocks.
LEMMA BestSame ==
    ASSUME UNCHANGED <<hashBlock, dbBest>>
    PROVE  \A k \in 0..2 : Best(k)' = Best(k)
BY DEF Best, TipBest, ScratchBest

----------------------------------------------------------------------------
(* Every step, and the theorems. *)

\* What a step may do to what the levels show.
SameShown == /\ \A k \in 0..2 : View(k)' = View(k) /\ Best(k)' = Best(k)
             /\ open' = open

LEMMA SameIsStutter == ASSUME SameShown PROVE UNCHANGED Views!vars
<1>1. [k \in 0..2 |-> View(k)]' = [k \in 0..2 |-> View(k)]
  BY Zenon DEF SameShown
<1>2. [k \in 0..2 |-> Best(k)]' = [k \in 0..2 |-> Best(k)]
  BY Zenon DEF SameShown
<1> QED
  BY Zenon, <1>1, <1>2 DEF SameShown, Views!vars

LEMMA PutIsPut ==
    ASSUME NEW o \in Outpoint, NEW c \in Coin \cup {Spent}, UNCHANGED open,
           \A k \in 0..2 : View(k)' = IF k < Top THEN View(k) ELSE [View(k) EXCEPT ![o] = c],
           \A k \in 0..2 : Best(k)' = Best(k)
    PROVE  Views!Next
<1>1. [k \in 0..2 |-> Best(k)]' = [k \in 0..2 |-> Best(k)]
  BY Zenon
<1>2. [k \in 0..2 |-> View(k)]' =
        [k \in 0..2 |-> IF k < Top THEN [j \in 0..2 |-> View(j)][k]
                        ELSE [[j \in 0..2 |-> View(j)][k] EXCEPT ![o] = c]]
  BY Zenon
<1>3. Views!Put(o, c)
  BY Zenon, <1>1, <1>2 DEF Views!Put, Views!Top, Top
<1> QED
  BY Zenon, <1>3 DEF Views!Next

LEMMA StepCorrect ==
    ASSUME Inv, Next
    PROVE  Inv' /\ (Views!Next \/ UNCHANGED Views!vars)
<1>1. ASSUME NEW l \in 1..Top, NEW o \in Outpoint, FetchCoin(l, o)
      PROVE  Inv' /\ (Views!Next \/ UNCHANGED Views!vars)
  BY Zenon, <1>1, FetchStep, BestSame, SameIsStutter DEF FetchCoin, SameShown
<1>2. ASSUME NEW l \in 1..Top, GetBestBlock(l)
      PROVE  Inv' /\ (Views!Next \/ UNCHANGED Views!vars)
  BY Zenon, <1>2, GetBestStep, SameIsStutter DEF SameShown
<1>3. ASSUME NEW o \in Outpoint, NEW c \in Coin, AddNewCoin(Top, o, c)
      PROVE  Inv' /\ (Views!Next \/ UNCHANGED Views!vars)
  <2>1. PICK ow \in BOOLEAN : (ow \/ View(Top)[o] = Spent) /\ AddCoin(Top, o, c, ow)
    BY Zenon, <1>3 DEF AddNewCoin
  <2>2. UNCHANGED <<hashBlock, dbBest, open>>
    BY Zenon, <2>1 DEF AddCoin
  <2> QED
    BY <2>1, <2>2, AddStep, BestSame, PutIsPut
<1>4. ASSUME NEW o \in Outpoint, NEW c \in Coin, AddCheckedCoin(Top, o, c)
      PROVE  Inv' /\ (Views!Next \/ UNCHANGED Views!vars)
  <2>1. UNCHANGED <<hashBlock, dbBest, open>>
    BY <1>4, Zenon DEF AddCheckedCoin, AddCoin
  <2> QED
    BY Zenon, <1>4, <2>1, AddCheckedStep, BestSame, PutIsPut
<1>5. ASSUME NEW o \in Outpoint, SpendCoin(Top, o)
      PROVE  Inv' /\ (Views!Next \/ UNCHANGED Views!vars)
  <2>1. UNCHANGED <<hashBlock, dbBest, open>>
    BY Zenon, <1>5 DEF SpendCoin
  <2> QED
    BY Zenon, <1>5, <2>1, SpendStep, BestSame, PutIsPut
<1>6. ASSUME NEW b \in Block, SetBestBlock(Top, b)
      PROVE  Inv' /\ (Views!Next \/ UNCHANGED Views!vars)
  <2>1. /\ Inv' /\ (\A k \in 0..2 : View(k)' = View(k)) /\ open' = open
        /\ \A k \in 0..2 : Best(k)' = IF k < Top THEN Best(k) ELSE b
    BY Zenon, <1>6, SetBestStep
  <2>2. [k \in 0..2 |-> View(k)]' = [k \in 0..2 |-> View(k)]
    BY Zenon, <2>1
  <2>3. [k \in 0..2 |-> Best(k)]' =
          [k \in 0..2 |-> IF k < Top THEN [j \in 0..2 |-> Best(j)][k] ELSE b]
    BY Zenon, <2>1
  <2>4. Views!Name(b)
    BY Zenon, <2>1, <2>2, <2>3 DEF Views!Name, Views!Top, Top
  <2> QED
    BY Zenon, <2>1, <2>4 DEF Views!Next
<1>7. ASSUME NEW o \in Outpoint, Uncache(o)
      PROVE  Inv' /\ (Views!Next \/ UNCHANGED Views!vars)
  BY <1>7, UncacheStep, BestSame, SameIsStutter, Zenon DEF Uncache, SameShown
<1>8. ASSUME FlushScratch
      PROVE  Inv' /\ (Views!Next \/ UNCHANGED Views!vars)
  <2>1. /\ Inv' /\ open = "yes" /\ open' = open
        /\ \A k \in 0..2 : View(k)' = IF k = 1 THEN View(2) ELSE View(k)
        /\ \A k \in 0..2 : Best(k)' = IF k = 1 THEN Best(2) ELSE Best(k)
    BY Zenon, <1>8, FlushScratchStep
  <2>2. [k \in 0..2 |-> View(k)]' = [[k \in 0..2 |-> View(k)] EXCEPT ![1] = View(2)]
    BY <2>1, Zenon
  <2>3. [k \in 0..2 |-> Best(k)]' = [[k \in 0..2 |-> Best(k)] EXCEPT ![1] = Best(2)]
    BY <2>1, Zenon
  <2>4. Views!Flush
    BY <2>1, <2>2, <2>3 DEF Views!Flush, Views!Top
  <2> QED
    BY Zenon, <2>1, <2>4 DEF Views!Next
<1>9. ASSUME FlushTip
      PROVE  Inv' /\ (Views!Next \/ UNCHANGED Views!vars)
  <2>1. /\ Inv' /\ open = "no" /\ open' = open
        /\ \A k \in 0..2 : View(k)' = IF k = 0 THEN View(1) ELSE View(k)
        /\ \A k \in 0..2 : Best(k)' = IF k = 0 THEN Best(1) ELSE Best(k)
    BY Zenon, <1>9, FlushTipStep
  <2>2. [k \in 0..2 |-> View(k)]' = [[k \in 0..2 |-> View(k)] EXCEPT ![0] = View(1)]
    BY <2>1, Zenon
  <2>3. [k \in 0..2 |-> Best(k)]' = [[k \in 0..2 |-> Best(k)] EXCEPT ![0] = Best(1)]
    BY <2>1, Zenon
  <2>4. Views!Flush
    BY <2>1, <2>2, <2>3 DEF Views!Flush, Views!Top
  <2> QED
    BY Zenon, <2>1, <2>4 DEF Views!Next
<1>10. ASSUME OpenScratch
       PROVE  Inv' /\ (Views!Next \/ UNCHANGED Views!vars)
  <2>1. /\ Inv' /\ open = "no" /\ open' = "yes"
        /\ \A k \in 0..2 : View(k)' = View(k) /\ Best(k)' = Best(k)
    BY Zenon, <1>10, OpenStep DEF OpenScratch
  <2>2. /\ [k \in 0..2 |-> View(k)]' = [k \in 0..2 |-> View(k)]
        /\ [k \in 0..2 |-> Best(k)]' = [k \in 0..2 |-> Best(k)]
    BY Zenon, <2>1
  <2>3. Views!Open
    BY Zenon, <2>1, <2>2 DEF Views!Open
  <2> QED
    BY Zenon, <2>1, <2>3 DEF Views!Next
<1>11. ASSUME CloseScratch
       PROVE  Inv' /\ (Views!Next \/ UNCHANGED Views!vars)
  <2>1. /\ Inv' /\ open = "yes" /\ open' = "no"
        /\ \A k \in 0..2 : View(k)' = IF k = 2 THEN View(1) ELSE View(k)
        /\ \A k \in 0..2 : Best(k)' = IF k = 2 THEN Best(1) ELSE Best(k)
    BY Zenon, <1>11, CloseStep DEF CloseScratch
  <2>2. [k \in 0..2 |-> View(k)]' = [[k \in 0..2 |-> View(k)] EXCEPT ![2] = View(1)]
    BY <2>1, Zenon
  <2>3. [k \in 0..2 |-> Best(k)]' = [[k \in 0..2 |-> Best(k)] EXCEPT ![2] = Best(1)]
    BY <2>1, Zenon
  <2>4. Views!Discard
    BY <2>1, <2>2, <2>3 DEF Views!Discard
  <2> QED
    BY Zenon, <2>1, <2>4 DEF Views!Next
<1> QED
  BY Zenon, <1>1, <1>2, <1>3, <1>4, <1>5, <1>6, <1>7, <1>8, <1>9, <1>10, <1>11 DEF Next

LEMMA StutterCorrect ==
    ASSUME Inv, UNCHANGED vars PROVE Inv' /\ UNCHANGED Views!vars
<1>1. Inv' /\ \A k \in 0..2 : View(k)' = View(k)
  BY Zenon, EntriesSame DEF vars, Inv, TypeOK
<1>2. SameShown
  BY Zenon, <1>1, BestSame DEF vars, SameShown
<1> QED
  BY SMTT(30), <1>1, <1>2, SameIsStutter

LEMMA InitCorrect ==
    ASSUME Init PROVE Inv /\ Views!Init
<1>1. TypeOK
  BY SMTT(30) DEF Init, TypeOK, Content, Level
<1>2. FlagsAreTrue /\ NeverThrows
  BY Zenon DEF Init, FlagsAreTrue, NeverThrows
<1>3. View(0) = db /\ View(1) = db /\ View(2) = db
  <2>1. \A o \in Outpoint : View(1)[o] = db[o] /\ View(2)[o] = db[o]
    BY ViewAt DEF Init, Level
  <2>2. View(0) = db /\ View(1) \in Content /\ View(2) \in Content /\ db \in Content
    BY <1>1, ViewType DEF View, TypeOK
  <2> QED
    BY <2>1, <2>2 DEF Content
<1>4. Best(0) = dbBest /\ Best(1) = dbBest /\ Best(2) = dbBest
  BY DEF Init, Best, TipBest, ScratchBest, Level
<1>5. [k \in 0..2 |-> View(k)] = [k \in 0..2 |-> db] /\ [k \in 0..2 |-> Best(k)] = [k \in 0..2 |-> dbBest]
  <2>1. \A k \in 0..2 : View(k) = db /\ Best(k) = dbBest
    BY <1>3, <1>4
  <2> QED
    BY Zenon, <2>1
<1>6. db \in [Outpoint -> Coin \cup {Spent}] /\ dbBest \in Block \cup {Null} /\ open = "no"
  BY Zenon DEF Init, Content
<1> QED
  BY SMTT(30), <1>1, <1>2, <1>5, <1>6 DEF Inv, Views!Init

LEMMA Inductive == Spec => []Inv
<1>1. Init => Inv
  BY Zenon, InitCorrect
<1>2. Inv /\ [Next]_vars => Inv'
  BY Zenon, StepCorrect, StutterCorrect
<1> QED
  BY <1>1, <1>2, PTL DEF Spec

\* Every cache keeps entries of its own outpoints with valid flags, and an
\* absent entry is a default constructed one (CCoinsMap, CCoinsCacheEntry).
THEOREM TypeCorrect == Spec => []TypeOK
<1>1. Inv => TypeOK
  BY Zenon DEF Inv
<1> QED
  BY <1>1, Inductive, PTL

\* The flags of every entry at both levels mean what coins.h says of them,
\* through any sequence of AddCoin, SpendCoin, Uncache and Flush.
THEOREM FlagsMeaning == Spec => []FlagsAreTrue
<1>1. Inv => FlagsAreTrue
  BY Zenon DEF Inv
<1> QED
  BY <1>1, Inductive, PTL

\* The two logic_error throws of AddCoin and BatchWrite are unreachable.
THEOREM NoLogicError == Spec => []NeverThrows
<1>1. Inv => NeverThrows
  BY Zenon DEF Inv
<1> QED
  BY <1>1, Inductive, PTL

\* CCoinsViewCache over CCoinsViewCache over the database implements the
\* stack of whole coin sets.
THEOREM ImplementsViews == Spec => ViewsSpec
<1>1. Init => Views!Init
  BY Zenon, InitCorrect
<1>2. Inv /\ [Next]_vars => [Views!Next]_(Views!vars)
  BY Zenon, StepCorrect, StutterCorrect
<1>3. Spec => Views!Init /\ [][Views!Next]_(Views!vars)
  BY <1>1, <1>2, Inductive, PTL DEF Spec
<1> QED
  BY Zenon, <1>3 DEF ViewsSpec, Views!Spec

\* A spent coin is spent and an added one is there afterwards, and a flush
\* carries all of it to the level below.
THEOREM EffectsSeen == Spec => ChangesTakeEffect
<1> DEFINE Effects ==
      threw' = "no" =>
      /\ \A o \in Outpoint : SpendCoin(Top, o) => View(Top)'[o] = Spent
      /\ \A o \in Outpoint, c \in Coin :
           AddNewCoin(Top, o, c) \/ AddCheckedCoin(Top, o, c) => View(Top)'[o] = c
      /\ FlushScratch => View(1)' = View(2)
      /\ FlushTip => View(0)' = View(1)
<1>1. ASSUME Inv PROVE Effects
  <2>0. Top \in 0..2 /\ \A k \in 0..2 : View(k) \in Content
    BY <1>1, ViewType DEF Top, Inv
  <2>1. ASSUME NEW o \in Outpoint, SpendCoin(Top, o) PROVE View(Top)'[o] = Spent
    <3>1. PICK l \in 0..2 : l = Top
      BY Zenon, <2>0
    <3>2. View(l)' = IF l < Top THEN View(l) ELSE [View(l) EXCEPT ![o] = Spent]
      BY SMTT(30), <2>1, <1>1, SpendStep
    <3>3. Top' = Top
      BY Zenon, <2>1 DEF SpendCoin, Top
    <3>4. View(l)'[o] = Spent
      BY <3>1, <3>2, <2>0 DEF Content
    <3> QED
      BY Zenon, <3>1, <3>3, <3>4
  <2>2. ASSUME NEW o \in Outpoint, NEW c \in Coin, AddNewCoin(Top, o, c) \/ AddCheckedCoin(Top, o, c)
        PROVE  View(Top)'[o] = c
    <3>1. PICK l \in 0..2 : l = Top
      BY Zenon, <2>0
    <3>2. CASE AddNewCoin(Top, o, c)
      <4>1. PICK ow \in BOOLEAN : (ow \/ View(Top)[o] = Spent) /\ AddCoin(Top, o, c, ow)
        BY Zenon, <3>2 DEF AddNewCoin
      <4>2. View(l)' = IF l < Top THEN View(l) ELSE [View(l) EXCEPT ![o] = c]
        BY SMTT(30), <4>1, <1>1, AddStep
      <4>3. Top' = Top
        BY Zenon, <4>1 DEF AddCoin, Top
      <4>4. View(l)'[o] = c
        BY <3>1, <4>2, <2>0 DEF Content
      <4> QED
        BY Zenon, <3>1, <4>3, <4>4
    <3>3. CASE AddCheckedCoin(Top, o, c)
      <4>1. Top' = Top
        BY Zenon, <3>3 DEF AddCheckedCoin, AddCoin, Top
      <4>2. View(l)' = IF l < Top THEN View(l) ELSE [View(l) EXCEPT ![o] = c]
        BY Zenon, <3>3, <1>1, AddCheckedStep
      <4>3. View(l)'[o] = c
        BY <3>1, <4>2, <2>0 DEF Content
      <4> QED
        BY SMTT(30), <3>1, <4>1, <4>3
    <3> QED
      BY Zenon, <2>2, <3>2, <3>3
  <2>3. FlushScratch => View(1)' = View(2)
    BY <1>1, FlushScratchStep
  <2>4. FlushTip => View(0)' = View(1)
    BY <1>1, FlushTipStep
  <2> QED
    BY Zenon, <2>1, <2>2, <2>3, <2>4
<1>2. Inv /\ [Next]_vars => [Effects]_vars
  BY Zenon, <1>1
<1> QED
  BY <1>2, Inductive, PTL DEF ChangesTakeEffect, Spec

----------------------------------------------------------------------------
(* Totals *)

\* The bytes of one element.
LEMMA OneTotal ==
    ASSUME NEW f, NEW x, f[x] \in Nat
    PROVE  IsFiniteSet({x} \X (1 .. f[x])) /\ Cardinality({x} \X (1 .. f[x])) = f[x]
<1>1. IsFiniteSet({x}) /\ Cardinality({x}) = 1
  BY Zenon, FS_Singleton
<1>2. IsFiniteSet(1 .. f[x]) /\ Cardinality(1 .. f[x]) = f[x]
  BY FS_Interval
<1>3. /\ IsFiniteSet({x} \X (1 .. f[x]))
      /\ Cardinality({x} \X (1 .. f[x])) = Cardinality({x}) * Cardinality(1 .. f[x])
  BY Zenon, <1>1, <1>2, FS_Product
<1> QED
  BY ONLY <1>1, <1>2, <1>3, f[x] \in Nat

LEMMA BytesFinite ==
    ASSUME NEW S, IsFiniteSet(S), NEW f, \A x \in S : f[x] \in Nat
    PROVE  IsFiniteSet(Bytes(f, S))
<1> DEFINE rows == {{x} \X (1 .. f[x]) : x \in S}
           row  == [x \in S |-> {x} \X (1 .. f[x])]
<1>1. row \in Surjection(S, rows)
  BY Zenon DEF Surjection
<1>2. IsFiniteSet(rows)
  BY Zenon, <1>1, FS_Surjection
<1>3. \A R \in rows : IsFiniteSet(R)
  BY Zenon, OneTotal
<1> HIDE DEF rows
<1>4. IsFiniteSet(UNION rows)
  BY Zenon, <1>2, <1>3, FS_UNION
<1> QED
  BY Zenon, <1>4 DEF Bytes, rows

LEMMA TotalType ==
    ASSUME NEW S, IsFiniteSet(S), NEW f, \A x \in S : f[x] \in Nat
    PROVE  Total(f, S) \in Nat
  BY Zenon, BytesFinite, FS_CardinalityType DEF Total

LEMMA TotalSplit ==
    ASSUME NEW S, IsFiniteSet(S), NEW T, IsFiniteSet(T), S \cap T = {},
           NEW f, \A x \in S \cup T : f[x] \in Nat
    PROVE  /\ Total(f, S) \in Nat
           /\ Total(f, T) \in Nat
           /\ Total(f, S \cup T) = Total(f, S) + Total(f, T)
<1>1. IsFiniteSet(Bytes(f, S)) /\ IsFiniteSet(Bytes(f, T))
  BY Zenon, BytesFinite
<1>2. Bytes(f, S \cup T) = Bytes(f, S) \cup Bytes(f, T)
  BY Zenon DEF Bytes
<1>3. Bytes(f, S) \cap Bytes(f, T) = {}
  <2>1. \A U : \A p \in Bytes(f, U) : p[1] \in U
    BY DEF Bytes
  <2> QED
    BY Zenon, <2>1
<1>4. /\ Cardinality(Bytes(f, S)) \in Nat
      /\ Cardinality(Bytes(f, T)) \in Nat
      /\ Cardinality({}) = 0
  BY Zenon, <1>1, FS_CardinalityType, FS_EmptySet
<1>5. Cardinality(Bytes(f, S) \cup Bytes(f, T))
        = Cardinality(Bytes(f, S)) + Cardinality(Bytes(f, T)) - Cardinality(Bytes(f, S) \cap Bytes(f, T))
  BY Zenon, <1>1, FS_Union
<1>6. Total(f, S \cup T) = Total(f, S) + Total(f, T) - 0
  BY Zenon, <1>2, <1>3, <1>4, <1>5 DEF Total
<1>7. Total(f, S) \in Nat /\ Total(f, T) \in Nat
  BY Zenon, <1>4 DEF Total
<1> QED
  BY ONLY <1>6, <1>7

LEMMA TotalSame ==
    ASSUME NEW S, NEW f, NEW g, \A x \in S : f[x] = g[x]
    PROVE  Total(f, S) = Total(g, S)
  BY Zenon DEF Total, Bytes

LEMMA TotalZero ==
    ASSUME NEW S, NEW f, \A x \in S : f[x] = 0
    PROVE  Total(f, S) = 0
<1>1. \A x \in S : 1 .. f[x] = {}
  OBVIOUS
<1>2. Bytes(f, S) = {}
  BY Zenon, <1>1 DEF Bytes
<1> QED
  BY Zenon, <1>2, FS_EmptySet DEF Total

\* What one element more, or less, makes.
LEMMA TotalWithout ==
    ASSUME NEW S, IsFiniteSet(S), NEW x \in S, NEW f, \A y \in S : f[y] \in Nat
    PROVE  /\ Total(f, S \ {x}) \in Nat
           /\ Total(f, S) = Total(f, S \ {x}) + f[x]
<1>1. /\ IsFiniteSet(S \ {x}) /\ IsFiniteSet({x})
      /\ (S \ {x}) \cap {x} = {} /\ (S \ {x}) \cup {x} = S
  <2>1. IsFiniteSet(S \ {x}) /\ IsFiniteSet({x})
    BY Zenon, FS_RemoveElement, FS_Singleton
  <2> QED
    BY <2>1
<1>2. Bytes(f, {x}) = {x} \X (1 .. f[x])
  BY Zenon DEF Bytes
<1>3. Total(f, {x}) = f[x]
  BY Zenon, <1>2, OneTotal DEF Total
<1>4. /\ Total(f, S \ {x}) \in Nat
      /\ Total(f, (S \ {x}) \cup {x}) = Total(f, S \ {x}) + Total(f, {x})
  BY Zenon, <1>1, TotalSplit
<1> QED
  BY Zenon, <1>1, <1>3, <1>4

----------------------------------------------------------------------------
(* DynamicMemoryUsage.  A coin without an entry is spent and takes nothing, *)
(* so the usage of a cache is that of all outpoints.                        *)

Charged == cachedCoinsUsage = [l \in Level |-> Total(UsageOf(l), Outpoint)]

LEMMA UsageType ==
    ASSUME TypeOK, NEW l \in Level, NEW o \in Outpoint
    PROVE  /\ UsageOf(l)[o] = Usage[coin[l][o]]
           /\ UsageOf(l)[o] \in Nat
           /\ o \notin cached[l] => UsageOf(l)[o] = 0
<1>1. coin[l][o] \in Coin \cup {Spent} /\ (o \notin cached[l] => coin[l][o] = Spent)
  BY DEF TypeOK, Content
<1>2. UsageOf(l)[o] = Usage[coin[l][o]]
  BY Zenon DEF UsageOf
<1> QED
  BY Zenon, <1>1, <1>2, UsageAssumption

LEMMA UsageTypeNext ==
    ASSUME TypeOK', NEW l \in Level, NEW o \in Outpoint
    PROVE  /\ UsageOf(l)'[o] = Usage[coin'[l][o]]
           /\ UsageOf(l)'[o] \in Nat
<1>1. coin'[l][o] \in Coin \cup {Spent}
  BY DEF TypeOK, Content
<1>2. UsageOf(l)'[o] = Usage[coin'[l][o]]
  BY Zenon DEF UsageOf
<1> QED
  BY Zenon, <1>1, <1>2, UsageAssumption

LEMMA ChargedIsExact ==
    ASSUME TypeOK, Charged PROVE UsageExact
<1> SUFFICES ASSUME NEW l \in Level PROVE cachedCoinsUsage[l] = Total(UsageOf(l), cached[l])
  BY Zenon DEF UsageExact
<1> DEFINE f == UsageOf(l)
           C == cached[l]
<1>1. (\A o \in Outpoint : f[o] \in Nat) /\ (\A o \in Outpoint \ C : f[o] = 0)
  BY Zenon, UsageType
<1>2. C \in SUBSET Outpoint
  BY Zenon DEF TypeOK
<1>3. cachedCoinsUsage[l] = Total(f, Outpoint)
  BY Zenon DEF Charged
<1> HIDE DEF f, C
<1>4. IsFiniteSet(C) /\ IsFiniteSet(Outpoint \ C)
  BY Zenon, <1>2, OutpointAssumption, FS_Subset, FS_Difference
<1>5. C \cap (Outpoint \ C) = {} /\ C \cup (Outpoint \ C) = Outpoint
  BY <1>2
<1>6. \A o \in C \cup (Outpoint \ C) : f[o] \in Nat
  BY Zenon, <1>1, <1>5
<1>7. Total(f, C) \in Nat /\ Total(f, C \cup (Outpoint \ C)) = Total(f, C) + Total(f, Outpoint \ C)
  BY Zenon, <1>4, <1>5, <1>6, TotalSplit
<1>8. Total(f, Outpoint \ C) = 0
  BY Zenon, <1>1, TotalZero
<1>9. Total(f, Outpoint) = Total(f, C) + 0 /\ Total(f, C) \in Nat
  BY Zenon, <1>5, <1>7, <1>8
<1>10. Total(f, Outpoint) = Total(f, C)
  BY ONLY <1>9
<1> QED
  BY Zenon, <1>3, <1>10 DEF f, C

LEMMA ChangedTotal ==
    ASSUME NEW f, NEW g, NEW o \in Outpoint,
           \A p \in Outpoint : f[p] \in Nat /\ g[p] \in Nat,
           \A p \in Outpoint \ {o} : g[p] = f[p]
    PROVE  Total(g, Outpoint) = Total(f, Outpoint) - f[o] + g[o]
<1>1. /\ Total(f, Outpoint \ {o}) \in Nat
      /\ Total(f, Outpoint) = Total(f, Outpoint \ {o}) + f[o]
      /\ Total(g, Outpoint) = Total(g, Outpoint \ {o}) + g[o]
  BY Zenon, OutpointAssumption, TotalWithout
<1>2. Total(g, Outpoint \ {o}) = Total(f, Outpoint \ {o})
  BY Zenon, TotalSame
<1>3. f[o] \in Nat /\ g[o] \in Nat
  BY Zenon
<1> QED
  BY ONLY <1>1, <1>2, <1>3

\* A step on one outpoint that charges the difference at every level.
LEMMA OneCharged ==
    ASSUME TypeOK, TypeOK', Charged, NEW o \in Outpoint,
           \A k \in Level : \A p \in Outpoint \ {o} : coin'[k][p] = coin[k][p],
           cachedCoinsUsage' = [k \in Level |->
             cachedCoinsUsage[k] - Usage[coin[k][o]] + Usage[coin'[k][o]]]
    PROVE  Charged'
<1>1. ASSUME NEW k \in Level
      PROVE  cachedCoinsUsage[k] - Usage[coin[k][o]] + Usage[coin'[k][o]] = Total(UsageOf(k)', Outpoint)
  <2> DEFINE f == UsageOf(k)
             g == UsageOf(k)'
  <2>1. \A p \in Outpoint : f[p] \in Nat /\ g[p] \in Nat
    BY Zenon, UsageType, UsageTypeNext
  <2>2. ASSUME NEW p \in Outpoint \ {o} PROVE g[p] = f[p]
    <3>1. p \in Outpoint /\ coin'[k][p] = coin[k][p]
      BY Zenon
    <3>2. f[p] = Usage[coin[k][p]]
      BY Zenon, <3>1, UsageType
    <3>3. g[p] = Usage[coin'[k][p]]
      BY Zenon, <3>1, UsageTypeNext
    <3> QED
      BY Zenon, <3>1, <3>2, <3>3
  <2>3. f[o] = Usage[coin[k][o]] /\ g[o] = Usage[coin'[k][o]]
    BY Zenon, UsageType, UsageTypeNext
  <2>4. cachedCoinsUsage[k] = Total(f, Outpoint)
    BY Zenon DEF Charged
  <2> HIDE DEF f, g
  <2>5. Total(g, Outpoint) = Total(f, Outpoint) - f[o] + g[o]
    BY ZenonT(40), <2>1, <2>2, ChangedTotal
  <2>6. cachedCoinsUsage[k] - Usage[coin[k][o]] + Usage[coin'[k][o]] = Total(g, Outpoint)
    BY Zenon, <2>3, <2>4, <2>5
  <2> QED
    BY Zenon, <2>6 DEF g
<1> QED
  BY Zenon, <1>1 DEF Charged

LEMMA ChargedType ==
    ASSUME TypeOK, Charged, NEW k \in Level, NEW o \in Outpoint
    PROVE  cachedCoinsUsage[k] \in Nat /\ Usage[coin[k][o]] \in Nat
<1>1. cachedCoinsUsage[k] = Total(UsageOf(k), Outpoint)
  BY Zenon DEF Charged
<1>2. \A p \in Outpoint : UsageOf(k)[p] \in Nat
  BY Zenon, UsageType
<1>3. Total(UsageOf(k), Outpoint) \in Nat
  BY Zenon, <1>2, OutpointAssumption, TotalType
<1>4. UsageOf(k)[o] = Usage[coin[k][o]]
  BY Zenon, UsageType
<1> QED
  BY Zenon, <1>1, <1>2, <1>3, <1>4

\* FetchCoin adds the usage of the coins that it brings in.
LEMMA FetchCharges ==
    ASSUME TypeOK, Charged, NEW l \in Level, NEW o \in Outpoint, NEW k \in Level
    PROVE  /\ UsageAfterFetch(l, o)[k]
                = cachedCoinsUsage[k] - Usage[coin[k][o]] + Usage[CoinAfterFetch(l, o)[k][o]]
           /\ Usage[CoinAfterFetch(l, o)[k][o]] \in Nat
<1> DEFINE F == Fetching(l, o)
           v == View(k - 1)[o]
           was == Usage[coin[k][o]]
           now == Usage[CoinAfterFetch(l, o)[k][o]]
<1>1. cachedCoinsUsage[k] \in Nat /\ was \in Nat
  BY Zenon, ChargedType
<1>2. now \in Nat
  <2>1. CoinAfterFetch(l, o) \in [Level -> Content]
    BY Zenon, FetchAt
  <2>2. CoinAfterFetch(l, o)[k][o] \in Coin \cup {Spent}
    BY <2>1 DEF Content
  <2> QED
    BY Zenon, <2>2, UsageAssumption
<1>3. UsageAfterFetch(l, o)[k] = cachedCoinsUsage[k] + (IF k \in F THEN Usage[v] ELSE 0)
  BY Zenon DEF UsageAfterFetch
<1>4. CASE k \in F
  <2>1. o \notin cached[k]
    BY <1>4 DEF Fetching, Level
  <2>2. was = 0
    BY Zenon, <2>1, UsageType
  <2>3. CoinAfterFetch(l, o)[k][o] = v
    BY Zenon, <1>4 DEF CoinAfterFetch, TypeOK, Content
  <2>4. Usage[v] = now
    BY Zenon, <2>3
  <2> HIDE DEF v, now, was, F
  <2>5. UsageAfterFetch(l, o)[k] = cachedCoinsUsage[k] + now
    BY Zenon, <1>3, <1>4, <2>4
  <2>6. UsageAfterFetch(l, o)[k] = cachedCoinsUsage[k] - was + now
    BY ONLY <1>1, <1>2, <2>2, <2>5
  <2> QED
    BY Zenon, <1>2, <2>6 DEF was, now
<1>5. CASE k \notin F
  <2>1. was = now
    BY Zenon, <1>5 DEF CoinAfterFetch
  <2> HIDE DEF v, now, was, F
  <2>2. UsageAfterFetch(l, o)[k] = cachedCoinsUsage[k] + 0
    BY Zenon, <1>3, <1>5
  <2>3. UsageAfterFetch(l, o)[k] = cachedCoinsUsage[k] - was + now
    BY ONLY <1>1, <1>2, <2>1, <2>2
  <2> QED
    BY Zenon, <1>2, <2>3 DEF was, now
<1> QED
  BY Zenon, <1>4, <1>5

\* A coin that is unspent at level l is in the entry after FetchCoin.
LEMMA FetchedIsShown ==
    ASSUME TypeOK, NEW l \in Level, NEW o \in Outpoint, View(l)[o] # Spent
    PROVE  CoinAfterFetch(l, o)[l][o] = View(l)[o]
<1>1. o \in CachedAfterFetch(l, o)[l]
  BY Zenon, FetchAt
<1>2. View(l)[o] = IF o \in cached[l] THEN coin[l][o] ELSE View(l - 1)[o]
  BY ViewAt DEF Level
<1>3. o \in cached[l] => CoinAfterFetch(l, o)[l][o] = coin[l][o]
  BY Zenon, FetchAt
<1>4. o \notin cached[l] => CoinAfterFetch(l, o)[l][o] = View(l - 1)[o]
  BY SMTT(30), <1>1, FetchAt
<1> QED
  BY Zenon, <1>2, <1>3, <1>4

LEMMA FetchOthers ==
    ASSUME TypeOK, NEW l \in Level, NEW o \in Outpoint
    PROVE  /\ CoinAfterFetch(l, o) \in [Level -> Content]
           /\ \A k \in Level : \A p \in Outpoint \ {o} : CoinAfterFetch(l, o)[k][p] = coin[k][p]
BY SMTT(30), FetchAt

LEMMA FetchCharged ==
    ASSUME TypeOK, TypeOK', Charged, NEW l \in Level, NEW o \in Outpoint, FetchCoin(l, o)
    PROVE  Charged'
<1>1. coin' = CoinAfterFetch(l, o) /\ cachedCoinsUsage' = UsageAfterFetch(l, o)
  BY Zenon DEF FetchCoin
<1>2. \A k \in Level : \A p \in Outpoint \ {o} : coin'[k][p] = coin[k][p]
  <2>1. \A k \in Level : \A p \in Outpoint \ {o} : CoinAfterFetch(l, o)[k][p] = coin[k][p]
    BY Zenon, FetchOthers
  <2> QED
    BY ONLY <1>1, <2>1
<1>3. \A k \in Level : UsageAfterFetch(l, o)[k]
                         = cachedCoinsUsage[k] - Usage[coin[k][o]] + Usage[coin'[k][o]]
  BY Zenon, <1>1, FetchCharges
<1>4. UsageAfterFetch(l, o) = [k \in Level |-> UsageAfterFetch(l, o)[k]]
  BY Zenon DEF UsageAfterFetch
<1>5. cachedCoinsUsage' = [k \in Level |->
         cachedCoinsUsage[k] - Usage[coin[k][o]] + Usage[coin'[k][o]]]
  BY Zenon, <1>1, <1>3, <1>4
<1> QED
  BY Zenon, <1>2, <1>5, OneCharged

\* What is charged at level l when the coin of o becomes c there, after the
\* entries that FetchCoin made, if any, are in fetched and charged.
LEMMA PutCharged ==
    ASSUME TypeOK, TypeOK', Charged, NEW l \in Level, NEW o \in Outpoint,
           NEW c \in Coin \cup {Spent},
           NEW fetched \in [Level -> Content], NEW charged,
           \A k \in Level : \A p \in Outpoint \ {o} : fetched[k][p] = coin[k][p],
           charged = [k \in Level |-> cachedCoinsUsage[k] - Usage[coin[k][o]] + Usage[fetched[k][o]]],
           coin' = [fetched EXCEPT ![l][o] = c],
           cachedCoinsUsage' = [charged EXCEPT ![l] = charged[l] - Usage[fetched[l][o]] + Usage[c]]
    PROVE  Charged'
<1>1. /\ \A k \in Level : \A p \in Outpoint \ {o} : coin'[k][p] = fetched[k][p]
      /\ \A k \in Level \ {l} : coin'[k][o] = fetched[k][o]
      /\ coin'[l][o] = c
  BY DEF Content
<1>2. ASSUME NEW k \in Level, NEW p \in Outpoint \ {o} PROVE coin'[k][p] = coin[k][p]
  <2>1. coin'[k][p] = fetched[k][p]
    BY Zenon, <1>1
  <2>2. fetched[k][p] = coin[k][p]
    BY Zenon
  <2> QED
    BY Zenon, <2>1, <2>2
<1>3. ASSUME NEW k \in Level
      PROVE  cachedCoinsUsage'[k] = cachedCoinsUsage[k] - Usage[coin[k][o]] + Usage[coin'[k][o]]
  <2>1. CASE k # l
    BY Zenon, <1>1, <2>1
  <2>2. CASE k = l
    <3>1. cachedCoinsUsage'[l] = charged[l] - Usage[fetched[l][o]] + Usage[c]
      BY Zenon
    <3>2. charged[l] = cachedCoinsUsage[l] - Usage[coin[l][o]] + Usage[fetched[l][o]]
      BY Zenon
    <3>3. cachedCoinsUsage[l] \in Nat /\ Usage[coin[l][o]] \in Nat
      BY Zenon, ChargedType
    <3>4. fetched[l][o] \in Coin \cup {Spent}
      BY DEF Content
    <3>5. Usage[fetched[l][o]] \in Nat /\ Usage[c] \in Nat
      BY Zenon, <3>4, UsageAssumption
    <3>6. cachedCoinsUsage'[l] = cachedCoinsUsage[l] - Usage[coin[l][o]] + Usage[c]
      BY ONLY <3>1, <3>2, <3>3, <3>5
    <3> QED
      BY Zenon, <1>1, <2>2, <3>6
  <2> QED
    BY Zenon, <2>1, <2>2
<1>4. cachedCoinsUsage' = [k \in Level |-> cachedCoinsUsage'[k]]
  BY Zenon
<1>5. cachedCoinsUsage' = [k \in Level |->
         cachedCoinsUsage[k] - Usage[coin[k][o]] + Usage[coin'[k][o]]]
  BY Zenon, <1>3, <1>4
<1> QED
  BY Zenon, <1>2, <1>5, OneCharged

\* The same when nothing was fetched.
LEMMA PutHereCharged ==
    ASSUME TypeOK, TypeOK', Charged, NEW l \in Level, NEW o \in Outpoint,
           NEW c \in Coin \cup {Spent},
           coin' = [coin EXCEPT ![l][o] = c],
           cachedCoinsUsage' = [cachedCoinsUsage EXCEPT ![l] =
                                  cachedCoinsUsage[l] - Usage[coin[l][o]] + Usage[c]]
    PROVE  Charged'
<1>1. coin \in [Level -> Content]
  BY Zenon DEF TypeOK
<1>2. ASSUME NEW k \in Level
      PROVE  cachedCoinsUsage[k] = cachedCoinsUsage[k] - Usage[coin[k][o]] + Usage[coin[k][o]]
  <2>1. cachedCoinsUsage[k] \in Nat /\ Usage[coin[k][o]] \in Nat
    BY Zenon, ChargedType
  <2> QED
    BY ONLY <2>1
<1>3. cachedCoinsUsage = [k \in Level |-> cachedCoinsUsage[k]]
  BY Zenon DEF Charged
<1>4. cachedCoinsUsage = [k \in Level |->
         cachedCoinsUsage[k] - Usage[coin[k][o]] + Usage[coin[k][o]]]
  BY Zenon, <1>2, <1>3
<1> QED
  BY Zenon, <1>1, <1>4, PutCharged

LEMMA AddCharged ==
    ASSUME TypeOK, TypeOK', NeverThrows', Charged, NEW l \in Level, NEW o \in Outpoint, NEW c \in Coin,
           NEW ow \in BOOLEAN, AddCoin(l, o, c, ow)
    PROVE  Charged'
<1>1. threw' # "yes"
  BY Zenon DEF NeverThrows
<1>2. /\ coin' = [coin EXCEPT ![l][o] = c]
      /\ cachedCoinsUsage' = [cachedCoinsUsage EXCEPT ![l] =
                                cachedCoinsUsage[l] - Usage[coin[l][o]] + Usage[c]]
  BY Zenon, <1>1 DEF AddCoin
<1> QED
  BY Zenon, <1>2, PutHereCharged

LEMMA AddCheckedCharged ==
    ASSUME TypeOK, TypeOK', NeverThrows', Charged, NEW l \in Level, NEW o \in Outpoint, NEW c \in Coin,
           AddCheckedCoin(l, o, c)
    PROVE  Charged'
<1>1. CASE View(l)[o] = Spent
  BY Zenon, <1>1, AddCharged DEF AddCheckedCoin
<1>2. CASE View(l)[o] # Spent
  <2> DEFINE f == CoinAfterFetch(l, o)
             u == UsageAfterFetch(l, o)
  <2>1. /\ coin' = [f EXCEPT ![l][o] = c]
        /\ cachedCoinsUsage' = [u EXCEPT ![l] = u[l] - Usage[View(l)[o]] + Usage[c]]
    BY Zenon, <1>2 DEF AddCheckedCoin
  <2>2. f[l][o] = View(l)[o]
    BY Zenon, <1>2, FetchedIsShown
  <2>3. /\ f \in [Level -> Content]
        /\ \A k \in Level : \A p \in Outpoint \ {o} : f[k][p] = coin[k][p]
    BY Zenon, FetchOthers
  <2>4. u = [k \in Level |-> u[k]]
    BY Zenon DEF UsageAfterFetch
  <2>5. u = [k \in Level |-> cachedCoinsUsage[k] - Usage[coin[k][o]] + Usage[f[k][o]]]
    BY Zenon, <2>4, FetchCharges
  <2> HIDE DEF f, u
  <2> QED
    BY ZenonT(40), <2>1, <2>2, <2>3, <2>5, PutCharged
<1> QED
  BY Zenon, <1>1, <1>2

LEMMA SpendCharged ==
    ASSUME TypeOK, TypeOK', Charged, NEW l \in Level, NEW o \in Outpoint, SpendCoin(l, o)
    PROVE  Charged'
<1> DEFINE f == CoinAfterFetch(l, o)
           u == UsageAfterFetch(l, o)
<1>1. /\ coin' = [f EXCEPT ![l][o] = Spent]
      /\ cachedCoinsUsage' = [u EXCEPT ![l] = u[l] - Usage[f[l][o]]]
  BY Zenon DEF SpendCoin
<1>2. /\ f \in [Level -> Content]
      /\ \A k \in Level : \A p \in Outpoint \ {o} : f[k][p] = coin[k][p]
  BY Zenon, FetchOthers
<1>3. u = [k \in Level |-> u[k]]
  BY Zenon DEF UsageAfterFetch
<1>4. u = [k \in Level |-> cachedCoinsUsage[k] - Usage[coin[k][o]] + Usage[f[k][o]]]
  BY Zenon, <1>3, FetchCharges
<1>5. u[l] - Usage[f[l][o]] = u[l] - Usage[f[l][o]] + Usage[Spent]
  <2>1. u[l] = cachedCoinsUsage[l] - Usage[coin[l][o]] + Usage[f[l][o]] /\ Usage[f[l][o]] \in Nat
    BY Zenon, FetchCharges
  <2>2. cachedCoinsUsage[l] \in Nat /\ Usage[coin[l][o]] \in Nat /\ Usage[Spent] = 0
    BY Zenon, ChargedType, UsageAssumption
  <2> HIDE DEF f, u
  <2> QED
    BY ONLY <2>1, <2>2
<1> HIDE DEF f, u
<1>6. cachedCoinsUsage' = [u EXCEPT ![l] = u[l] - Usage[f[l][o]] + Usage[Spent]]
  BY Zenon, <1>1, <1>5
<1>7. coin' = [f EXCEPT ![l][o] = Spent] /\ Spent \in Coin \cup {Spent}
  BY Zenon, <1>1
<1> QED
  BY ZenonT(60), <1>2, <1>4, <1>6, <1>7, PutCharged

LEMMA UncacheCharged ==
    ASSUME TypeOK, TypeOK', Charged, NEW o \in Outpoint, Uncache(o)
    PROVE  Charged'
<1>1. /\ coin' = [coin EXCEPT ![1][o] = Spent]
      /\ cachedCoinsUsage' = [cachedCoinsUsage EXCEPT ![1] = cachedCoinsUsage[1] - Usage[coin[1][o]]]
  BY Zenon DEF Uncache
<1>2. 1 \in Level
  BY DEF Level
<1>3. cachedCoinsUsage[1] \in Nat /\ Usage[coin[1][o]] \in Nat /\ Usage[Spent] = 0
  BY Zenon, <1>2, ChargedType, UsageAssumption
<1> DEFINE u == cachedCoinsUsage[1] - Usage[coin[1][o]]
           w == cachedCoinsUsage[1] - Usage[coin[1][o]] + Usage[Spent]
<1>4. u = w
  BY ONLY <1>3
<1> HIDE DEF u, w
<1>5. cachedCoinsUsage' = [cachedCoinsUsage EXCEPT ![1] = w]
  BY Zenon, <1>1, <1>4 DEF u
<1> USE DEF w
<1> QED
  BY Zenon, <1>1, <1>2, <1>5, PutHereCharged

\* A step that clears the level d and leaves the other one alone.
LEMMA ClearCharged ==
    ASSUME TypeOK, Charged, NEW d \in Level,
           coin' = [coin EXCEPT ![d] = [o \in Outpoint |-> Spent]],
           cachedCoinsUsage' = [cachedCoinsUsage EXCEPT ![d] = 0]
    PROVE  Charged'
<1>1. coin \in [Level -> Content]
  BY Zenon DEF TypeOK
<1>2. ASSUME NEW k \in Level PROVE cachedCoinsUsage'[k] = Total(UsageOf(k)', Outpoint)
  <2>1. CASE k # d
    <3>1. coin'[k] = coin[k]
      BY Zenon, <1>1, <2>1
    <3>2. UsageOf(k)' = UsageOf(k)
      BY <3>1 DEF UsageOf
    <3>3. cachedCoinsUsage'[k] = cachedCoinsUsage[k]
      BY Zenon, <2>1 DEF Charged
    <3>4. cachedCoinsUsage[k] = Total(UsageOf(k), Outpoint)
      BY Zenon DEF Charged
    <3> QED
      BY Zenon, <3>2, <3>3, <3>4
  <2>2. CASE k = d
    <3>0. coin'[k] = [o \in Outpoint |-> Spent]
      BY Zenon, <1>1, <2>2
    <3>1. \A o \in Outpoint : coin'[k][o] = Spent
      BY Zenon, <3>0
    <3>2. \A o \in Outpoint : UsageOf(k)'[o] = 0
      BY Zenon, <3>1, UsageAssumption DEF UsageOf
    <3>3. Total(UsageOf(k)', Outpoint) = 0
      BY Zenon, <3>2, TotalZero
    <3>4. cachedCoinsUsage'[k] = 0
      BY Zenon, <2>2 DEF Charged
    <3> QED
      BY Zenon, <3>3, <3>4
  <2> QED
    BY Zenon, <2>1, <2>2
<1>3. cachedCoinsUsage' = [k \in Level |-> cachedCoinsUsage'[k]]
  BY Zenon DEF Charged
<1> QED
  BY Zenon, <1>2, <1>3 DEF Charged

LEMMA FlushScratchCharged ==
    ASSUME Inv, TypeOK', Charged, FlushScratch
    PROVE  Charged'
<1>0. TypeOK /\ 1 \in Level /\ 2 \in Level /\ Level = {1, 2}
  BY DEF Inv, Level
<1>1. Misapplied = {}
  BY Zenon, NoneMisapplied
<1>2. /\ coin' = [l \in Level |-> [o \in Outpoint |-> IF l = 1 THEN ParentCoin(o) ELSE Spent]]
      /\ cachedCoinsUsage' = [l \in Level |-> IF l = 1 THEN ParentUsage ELSE 0]
  BY Zenon, <1>1 DEF FlushScratch
<1>3. \A o \in Outpoint : coin'[1][o] = ParentCoin(o)
  BY <1>0, <1>2
<1>4. \A o \in Outpoint : coin'[2][o] = Spent
  BY <1>0, <1>2
<1>5. cachedCoinsUsage'[1] = ParentUsage /\ cachedCoinsUsage'[2] = 0
  BY <1>0, <1>2
<1> DEFINE A == Created \cup Modified
           E == Erased
           M == Modified
           f == UsageOf(1)
           g == UsageOf(2)
           h == UsageOf(1)'
<1>6. Total(h, Outpoint) = Total(f, Outpoint) + Total(g, A) - Total(f, E \cup M)
  <2>1. cached[1] \in SUBSET Outpoint /\ cached[2] \in SUBSET Outpoint
    BY Zenon, <1>0 DEF TypeOK
  <2>2. /\ A \in SUBSET Outpoint /\ E \in SUBSET Outpoint /\ M \in SUBSET A /\ A \cap E = {}
        /\ \A o \in A \ M : o \in Outpoint \ cached[1]
    BY Zenon, <2>1 DEF Created, Modified, Erased, Dirty
  <2>3. \A o \in Outpoint : f[o] \in Nat /\ g[o] \in Nat /\ h[o] \in Nat
    BY Zenon, <1>0, UsageType, UsageTypeNext
  <2>4. \A o \in A \ M : f[o] = 0
    BY Zenon, <1>0, <2>2, UsageType
  <2>5. \A o \in Outpoint : h[o] = Usage[ParentCoin(o)]
    BY Zenon, <1>0, <1>3, UsageTypeNext
  <2>6. \A o \in Outpoint : f[o] = Usage[coin[1][o]] /\ g[o] = Usage[coin[2][o]]
    BY Zenon, <1>0, UsageType
  <2>7. /\ \A o \in A : ParentCoin(o) = coin[2][o]
        /\ \A o \in Outpoint \ (A \cup E) : ParentCoin(o) = coin[1][o]
    BY Zenon DEF ParentCoin
  <2>8. \A o \in E : ParentCoin(o) = Spent
    BY Zenon, <2>2 DEF ParentCoin
  <2> HIDE DEF A, E, M, f, g, h
  <2>9. \A o \in A : h[o] = g[o]
    BY ONLY <2>2, <2>5, <2>6, <2>7
  <2>10. \A o \in E : h[o] = 0
    BY ONLY <2>2, <2>5, <2>8, UsageAssumption
  <2>11. \A o \in Outpoint \ (A \cup E) : h[o] = f[o]
    BY ONLY <2>5, <2>6, <2>7
  <2>12. A \in SUBSET Outpoint /\ E \in SUBSET Outpoint /\ M \in SUBSET A /\ A \cap E = {}
    BY Zenon, <2>2
  <2> DEFINE R == Outpoint \ (A \cup E)
             N == A \ M
  <2>13. /\ IsFiniteSet(A) /\ IsFiniteSet(E) /\ IsFiniteSet(R)
         /\ IsFiniteSet(M) /\ IsFiniteSet(N) /\ IsFiniteSet(A \cup E) /\ IsFiniteSet(E \cup M)
    <3>1. IsFiniteSet(Outpoint)
      BY Zenon, OutpointAssumption
    <3>2. /\ A \subseteq Outpoint /\ E \subseteq Outpoint /\ R \subseteq Outpoint /\ M \subseteq Outpoint
          /\ N \subseteq Outpoint /\ A \cup E \subseteq Outpoint /\ E \cup M \subseteq Outpoint
      BY Zenon, <2>12
    <3> QED
      BY Zenon, <3>1, <3>2, FS_Subset
  <2>14. /\ R \cap (A \cup E) = {} /\ R \cup (A \cup E) = Outpoint
         /\ (E \cup M) \cap N = {} /\ (E \cup M) \cup N = A \cup E
    BY Zenon, <2>12
  <2>15. (\A o \in N : f[o] = 0) /\ (\A o \in R : h[o] = f[o])
    BY Zenon, <2>4, <2>11
  <2>16. A \cup E \subseteq Outpoint /\ E \cup M \subseteq Outpoint /\ A \subseteq Outpoint /\ E \subseteq Outpoint
    BY Zenon, <2>12
  <2> HIDE DEF R, N
  <2>17. /\ Total(f, R) \in Nat /\ Total(f, A \cup E) \in Nat
         /\ Total(f, Outpoint) = Total(f, R) + Total(f, A \cup E)
    <3>1. \A o \in R \cup (A \cup E) : f[o] \in Nat
      BY Zenon, <2>3, <2>14
    <3>2. /\ Total(f, R) \in Nat /\ Total(f, A \cup E) \in Nat
          /\ Total(f, R \cup (A \cup E)) = Total(f, R) + Total(f, A \cup E)
      BY Zenon, <2>13, <2>14, <3>1, TotalSplit
    <3> QED
      BY Zenon, <2>14, <3>2
  <2>18. Total(h, Outpoint) = Total(h, R) + Total(h, A \cup E)
    <3>1. \A o \in R \cup (A \cup E) : h[o] \in Nat
      BY Zenon, <2>3, <2>14
    <3>2. Total(h, R \cup (A \cup E)) = Total(h, R) + Total(h, A \cup E)
      BY Zenon, <2>13, <2>14, <3>1, TotalSplit
    <3> QED
      BY Zenon, <2>14, <3>2
  <2>19. Total(f, E \cup M) \in Nat /\ Total(f, A \cup E) = Total(f, E \cup M) + Total(f, N)
    <3>1. \A o \in (E \cup M) \cup N : f[o] \in Nat
      BY Zenon, <2>3, <2>14, <2>16
    <3>2. /\ Total(f, E \cup M) \in Nat
          /\ Total(f, (E \cup M) \cup N) = Total(f, E \cup M) + Total(f, N)
      BY Zenon, <2>13, <2>14, <3>1, TotalSplit
    <3> QED
      BY Zenon, <2>14, <3>2
  <2>20. Total(h, A) \in Nat /\ Total(h, A \cup E) = Total(h, A) + Total(h, E)
    <3>1. \A o \in A \cup E : h[o] \in Nat
      BY Zenon, <2>3, <2>16
    <3> QED
      BY Zenon, <2>12, <2>13, <3>1, TotalSplit
  <2>21. Total(f, N) = 0 /\ Total(h, E) = 0
    BY Zenon, <2>10, <2>15, TotalZero
  <2>22. Total(h, R) = Total(f, R) /\ Total(h, A) = Total(g, A)
    BY Zenon, <2>9, <2>15, TotalSame
  <2> QED
    BY ONLY <2>17, <2>18, <2>19, <2>20, <2>21, <2>22
<1>7. cachedCoinsUsage[1] = Total(f, Outpoint)
  BY Zenon, <1>0 DEF Charged
<1>8. ParentUsage = cachedCoinsUsage[1] + Total(g, A) - Total(f, E \cup M)
  BY Zenon DEF ParentUsage
<1>9. Total(UsageOf(2)', Outpoint) = 0
  <2>1. \A o \in Outpoint : UsageOf(2)'[o] = 0
    BY Zenon, <1>0, <1>4, UsageTypeNext, UsageAssumption
  <2> QED
    BY Zenon, <2>1, TotalZero
<1>10. cachedCoinsUsage'[1] = Total(UsageOf(1)', Outpoint)
  BY Zenon, <1>5, <1>6, <1>7, <1>8
<1>11. \A l \in Level : cachedCoinsUsage'[l] = Total(UsageOf(l)', Outpoint)
  BY Zenon, <1>0, <1>5, <1>9, <1>10
<1>12. cachedCoinsUsage' = [l \in Level |-> cachedCoinsUsage'[l]]
  BY Zenon, <1>2
<1> QED
  BY Zenon, <1>11, <1>12 DEF Charged

LEMMA SameCharged ==
    ASSUME Charged, UNCHANGED <<coin, cachedCoinsUsage>> PROVE Charged'
BY Zenon DEF Charged, UsageOf

LEMMA ChargedStep ==
    ASSUME Inv, Charged, Next PROVE Charged'
<1>0. TypeOK /\ TypeOK' /\ NeverThrows' /\ Top \in Level
  BY StepCorrect DEF Inv, Top, Level
<1>1. ASSUME NEW l \in 1..Top, NEW o \in Outpoint, FetchCoin(l, o) PROVE Charged'
  <2>1. l \in Level
    BY <1>0 DEF Level
  <2> QED
    BY Zenon, <1>0, <1>1, <2>1, FetchCharged
<1>2. ASSUME NEW l \in 1..Top, GetBestBlock(l) PROVE Charged'
  BY Zenon, <1>2, SameCharged DEF GetBestBlock
<1>3. ASSUME NEW o \in Outpoint, NEW c \in Coin, AddNewCoin(Top, o, c) PROVE Charged'
  BY Zenon, <1>0, <1>3, AddCharged DEF AddNewCoin
<1>4. ASSUME NEW o \in Outpoint, NEW c \in Coin, AddCheckedCoin(Top, o, c) PROVE Charged'
  BY Zenon, <1>0, <1>4, AddCheckedCharged
<1>5. ASSUME NEW o \in Outpoint, SpendCoin(Top, o) PROVE Charged'
  BY Zenon, <1>0, <1>5, SpendCharged
<1>6. ASSUME NEW b \in Block, SetBestBlock(Top, b) PROVE Charged'
  BY Zenon, <1>6, SameCharged DEF SetBestBlock
<1>7. ASSUME NEW o \in Outpoint, Uncache(o) PROVE Charged'
  BY Zenon, <1>0, <1>7, UncacheCharged
<1>8. CASE FlushScratch
  BY Zenon, <1>0, <1>8, FlushScratchCharged
<1>9. CASE FlushTip
  <2>1. 1 \in Level
    BY DEF Level
  <2> QED
    BY Zenon, <1>0, <1>9, <2>1, ClearCharged DEF FlushTip
<1>10. CASE OpenScratch
  BY Zenon, <1>10, SameCharged DEF OpenScratch
<1>11. CASE CloseScratch
  <2>1. 2 \in Level
    BY DEF Level
  <2> QED
    BY Zenon, <1>0, <1>11, <2>1, ClearCharged DEF CloseScratch
<1> QED
  BY Zenon, <1>1, <1>2, <1>3, <1>4, <1>5, <1>6, <1>7, <1>8, <1>9, <1>10, <1>11 DEF Next

\* cachedCoinsUsage, from which the size that triggers flushes is computed,
\* is the usage of the coins in the cache at both levels, through every fetch,
\* overwrite, spend and BatchWrite.
THEOREM UsageIsExact == Spec => []UsageExact
<1>1. Init => Charged
  <2> SUFFICES ASSUME Init PROVE Charged
    BY Zenon
  <2>1. ASSUME NEW l \in Level PROVE Total(UsageOf(l), Outpoint) = 0
    <3>1. \A o \in Outpoint : UsageOf(l)[o] = 0
      BY Zenon, UsageAssumption DEF Init, UsageOf
    <3> QED
      BY Zenon, <3>1, TotalZero
  <2> QED
    BY Zenon, <2>1 DEF Init, Charged
<1>2. Inv /\ Charged /\ [Next]_vars => Charged'
  BY Zenon, ChargedStep, SameCharged DEF vars
<1>3. Inv /\ Charged => UsageExact
  BY Zenon, ChargedIsExact DEF Inv
<1> QED
  BY <1>1, <1>2, <1>3, Inductive, PTL DEF Spec

=============================================================================
