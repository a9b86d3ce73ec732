-------------------------- MODULE GenerationProofs ---------------------------
(***************************************************************************)
(* Theorems about Generation, for any model depth, context length,         *)
(* vocabulary, batch and limits, about the KVCache it decodes with, about  *)
(* ChatRendering, which makes the prompt it continues, and about           *)
(* CoreEvaluation, which scores what the model gives to other prompts.     *)
(*                                                                         *)
(* Generation: whatever the mode, a row is sampled from its own latest     *)
(* context, as a full forward of it would be.  The argument: the layers    *)
(* are causal, so what the cache holds of a row stays right when the row   *)
(* grows; every block writes exactly what a full forward has there; and    *)
(* only the first forward of a request can have more than its model's      *)
(* context, because a longer request is refused when it is opened.         *)
(***************************************************************************)
EXTENDS Generation, ChatRendering, CoreEvaluation, FiniteOrders, SequenceTheorems, FunctionTheorems,
        FiniteSetTheorems, TLAPS

(***************************************************************************)
(* The inductive invariant.                                                *)
(***************************************************************************)
Rows == UNION {[1 .. n -> Seq(GenTokens)] : n \in Nat \ {0}}

\* Fields whose values nothing here relies on are only said to be there.
GenShape ==
  /\ gen \in [at : {"idle", "context", "forward", "sample", "yield", "close"},
              mode : {"naive", "cached"}, limit : Nat, prompt : Nat, rows : {gen.rows},
              stopped : {gen.stopped}, sampled : {gen.sampled}, drawn : {gen.drawn},
              step : Nat, layer : 0 .. LayerCount, terms : {gen.terms}, final : {gen.final},
              saved : {gen.saved}]
  /\ ambient \in [training : BOOLEAN, random : {0, 1}]
  /\ IF gen.at = "idle" THEN gen = NoRequest /\ ambient.random = 0
     ELSE /\ gen.saved \in [training : BOOLEAN, random : {0}]
          /\ gen.at = "forward" => gen.mode = "cached"
          /\ gen.at = "yield" => gen.step > 0

\* What the request counts of each row.
RowsOK ==
  LET D == DOMAIN gen.rows IN
  /\ gen.at # "idle" =>
       /\ gen.rows \in Rows
       /\ gen.stopped \in [D -> GenTokens \cup {Junk}]
       /\ gen.sampled \in [D -> Nat] /\ gen.drawn \in [D -> Nat]
       /\ gen.step <= gen.limit
       /\ gen.at \in {"forward", "sample"} => gen.step < gen.limit
       /\ gen.prompt \in Nat \ {0}
  /\ \A i \in D :
       /\ gen.drawn[i] = gen.sampled[i] /\ gen.sampled[i] <= gen.step
       /\ i \in Active => gen.sampled[i] = gen.step
       /\ i \notin Active => gen.sampled[i] > 0
       /\ Len(gen.rows[i]) = gen.prompt + gen.sampled[i] - (IF i \in Active THEN 0 ELSE 1)

\* The context of the only row of a cached request, and what the storage of
\* a layer has to hold of it.
Window == LastOf(gen.rows[1], MaxSeqLen)
Holds(context, l, n) == \A p \in 1 .. n : store[l][p] = LayerTerms(context)[l][p]
HoldsAll(context, n) == \A l \in CacheLayers : Holds(context, l, n)

StoreOK ==
  /\ DOMAIN store = CacheLayers
  /\ kvPosition \in 0 .. CacheCapacity
  /\ transaction \in [active : BOOLEAN, count : 0 .. CacheCapacity, written : SUBSET CacheLayers]
  /\ ~transaction.active => transaction = NoTransaction
  /\ transaction.active /\ gen.at # "idle" => gen.at \in {"forward", "close"}

CachedOK ==
  gen.at \in {"context", "forward", "sample", "yield"} /\ gen.mode = "cached" =>
    /\ DOMAIN gen.rows = {1}
    /\ gen.prompt + gen.limit - 1 <= MaxSeqLen \/ gen.limit <= 1
    /\ gen.at = "context" /\ gen.step = 0 => kvPosition = 0
    /\ gen.at \in {"forward", "sample"} => 1 \in Active
    /\ gen.at \in {"context", "yield"} /\ gen.step > 0 /\ gen.step < gen.limit /\ 1 \in Active =>
         /\ kvPosition = Len(gen.rows[1]) - 1
         /\ HoldsAll(gen.rows[1], kvPosition)
    /\ gen.at = "forward" =>
         /\ transaction.active
         /\ transaction.count > 0 /\ End = Len(Window)
         /\ transaction.written = 0 .. gen.layer - 1
         /\ HoldsAll(Window, kvPosition)
         /\ \A l \in 0 .. gen.layer - 1 : Holds(Window, l, End)
         /\ gen.terms = [i \in 1 .. transaction.count |-> LayerTerms(Window)[gen.layer][Start + i]]
    /\ gen.at = "sample" =>
         /\ kvPosition = Len(Window) /\ HoldsAll(Window, kvPosition)
         /\ gen.final = <<FullForward(Window)>>

NaiveOK ==
  gen.at = "sample" =>
    \A k \in DOMAIN ActiveIndices :
      gen.final[k] = FullForward(LastOf(gen.rows[ActiveIndices[k]], MaxSeqLen))

GenInv == GenShape /\ RowsOK /\ StoreOK /\ CachedOK /\ NaiveOK

USE CacheAssumption, GenerationAssumption DEF MaxSeqLen, CachePositions

-----------------------------------------------------------------------------
\* The layers.
LEMMA LayersAreFinite == LayerCount \in Nat /\ CacheLayers = 0 .. LayerCount - 1 /\ LayerCount > 0
<1>1. LayerCount \in Nat
  BY FS_CardinalityType DEF LayerCount
<1> QED BY <1>1 DEF LayerCount

\* g is the recursion over the layers, as deep as depth.
Layered(g, depth, first, n) ==
  /\ g = [l \in 0 .. depth |-> g[l]] /\ g[0] = first
  /\ \A l \in 1 .. depth : g[l] = Attended(g[l - 1], 0, n)

LEMMA LayersExist ==
  ASSUME NEW first, NEW n
  PROVE  \A depth \in Nat : \E g : Layered(g, depth, first, n)
<1> DEFINE T == {depth \in Nat : \E g : Layered(g, depth, first, n)}
<1>1. 0 \in T
  <2> DEFINE g == [l \in 0 .. 0 |-> first]
  <2>1. Layered(g, 0, first, n)
    BY DEF Layered
  <2> QED BY <2>1
<1>2. ASSUME NEW depth \in Nat, depth \in T PROVE depth + 1 \in T
  <2>1. PICK g : Layered(g, depth, first, n)
    BY <1>2
  <2> DEFINE h == [l \in 0 .. depth + 1 |->
                     IF l = depth + 1 THEN Attended(g[depth], 0, n) ELSE g[l]]
  <2>2. h[0] = first
    BY <2>1 DEF Layered
  <2>3. ASSUME NEW l \in 1 .. depth + 1 PROVE h[l] = Attended(h[l - 1], 0, n)
    <3>1. CASE l \in 1 .. depth
      <4>1. h[l - 1] = g[l - 1] /\ h[l] = g[l]
        BY <3>1
      <4>2. g[l] = Attended(g[l - 1], 0, n)
        BY <2>1, <3>1 DEF Layered
      <4> QED BY <4>1, <4>2
    <3>2. CASE l = depth + 1
      <4>1. l - 1 = depth /\ h[l - 1] = g[depth] /\ h[l] = Attended(g[depth], 0, n)
        BY <3>2
      <4> QED BY <4>1
    <3> QED BY <3>1, <3>2
  <2>4. h = [l \in 0 .. depth + 1 |-> h[l]]
    OBVIOUS
  <2> HIDE DEF h
  <2>5. Layered(h, depth + 1, first, n)
    BY <2>2, <2>3, <2>4 DEF Layered
  <2> QED BY <2>5
<1> HIDE DEF T
<1>3. Nat \subseteq T
  BY <1>1, <1>2, NaturalsAreInductive
<1> QED BY <1>3 DEF T

LEMMA LayerTermsAre ==
  ASSUME NEW context
  PROVE  LET f == LayerTerms(context) IN
         /\ f[0] = Embedded(context, 0)
         /\ \A l \in 0 .. LayerCount - 1 : f[l + 1] = Attended(f[l], 0, Len(context))
<1> DEFINE f == LayerTerms(context)
           next(g, l) == IF l = 0 THEN Embedded(context, 0) ELSE Attended(g[l - 1], 0, Len(context))
<1>1. \E g : g = [l \in 0 .. LayerCount |-> next(g, l)]
  <2>1. PICK g : Layered(g, LayerCount, Embedded(context, 0), Len(context))
    BY LayersExist, LayersAreFinite
  <2>2. \A l \in 0 .. LayerCount : g[l] = next(g, l)
    <3> TAKE l \in 0 .. LayerCount
    <3>1. CASE l = 0
      BY <2>1, <3>1 DEF Layered
    <3>2. CASE l # 0
      <4>1. l \in 1 .. LayerCount
        BY <3>2, LayersAreFinite
      <4> QED BY <2>1, <3>2, <4>1 DEF Layered
    <3> QED BY <3>1, <3>2
  <2> HIDE DEF next
  <2>3. g = [l \in 0 .. LayerCount |-> g[l]]
    BY <2>1 DEF Layered
  <2>4. g = [l \in 0 .. LayerCount |-> next(g, l)]
    BY <2>2, <2>3
  <2> QED BY <2>4
<1>2. f = CHOOSE g : g = [l \in 0 .. LayerCount |-> next(g, l)]
  BY DEF LayerTerms
<1> HIDE DEF f
<1>3. f = [l \in 0 .. LayerCount |-> next(f, l)]
  BY <1>1, <1>2
<1>4. f[0] = Embedded(context, 0)
  BY <1>3, LayersAreFinite
<1>5. ASSUME NEW l \in 0 .. LayerCount - 1 PROVE f[l + 1] = Attended(f[l], 0, Len(context))
  <2>1. l + 1 \in 0 .. LayerCount /\ l + 1 # 0 /\ (l + 1) - 1 = l
    BY LayersAreFinite
  <2>2. f[l + 1] = next(f, l + 1)
    BY <1>3, <2>1
  <2> QED BY <2>1, <2>2
<1> QED BY <1>4, <1>5 DEF f

\* Causality: what a position carries does not depend on later ones.
THEOREM LayersAreCausal ==
  ASSUME NEW context, NEW longer, Len(context) \in Nat, Len(longer) \in Nat,
         Len(context) <= Len(longer),
         DOMAIN context = 1 .. Len(context), DOMAIN longer = 1 .. Len(longer),
         \A p \in 1 .. Len(context) : longer[p] = context[p]
  PROVE  \A l \in 0 .. LayerCount : \A p \in 1 .. Len(context) :
           LayerTerms(longer)[l][p] = LayerTerms(context)[l][p]
<1> DEFINE f == LayerTerms(context)
           g == LayerTerms(longer)
           n == Len(context)
           T == {l \in Nat : l <= LayerCount => \A p \in 1 .. n : g[l][p] = f[l][p]}
<1>1. f[0] = Embedded(context, 0) /\ g[0] = Embedded(longer, 0)
  BY LayerTermsAre
<1>2. \A l \in 0 .. LayerCount - 1 :
        f[l + 1] = Attended(f[l], 0, n) /\ g[l + 1] = Attended(g[l], 0, Len(longer))
  BY LayerTermsAre
<1> HIDE DEF f, g
<1>3. 0 \in T
  <2> SUFFICES ASSUME NEW p \in 1 .. n PROVE g[0][p] = f[0][p]
    OBVIOUS
  <2>1. p \in DOMAIN context /\ p \in DOMAIN longer /\ longer[p] = context[p]
    OBVIOUS
  <2>2. f[0][p] = <<context[p], 0 + p>> /\ g[0][p] = <<longer[p], 0 + p>>
    BY <1>1, <2>1 DEF Embedded
  <2> QED BY <2>1, <2>2
<1>4. ASSUME NEW l \in Nat, l \in T PROVE l + 1 \in T
  <2> SUFFICES ASSUME l + 1 <= LayerCount, NEW p \in 1 .. n PROVE g[l + 1][p] = f[l + 1][p]
    OBVIOUS
  <2>1. l \in 0 .. LayerCount - 1 /\ \A q \in 1 .. n : g[l][q] = f[l][q]
    BY <1>4, LayersAreFinite
  <2>2. p \in 1 .. Len(longer) /\ p \in 1 .. n
    OBVIOUS
  <2>3. f[l + 1][p] = KeysUpTo(f[l], 0 + p) /\ g[l + 1][p] = KeysUpTo(g[l], 0 + p)
    BY ZenonT(60), <1>2, <2>1, <2>2 DEF Attended
  <2>4. KeysUpTo(f[l], 0 + p) = KeysUpTo(g[l], 0 + p)
    BY <2>1 DEF KeysUpTo
  <2> QED BY <2>3, <2>4
<1> HIDE DEF T
<1>5. Nat \subseteq T
  BY <1>3, <1>4, NaturalsAreInductive
<1>6. ASSUME NEW l \in 0 .. LayerCount, NEW p \in 1 .. n PROVE g[l][p] = f[l][p]
  <2>1. l \in T /\ l <= LayerCount
    BY <1>5, LayersAreFinite
  <2> QED BY <2>1 DEF T
<1> QED BY <1>6 DEF f, g

-----------------------------------------------------------------------------
\* The active rows, in their order.
LEMMA ActiveIndicesList ==
  ASSUME IsFiniteSet(Active), Active \subseteq Nat
  PROVE  /\ DOMAIN ActiveIndices = 1 .. Cardinality(Active)
         /\ ActiveIndices \in [DOMAIN ActiveIndices -> Active]
         /\ \A i \in Active : \E k \in DOMAIN ActiveIndices : ActiveIndices[k] = i
         /\ \A j, k \in DOMAIN ActiveIndices : ActiveIndices[j] = ActiveIndices[k] => j = k
<1> DEFINE N == Cardinality(Active)
           order == ActiveIndices
           R == {pair \in Active \X Active : pair[1] < pair[2]}
<1>1. \A i, j \in Active : <<i, j>> \in R <=> i < j
  OBVIOUS
<1> HIDE DEF R
<1>2. Orders(R, Active)
  BY <1>1 DEF Orders
<1>3. \A s : s \in Listings(R, Active) <=>
         s \in [1 .. N -> Active] /\ \A j, k \in 1 .. N : j < k => s[j] < s[k]
  BY <1>1 DEF Listings
<1>4. \E s \in [1 .. N -> Active] : \A j, k \in DOMAIN s : j < k => s[j] < s[k]
  BY <1>2, <1>3, ListingExists
<1>5. order \in [1 .. N -> Active] /\ \A j, k \in DOMAIN order : j < k => order[j] < order[k]
  BY <1>4 DEF ActiveIndices
<1> HIDE DEF order
<1>6. order \in Listings(R, Active)
  BY <1>3, <1>5
<1>7. /\ \A i \in Active : \E k \in 1 .. N : order[k] = i
      /\ \A j, k \in 1 .. N : order[j] = order[k] => j = k
  BY <1>2, <1>6, ListingIsOnto
<1> QED BY <1>5, <1>7 DEF order

-----------------------------------------------------------------------------
\* Consequences of the invariant.
LEMMA RowsShape ==
  ASSUME GenInv, gen.at # "idle"
  PROVE  /\ IsFiniteSet(Active) /\ Active \subseteq DOMAIN gen.rows
         /\ DOMAIN gen.rows \subseteq Nat \ {0}
         /\ \A i \in DOMAIN gen.rows : gen.rows[i] \in Seq(GenTokens)
<1>1. PICK n \in Nat \ {0} : gen.rows \in [1 .. n -> Seq(GenTokens)]
  BY DEF GenInv, RowsOK, Rows
<1>2. IsFiniteSet(1 .. n)
  BY FS_Interval
<1>3. Active \in SUBSET (1 .. n)
  BY <1>1 DEF Active
<1>4. IsFiniteSet(Active)
  BY <1>2, <1>3, FS_Subset
<1> QED BY <1>1, <1>3, <1>4

LEMMA ActiveListed ==
  ASSUME GenInv, gen.at # "idle"
  PROVE  /\ DOMAIN ActiveIndices = 1 .. Cardinality(Active)
         /\ \A k \in DOMAIN ActiveIndices : ActiveIndices[k] \in Active
         /\ \A i \in Active : \E k \in DOMAIN ActiveIndices : ActiveIndices[k] = i
<1>1. IsFiniteSet(Active) /\ Active \subseteq Nat
  BY RowsShape
<1>2. /\ DOMAIN ActiveIndices = 1 .. Cardinality(Active)
      /\ ActiveIndices \in [DOMAIN ActiveIndices -> Active]
      /\ \A i \in Active : \E k \in DOMAIN ActiveIndices : ActiveIndices[k] = i
  BY <1>1, ActiveIndicesList
<1> QED BY <1>2

\* The only active row is the only one listed.
LEMMA OneActive ==
  ASSUME GenInv, gen.at # "idle", Active = {1}
  PROVE  DOMAIN ActiveIndices = {1} /\ ActiveIndices[1] = 1
<1>1. Cardinality(Active) = 1
  BY FS_Singleton
<1> QED BY <1>1, ActiveListed

\* The window is the row, or its end.
LEMMA WindowShape ==
  ASSUME GenInv, gen.at # "idle", 1 \in DOMAIN gen.rows, Len(gen.rows[1]) > 0
  PROVE  /\ Window \in Seq(GenTokens) /\ Len(Window) \in 1 .. MaxSeqLen
         /\ DOMAIN Window = 1 .. Len(Window)
         /\ Len(gen.rows[1]) <= MaxSeqLen => Window = gen.rows[1]
<1> DEFINE row == gen.rows[1]
<1>1. row \in Seq(GenTokens) /\ Len(row) \in Nat /\ Len(row) > 0
  BY RowsShape
<1>2. CASE Len(row) <= MaxSeqLen
  <2>0. ~(Len(row) > MaxSeqLen)
    BY <1>1, <1>2
  <2>1. Window = SubSeq(row, 1, Len(row))
    BY <2>0 DEF Window, LastOf
  <2>2. Window = row
    BY <1>1, <2>1, SubSeqFull
  <2> QED BY <1>1, <1>2, <2>2
<1>3. CASE Len(row) > MaxSeqLen
  <2> DEFINE m == Len(row) - MaxSeqLen + 1
  <2>1. Window = SubSeq(row, m, Len(row))
    BY <1>1, <1>3 DEF Window, LastOf
  <2>2. m \in 1 .. Len(row) /\ Len(row) - m + 1 = MaxSeqLen
    BY <1>1, <1>3
  <2> HIDE DEF m
  <2>3. Window \in Seq(GenTokens) /\ Len(Window) = MaxSeqLen
    BY <1>1, <2>1, <2>2, SubSeqProperties
  <2> QED BY <1>3, <2>3, <1>1
<1> QED BY <1>1, <1>2, <1>3

\* A step that leaves the rows and their counts.
SameRows ==
  /\ gen'.rows = gen.rows /\ gen'.stopped = gen.stopped /\ gen'.sampled = gen.sampled
  /\ gen'.drawn = gen.drawn /\ gen'.prompt = gen.prompt /\ gen'.limit = gen.limit
  /\ gen'.mode = gen.mode /\ gen'.step = gen.step

LEMMA SameRowsKeeps ==
  ASSUME GenInv, gen.at # "idle", gen'.at # "idle", SameRows,
         gen'.at \in {"forward", "sample"} => gen.step < gen.limit
  PROVE  /\ RowsOK' /\ Active' = Active /\ ActiveIndices' = ActiveIndices
         /\ Window' = Window
<1>1. Active' = Active /\ Window' = Window
  BY DEF SameRows, Active, Window
<1>2. ActiveIndices' = ActiveIndices
  BY <1>1 DEF ActiveIndices
<1>3. RowsOK'
  BY <1>1 DEF GenInv, RowsOK, SameRows
<1> QED BY <1>1, <1>2, <1>3

LEMMA GenInvInit == KVInit /\ GenerationInit => GenInv
<1> SUFFICES ASSUME KVInit, GenerationInit PROVE GenInv
  OBVIOUS
<1> USE DEF KVInit, GenerationInit
<1>1. GenShape
  BY LayersAreFinite DEF GenShape, NoRequest
<1>2. RowsOK
  BY DEF RowsOK, NoRequest
<1>3. StoreOK
  BY DEF StoreOK, Uninitialized, NoTransaction
<1>4. CachedOK /\ NaiveOK
  BY DEF CachedOK, NaiveOK, NoRequest
<1> QED BY <1>1, <1>2, <1>3, <1>4 DEF GenInv

\* A new request: nothing is sampled, and the cache is a new one.
LEMMA OpenKeeps ==
  ASSUME GenInv, NEW mode \in {"naive", "cached"}, NEW prompts \in Batches,
         NEW limit \in 1 .. MaxNewTokens,
         \A p \in ToSet(prompts) : Len(p) = Len(prompts[1]), Open(mode, prompts, limit)
  PROVE  GenInv'
<1>1. PICK n \in {1, 2} : prompts \in [1 .. n -> Prompts] /\ Len(prompts) = n
  <2>1. CASE \E p \in Prompts : prompts = <<p>>
    BY <2>1
  <2>2. CASE \E p, q \in Prompts : prompts = <<p, q>>
    BY <2>2
  <2> QED BY <2>1, <2>2 DEF Batches
<1>2. \A p \in Prompts : p \in Seq(GenTokens) /\ Len(p) \in Nat \ {0}
  BY DEF Prompts
<1>3. /\ prompts \in Rows /\ DOMAIN prompts = 1 .. n
      /\ \A i \in 1 .. n : Len(prompts[i]) = Len(prompts[1]) /\ Len(prompts[1]) \in Nat \ {0}
  BY SMTT(30), <1>1, <1>2 DEF Rows, ToSet
<1> DEFINE first == Len(prompts[1])
<1>4. /\ gen' = [NoRequest EXCEPT
           !.at = "context", !.mode = mode, !.limit = limit, !.rows = prompts, !.prompt = first,
           !.stopped = [i \in DOMAIN prompts |-> Junk],
           !.sampled = [i \in DOMAIN prompts |-> 0],
           !.drawn = [i \in DOMAIN prompts |-> 0], !.saved = ambient]
      /\ ambient' = [ambient EXCEPT !.training = FALSE]
      /\ gen.at = "idle" /\ NewCache
      /\ mode = "cached" => n = 1 /\ (first + limit - 1 <= MaxSeqLen \/ limit <= 1)
  BY <1>1, <1>3 DEF Open
<1>5. /\ gen'.at = "context" /\ gen'.mode = mode /\ gen'.limit = limit /\ gen'.rows = prompts
      /\ gen'.prompt = first /\ gen'.stopped = [i \in DOMAIN prompts |-> Junk]
      /\ gen'.sampled = [i \in DOMAIN prompts |-> 0] /\ gen'.drawn = [i \in DOMAIN prompts |-> 0]
      /\ gen'.saved = ambient /\ gen'.step = 0 /\ gen'.layer = 0
  BY <1>4 DEF NoRequest
<1> HIDE DEF first
<1>6. GenShape'
  <2>1. ambient \in [training : BOOLEAN, random : {0}]
    BY <1>4 DEF GenInv, GenShape
  <2>2. gen' = [at |-> "context", mode |-> mode, limit |-> limit, prompt |-> first,
                rows |-> gen'.rows, stopped |-> gen'.stopped, sampled |-> gen'.sampled,
                drawn |-> gen'.drawn, step |-> 0, layer |-> 0, terms |-> gen'.terms,
                final |-> gen'.final, saved |-> gen'.saved]
    BY ZenonT(60), <1>4 DEF NoRequest
  <2>3. limit \in Nat /\ first \in Nat /\ 0 \in 0 .. LayerCount
    BY <1>3, LayersAreFinite DEF first
  <2>4. ambient' \in [training : BOOLEAN, random : {0, 1}]
    BY <1>4, <2>1
  <2>5. gen' \in [at : {"idle", "context", "forward", "sample", "yield", "close"},
                 mode : {"naive", "cached"}, limit : Nat, prompt : Nat, rows : {gen'.rows},
                 stopped : {gen'.stopped}, sampled : {gen'.sampled}, drawn : {gen'.drawn},
                 step : Nat, layer : 0 .. LayerCount, terms : {gen'.terms},
                 final : {gen'.final}, saved : {gen'.saved}]
    BY <2>2, <2>3
  <2> QED BY <1>5, <2>1, <2>4, <2>5 DEF GenShape
<1>7. Active' = 1 .. n
  BY <1>3, <1>5 DEF Active
<1>8. RowsOK'
  BY <1>3, <1>5, <1>7 DEF RowsOK, first
<1>9. StoreOK' /\ kvPosition' = 0
  BY <1>4, <1>5 DEF NewCache, StoreOK, Uninitialized, NoTransaction
<1>10. CachedOK'
  <2>1. mode = "cached" => DOMAIN gen'.rows = {1}
    BY <1>3, <1>4, <1>5
  <2> QED BY <1>4, <1>5, <1>9, <2>1 DEF CachedOK
<1>11. NaiveOK'
  BY <1>5 DEF NaiveOK
<1> QED BY <1>6, <1>8, <1>9, <1>10, <1>11 DEF GenInv

LEMMA NaiveForwardKeeps == ASSUME GenInv, NaiveForward PROVE GenInv'
<1>1. /\ gen.at = "context" /\ ~Finished /\ gen.mode = "naive"
      /\ gen' = [gen EXCEPT !.at = "sample",
           !.final = [k \in DOMAIN ActiveIndices |-> FullForward(Context(ActiveIndices[k]))]]
      /\ UNCHANGED <<ambient, store, kvPosition, transaction>>
  BY DEF NaiveForward, kvVars
<1>2. /\ SameRows /\ gen'.at = "sample" /\ gen'.saved = gen.saved
      /\ gen'.final = [k \in DOMAIN ActiveIndices |-> FullForward(Context(ActiveIndices[k]))]
      /\ GenShape'
  BY <1>1 DEF GenInv, GenShape, SameRows
<1>3. gen.step < gen.limit
  BY <1>1 DEF Finished, GenInv, GenShape, RowsOK
<1>4. RowsOK' /\ ActiveIndices' = ActiveIndices
  BY <1>1, <1>2, <1>3, SameRowsKeeps
<1>5. StoreOK'
  BY <1>1, <1>2 DEF GenInv, StoreOK
<1>6. CachedOK'
  BY <1>1, <1>2 DEF CachedOK, SameRows
<1>7. NaiveOK'
  <2>1. \A i : Context(i) = LastOf(gen.rows[i], MaxSeqLen)
    BY <1>1 DEF Context
  <2> QED BY <1>2, <1>4, <2>1 DEF NaiveOK, SameRows
<1> QED BY <1>2, <1>4, <1>5, <1>6, <1>7 DEF GenInv

-----------------------------------------------------------------------------
\* What CachedOK says of a running cached request.
LEMMA CachedRow ==
  ASSUME GenInv, gen.at \in {"context", "forward", "sample", "yield"}, gen.mode = "cached"
  PROVE  /\ DOMAIN gen.rows = {1} /\ gen.rows[1] \in Seq(GenTokens)
         /\ Len(gen.rows[1]) \in Nat \ {0}
         /\ 1 \in Active => Len(gen.rows[1]) = gen.prompt + gen.step /\ Active = {1}
         /\ Window \in Seq(GenTokens) /\ Len(Window) \in 1 .. MaxSeqLen
         /\ DOMAIN Window = 1 .. Len(Window)
         /\ Len(gen.rows[1]) <= MaxSeqLen => Window = gen.rows[1]
<1>1. DOMAIN gen.rows = {1} /\ gen.rows[1] \in Seq(GenTokens)
  BY RowsShape DEF GenInv, CachedOK
<1>2. /\ Len(gen.rows[1]) = gen.prompt + gen.sampled[1] - (IF 1 \in Active THEN 0 ELSE 1)
      /\ 1 \in Active => gen.sampled[1] = gen.step
      /\ 1 \notin Active => gen.sampled[1] > 0
      /\ gen.sampled[1] \in Nat /\ gen.prompt \in Nat \ {0} /\ gen.step \in Nat
  BY <1>1 DEF GenInv, RowsOK, GenShape
<1>3. Len(gen.rows[1]) \in Nat \ {0}
  BY <1>2
<1>4. Active \subseteq {1}
  BY <1>1 DEF Active
<1>5. 1 \in Active => Len(gen.rows[1]) = gen.prompt + gen.step /\ Active = {1}
  <2> SUFFICES ASSUME 1 \in Active
               PROVE  Len(gen.rows[1]) = gen.prompt + gen.step /\ Active = {1}
    OBVIOUS
  <2>1. Active = {1}
    BY <1>4
  <2>2. Len(gen.rows[1]) = gen.prompt + gen.sampled[1] - 0 /\ gen.sampled[1] = gen.step
    BY <1>2
  <2> QED BY <1>2, <2>1, <2>2
<1>6. /\ Window \in Seq(GenTokens) /\ Len(Window) \in 1 .. MaxSeqLen
      /\ DOMAIN Window = 1 .. Len(Window)
      /\ Len(gen.rows[1]) <= MaxSeqLen => Window = gen.rows[1]
  <2>1. 1 \in DOMAIN gen.rows /\ Len(gen.rows[1]) > 0
    BY <1>1, <1>3
  <2> QED BY <2>1, WindowShape
<1> QED BY <1>1, <1>3, <1>5, <1>6

\* The forward of the next token takes up where the cache ends.
LEMMA BeginCachedForwardKeeps == ASSUME GenInv, BeginCachedForward PROVE GenInv'
<1> DEFINE count == Len(Context(1))
<1>1. /\ gen.at = "context" /\ ~Finished /\ gen.mode = "cached"
      /\ BeginTransaction(count) /\ UNCHANGED ambient
      /\ gen' = [gen EXCEPT !.at = "forward", !.layer = 0,
                            !.terms = Embedded(Context(1), kvPosition)]
  BY DEF BeginCachedForward
<1>2. /\ DOMAIN gen.rows = {1} /\ gen.rows[1] \in Seq(GenTokens)
      /\ Len(gen.rows[1]) \in Nat \ {0}
      /\ 1 \in Active => Len(gen.rows[1]) = gen.prompt + gen.step /\ Active = {1}
      /\ Window \in Seq(GenTokens) /\ Len(Window) \in 1 .. MaxSeqLen
      /\ DOMAIN Window = 1 .. Len(Window)
      /\ Len(gen.rows[1]) <= MaxSeqLen => Window = gen.rows[1]
  BY <1>1, CachedRow
<1>3. 1 \in Active /\ gen.step < gen.limit
  <2>1. Active # {} /\ gen.step # gen.limit /\ gen.step <= gen.limit
    BY <1>1 DEF Finished, GenInv, RowsOK
  <2>2. gen.step \in Nat /\ gen.limit \in Nat
    BY DEF GenInv, GenShape
  <2> QED BY <1>2, <2>1, <2>2 DEF Active
<1>4. /\ ~transaction.active /\ count > 0 /\ kvPosition + count <= CacheCapacity
      /\ (kvPosition > 0 => count = 1)
      /\ transaction' = [active |-> TRUE, count |-> count, written |-> {}]
      /\ UNCHANGED <<store, kvPosition>>
  BY <1>1 DEF BeginTransaction
<1>5. /\ count \in 1 .. CacheCapacity /\ kvPosition + count = Len(Window)
      /\ HoldsAll(Window, kvPosition)
      /\ Embedded(Context(1), kvPosition)
           = [i \in 1 .. count |-> LayerTerms(Window)[0][kvPosition + i]]
  <2>0. LayerTerms(Window)[0] = Embedded(Window, 0) /\ kvPosition \in Nat
    BY LayerTermsAre DEF GenInv, StoreOK
  <2>1. CASE gen.step = 0
    <3>1. Context(1) = Window /\ kvPosition = 0
      BY <1>1, <2>1 DEF Context, Window, GenInv, CachedOK
    <3>2. HoldsAll(Window, kvPosition)
      BY <3>1 DEF HoldsAll, Holds
    <3>3. Embedded(Window, 0) = [i \in 1 .. Len(Window) |-> LayerTerms(Window)[0][0 + i]]
      <4>1. Embedded(Window, 0) = [i \in 1 .. Len(Window) |-> <<Window[i], 0 + i>>]
        BY <1>2 DEF Embedded
      <4>2. \A i \in 1 .. Len(Window) : LayerTerms(Window)[0][0 + i] = <<Window[i], 0 + i>>
        BY <2>0, <4>1
      <4> QED BY <4>1, <4>2
    <3> QED BY <1>2, <3>1, <3>2, <3>3
  <2>2. CASE gen.step # 0
    <3>0. gen.step \in Nat /\ gen.step > 0
      BY <2>2 DEF GenInv, GenShape
    <3>1. kvPosition = Len(gen.rows[1]) - 1 /\ HoldsAll(gen.rows[1], kvPosition)
      BY <1>1, <1>3, <3>0 DEF GenInv, CachedOK
    <3>2. Context(1) = <<gen.rows[1][Len(gen.rows[1])]>>
      BY <1>1, <3>0 DEF Context, Last
    <3>3. count = 1
      BY <3>2
    <3>4. Len(gen.rows[1]) <= MaxSeqLen /\ Window = gen.rows[1]
      BY <1>2, <1>4, <3>1, <3>3
    <3>5. Embedded(Context(1), kvPosition) = [i \in 1 .. 1 |-> <<Window[kvPosition + 1], kvPosition + 1>>]
      BY <2>0, <3>1, <3>2, <3>4, <1>2 DEF Embedded
    <3>6. LayerTerms(Window)[0][kvPosition + 1] = <<Window[kvPosition + 1], 0 + (kvPosition + 1)>>
      BY <1>2, <2>0, <3>1, <3>4 DEF Embedded
    <3>7. \A i \in 1 .. 1 : LayerTerms(Window)[0][kvPosition + i] = <<Window[kvPosition + 1], kvPosition + 1>>
      BY <2>0, <3>6
    <3>8. Embedded(Context(1), kvPosition) = [i \in 1 .. 1 |-> LayerTerms(Window)[0][kvPosition + i]]
      BY <3>5, <3>7
    <3>9. kvPosition + count = Len(Window) /\ count \in 1 .. CacheCapacity
      <4>1. Len(Window) \in 1 .. CacheCapacity /\ kvPosition = Len(Window) - 1
        BY <1>2, <3>1, <3>4
      <4>2. 1 \in 1 .. CacheCapacity
        OBVIOUS
      <4>3. kvPosition + 1 = Len(Window)
        BY <2>0, <4>1
      <4> QED BY <3>3, <4>2, <4>3
    <3> HIDE DEF count
    <3> QED BY <3>1, <3>3, <3>4, <3>8, <3>9
  <2> QED BY <2>1, <2>2
<1> HIDE DEF count
<1>6. /\ SameRows /\ gen'.at = "forward" /\ gen'.layer = 0 /\ gen'.saved = gen.saved
      /\ gen'.terms = Embedded(Context(1), kvPosition) /\ GenShape'
  <2> DEFINE terms == Embedded(Context(1), kvPosition)
  <2>1. gen' = [gen EXCEPT !.at = "forward", !.layer = 0, !.terms = terms] /\ ambient' = ambient
    BY <1>1
  <2>2. gen.at # "idle" /\ 0 \in 0 .. LayerCount
    BY <1>1, LayersAreFinite
  <2> HIDE DEF terms
  <2>3. /\ SameRows /\ gen'.at = "forward" /\ gen'.layer = 0 /\ gen'.saved = gen.saved
        /\ gen'.terms = terms
    BY <2>1 DEF GenInv, GenShape, SameRows
  <2>4. GenShape'
    BY <1>1, <2>1, <2>2, <2>3 DEF GenInv, GenShape
  <2> QED BY <2>3, <2>4 DEF terms
<1>7. RowsOK' /\ Active' = Active /\ Window' = Window
  BY <1>1, <1>3, <1>6, SameRowsKeeps
<1>8. StoreOK'
  BY <1>4, <1>5, <1>6 DEF GenInv, StoreOK
<1>9. CachedOK'
  <2>1. DOMAIN gen'.rows = {1} /\ (gen'.prompt + gen'.limit - 1 <= MaxSeqLen \/ gen'.limit <= 1)
    BY <1>1, <1>6 DEF GenInv, CachedOK, SameRows
  <2>2. HoldsAll(Window, kvPosition)'
    BY <1>4, <1>5, <1>7 DEF HoldsAll, Holds
  <2>3. /\ transaction'.active /\ transaction'.count = count /\ transaction'.written = {}
        /\ End' = Len(Window') /\ Start' = kvPosition
    BY <1>4, <1>5, <1>7 DEF End, Start
  <2>4. 0 .. gen'.layer - 1 = {}
    BY <1>6
  <2>5. gen'.terms = [i \in 1 .. transaction'.count |-> LayerTerms(Window')[gen'.layer][Start' + i]]
    BY <1>5, <1>6, <1>7, <2>3
  <2> QED BY <1>3, <1>5, <1>6, <1>7, <2>1, <2>2, <2>3, <2>4, <2>5 DEF CachedOK
<1>10. NaiveOK'
  BY <1>6 DEF NaiveOK
<1> QED BY <1>6, <1>7, <1>8, <1>9, <1>10 DEF GenInv

-----------------------------------------------------------------------------
\* What CachedOK says of a forward in progress.
LEMMA ForwardState ==
  ASSUME GenInv, gen.at = "forward"
  PROVE  /\ gen.mode = "cached" /\ 1 \in Active /\ DOMAIN gen.rows = {1}
         /\ (gen.prompt + gen.limit - 1 <= MaxSeqLen \/ gen.limit <= 1)
         /\ transaction.active /\ transaction.count \in Nat \ {0} /\ kvPosition \in Nat
         /\ End = Len(Window) /\ Len(Window) \in 1 .. MaxSeqLen
         /\ Start = kvPosition /\ End = kvPosition + transaction.count
         /\ transaction.written = 0 .. gen.layer - 1 /\ gen.layer \in 0 .. LayerCount
         /\ HoldsAll(Window, kvPosition)
         /\ \A l \in 0 .. gen.layer - 1 : Holds(Window, l, End)
         /\ gen.terms = [i \in 1 .. transaction.count |-> LayerTerms(Window)[gen.layer][Start + i]]
<1>1. gen.mode = "cached" /\ gen.layer \in 0 .. LayerCount
  BY DEF GenInv, GenShape
<1>2. /\ 1 \in Active /\ DOMAIN gen.rows = {1}
      /\ (gen.prompt + gen.limit - 1 <= MaxSeqLen \/ gen.limit <= 1)
      /\ transaction.active /\ transaction.count > 0 /\ End = Len(Window)
      /\ transaction.written = 0 .. gen.layer - 1
      /\ HoldsAll(Window, kvPosition)
      /\ \A l \in 0 .. gen.layer - 1 : Holds(Window, l, End)
      /\ gen.terms = [i \in 1 .. transaction.count |-> LayerTerms(Window)[gen.layer][Start + i]]
  BY <1>1 DEF GenInv, CachedOK
<1>3. transaction.count \in Nat /\ kvPosition \in Nat
  BY DEF GenInv, StoreOK
<1>4. transaction.count \in Nat \ {0}
  BY <1>2, <1>3
<1>5. Len(Window) \in 1 .. MaxSeqLen
  BY <1>1, CachedRow
<1> QED BY <1>1, <1>2, <1>3, <1>4, <1>5 DEF Start, End

\* A block: its layer is stored as a full forward has it, and so is what the
\* next layer gets.
LEMMA ForwardBlockKeeps == ASSUME GenInv, ForwardBlock PROVE GenInv'
<1> DEFINE l == gen.layer
           n == transaction.count
           W == Window
           L == LayerTerms(Window)
           block == [p \in CachePositions |->
                       IF p \in Start + 1 .. End THEN gen.terms[p - Start] ELSE store[l][p]]
           terms == Attended(store'[l], Start, Len(gen.terms))
<1>1. /\ gen.at = "forward" /\ l < LayerCount /\ WriteLayer(l, gen.terms)
      /\ gen' = [gen EXCEPT !.layer = l + 1, !.terms = terms] /\ UNCHANGED ambient
  BY DEF ForwardBlock
<1>2. /\ gen.mode = "cached" /\ 1 \in Active /\ DOMAIN gen.rows = {1}
      /\ (gen.prompt + gen.limit - 1 <= MaxSeqLen \/ gen.limit <= 1)
      /\ transaction.active /\ n \in Nat \ {0} /\ kvPosition \in Nat
      /\ End = Len(W) /\ Len(W) \in 1 .. MaxSeqLen
      /\ Start = kvPosition /\ End = kvPosition + n
      /\ transaction.written = 0 .. l - 1 /\ l \in 0 .. LayerCount
      /\ HoldsAll(W, kvPosition)
      /\ \A k \in 0 .. l - 1 : Holds(W, k, End)
      /\ gen.terms = [i \in 1 .. n |-> L[l][Start + i]]
  BY <1>1, ForwardState
<1>3. /\ store' = [store EXCEPT ![l] = block]
      /\ transaction' = [transaction EXCEPT !.written = @ \cup {l}]
      /\ UNCHANGED kvPosition
  BY <1>1 DEF WriteLayer
<1>4. l \in 0 .. LayerCount - 1 /\ l \in CacheLayers /\ DOMAIN store = CacheLayers
  BY <1>1, <1>2, LayersAreFinite DEF GenInv, StoreOK
<1>5. L[l + 1] = Attended(L[l], 0, Len(W))
  BY <1>4, LayerTermsAre
<1>6. store'[l] = block /\ \A k \in CacheLayers : k # l => store'[k] = store[k]
  <2> HIDE DEF block, l
  <2> QED BY <1>3, <1>4
<1>7. \A p \in 1 .. End : block[p] = L[l][p]
  <2> TAKE p \in 1 .. End
  <2>1. p \in CachePositions /\ p \in Nat
    BY <1>2
  <2>2. CASE p <= kvPosition
    <3>1. p \in 1 .. kvPosition /\ ~(p \in Start + 1 .. End)
      BY <1>2, <2>1, <2>2
    <3>2. store[l][p] = L[l][p]
      BY <1>2, <1>4, <3>1 DEF HoldsAll, Holds
    <3> QED BY <2>1, <3>1, <3>2
  <2>3. CASE p > kvPosition
    <3>1. p \in Start + 1 .. End /\ p - Start \in 1 .. n /\ Start + (p - Start) = p
      BY <1>2, <2>1, <2>3
    <3>2. gen.terms[p - Start] = L[l][Start + (p - Start)]
      BY <1>2, <3>1
    <3> QED BY <2>1, <3>1, <3>2
  <2> QED BY <1>2, <2>1, <2>2, <2>3
<1>8. terms = [i \in 1 .. n |-> L[l + 1][Start + i]]
  <2>1. Len(gen.terms) = n
    <3> HIDE DEF L, l
    <3> QED BY <1>2
  <2>2. terms = [i \in 1 .. n |-> KeysUpTo(block, Start + i)]
    BY <1>6, <2>1 DEF Attended
  <2>3. ASSUME NEW i \in 1 .. n PROVE KeysUpTo(block, Start + i) = L[l + 1][Start + i]
    <3>1. Start + i \in 1 .. Len(W) /\ 1 .. Start + i \subseteq 1 .. End /\ 0 + (Start + i) = Start + i
      BY <1>2
    <3>2. L[l + 1][Start + i] = KeysUpTo(L[l], 0 + (Start + i))
      BY <1>5, <3>1 DEF Attended
    <3>3. \A p \in 1 .. Start + i : block[p] = L[l][p]
      BY <1>7, <3>1
    <3> HIDE DEF block, L
    <3>4. KeysUpTo(block, Start + i) = KeysUpTo(L[l], Start + i)
      BY <3>3 DEF KeysUpTo
    <3> QED BY <3>1, <3>2, <3>4
  <2> HIDE DEF terms, block, L
  <2> QED BY <2>2, <2>3
<1> HIDE DEF terms, block
<1>9. /\ SameRows /\ gen'.at = "forward" /\ gen'.layer = l + 1 /\ gen'.terms = terms
      /\ GenShape'
  <2>1. /\ SameRows /\ gen'.at = "forward" /\ gen'.layer = l + 1 /\ gen'.saved = gen.saved
        /\ gen'.terms = terms
    BY <1>1 DEF GenInv, GenShape, SameRows
  <2>2. l + 1 \in 0 .. LayerCount
    BY <1>4, LayersAreFinite
  <2>3. GenShape'
    BY <1>1, <1>2, <2>1, <2>2 DEF GenInv, GenShape
  <2> QED BY <2>1, <2>3
<1>10. RowsOK' /\ Active' = Active /\ Window' = W
  <2>1. gen.step < gen.limit
    BY <1>1 DEF GenInv, RowsOK
  <2> QED BY <1>1, <1>9, <2>1, SameRowsKeeps
<1>11. StoreOK'
  <2>1. DOMAIN store' = CacheLayers
    BY <1>3, <1>4
  <2>2. transaction' = [active |-> TRUE, count |-> n, written |-> transaction.written \cup {l}]
    BY <1>2, <1>3 DEF GenInv, StoreOK
  <2>3. /\ kvPosition' \in 0 .. CacheCapacity /\ n \in 0 .. CacheCapacity
        /\ transaction.written \cup {l} \in SUBSET CacheLayers
    BY <1>3, <1>4 DEF GenInv, StoreOK
  <2> QED BY <1>9, <2>1, <2>2, <2>3 DEF StoreOK
<1>12. CachedOK'
  <2>1. /\ transaction'.active /\ transaction'.count = n
        /\ transaction'.written = transaction.written \cup {l}
    BY <1>2, <1>3 DEF GenInv, StoreOK
  <2>2. transaction'.written = 0 .. gen'.layer - 1
    <3>1. (0 .. l - 1) \cup {l} = 0 .. (l + 1) - 1
      BY <1>4, LayersAreFinite
    <3> QED BY <1>2, <1>9, <2>1, <3>1
  <2>3. End' = End /\ Start' = Start /\ kvPosition' = kvPosition
    BY <1>2, <1>3, <2>1 DEF End, Start
  <2>4. \A k \in 0 .. l : Holds(W, k, End)'
    <3> TAKE k \in 0 .. l
    <3>1. k \in CacheLayers
      BY <1>4, LayersAreFinite
    <3>2. CASE k = l
      BY <1>6, <1>7, <1>10, <2>3, <3>2 DEF Holds
    <3>3. CASE k # l
      <4>1. k \in 0 .. l - 1
        BY <1>4, <3>3, LayersAreFinite
      <4>2. Holds(W, k, End) /\ store'[k] = store[k]
        BY <1>2, <1>6, <3>1, <3>3, <4>1
      <4> QED BY <1>10, <2>3, <4>2 DEF Holds
    <3> QED BY <3>2, <3>3
  <2>5. HoldsAll(W, kvPosition)'
    <3> SUFFICES ASSUME NEW k \in CacheLayers PROVE Holds(W, k, kvPosition)'
      BY DEF HoldsAll
    <3>1. CASE k = l
      <4>1. \A p \in 1 .. kvPosition : p \in 1 .. End
        BY <1>2
      <4> QED BY <1>6, <1>7, <1>10, <2>3, <3>1, <4>1 DEF Holds
    <3>2. CASE k # l
      <4>1. Holds(W, k, kvPosition) /\ store'[k] = store[k]
        BY <1>2, <1>6, <3>2 DEF HoldsAll
      <4> QED BY <1>10, <2>3, <4>1 DEF Holds
    <3> QED BY <3>1, <3>2
  <2>6. gen'.terms = [i \in 1 .. transaction'.count |-> LayerTerms(Window')[gen'.layer][Start' + i]]
    BY <1>8, <1>9, <1>10, <2>1, <2>3
  <2>7. \A k \in 0 .. gen'.layer - 1 : Holds(Window, k, End)'
    <3>1. 0 .. gen'.layer - 1 = 0 .. l
      BY <1>4, <1>9, LayersAreFinite
    <3> QED BY <1>10, <2>4, <3>1
  <2>8. DOMAIN gen'.rows = {1} /\ (gen'.prompt + gen'.limit - 1 <= MaxSeqLen \/ gen'.limit <= 1)
    BY <1>2, <1>9 DEF SameRows
  <2>9. transaction'.count > 0 /\ End' = Len(Window')
    <3>1. transaction'.count > 0
      BY <1>2, <2>1
    <3>2. End' = Len(Window')
      BY <1>2, <1>10, <2>3
    <3> QED BY <3>1, <3>2
  <2> QED BY <1>2, <1>9, <1>10, <2>1, <2>2, <2>5, <2>6, <2>7, <2>8, <2>9 DEF CachedOK
<1>13. NaiveOK'
  BY <1>9 DEF NaiveOK
<1> QED BY <1>9, <1>10, <1>11, <1>12, <1>13 DEF GenInv

\* The request has its final term, the cache every position of its context.
LEMMA CommitForwardKeeps == ASSUME GenInv, CommitForward PROVE GenInv'
<1> DEFINE W == Window
           L == LayerTerms(Window)
           n == transaction.count
           final == <<Last(gen.terms)>>
<1>1. /\ gen.at = "forward" /\ gen.layer = LayerCount /\ Commit
      /\ gen' = [gen EXCEPT !.at = "sample", !.final = final, !.terms = <<>>]
      /\ UNCHANGED ambient
  BY DEF CommitForward
<1>2. /\ gen.mode = "cached" /\ 1 \in Active /\ DOMAIN gen.rows = {1}
      /\ (gen.prompt + gen.limit - 1 <= MaxSeqLen \/ gen.limit <= 1)
      /\ n \in Nat \ {0} /\ kvPosition \in Nat
      /\ End = Len(W) /\ Len(W) \in 1 .. MaxSeqLen
      /\ Start = kvPosition /\ End = kvPosition + n
      /\ \A l \in 0 .. LayerCount - 1 : Holds(W, l, End)
      /\ gen.terms = [i \in 1 .. n |-> L[LayerCount][Start + i]]
  BY <1>1, ForwardState
<1>3. kvPosition' = Len(W) /\ transaction' = NoTransaction /\ store' = store
  BY <1>1, <1>2 DEF Commit
<1>4. final = <<FullForward(W)>>
  <2> HIDE DEF L
  <2>1. Len(gen.terms) = n
    BY <1>2
  <2>2. n \in 1 .. n /\ Start + n = Len(W)
    BY <1>2
  <2>3. Last(gen.terms) = L[LayerCount][Len(W)]
    BY <1>2, <2>1, <2>2 DEF Last
  <2> QED BY <2>3 DEF FullForward, L
<1> HIDE DEF final
<1>5. SameRows /\ gen'.at = "sample" /\ gen'.final = final /\ GenShape'
  <2>1. /\ SameRows /\ gen'.at = "sample" /\ gen'.final = final /\ gen'.saved = gen.saved
    BY <1>1 DEF GenInv, GenShape, SameRows
  <2>2. GenShape'
    BY <1>1, <2>1 DEF GenInv, GenShape
  <2> QED BY <2>1, <2>2
<1>6. RowsOK' /\ Active' = Active /\ Window' = W /\ ActiveIndices' = ActiveIndices
  <2>1. gen.step < gen.limit
    BY <1>1 DEF GenInv, RowsOK
  <2> QED BY <1>1, <1>5, <2>1, SameRowsKeeps
<1>7. StoreOK'
  <2>1. Len(W) \in 0 .. CacheCapacity
    BY <1>2
  <2> QED BY <1>3, <1>5, <2>1 DEF GenInv, StoreOK, NoTransaction
<1>8. CachedOK'
  <2>1. HoldsAll(W, kvPosition)'
    <3> SUFFICES ASSUME NEW l \in CacheLayers PROVE Holds(W, l, kvPosition)'
      BY DEF HoldsAll
    <3>1. Holds(W, l, End) /\ kvPosition' = End
      BY <1>2, <1>3, LayersAreFinite
    <3> QED BY <1>3, <1>6, <3>1 DEF Holds
  <2>2. DOMAIN gen'.rows = {1} /\ (gen'.prompt + gen'.limit - 1 <= MaxSeqLen \/ gen'.limit <= 1)
    BY <1>2, <1>5 DEF SameRows
  <2>3. gen'.final = <<FullForward(Window')>>
    BY <1>4, <1>5, <1>6
  <2>4. HoldsAll(Window, kvPosition)' /\ kvPosition' = Len(Window')
    BY <1>3, <1>6, <2>1
  <2> QED BY <1>2, <1>5, <1>6, <2>2, <2>3, <2>4 DEF CachedOK
<1>9. NaiveOK'
  <2>1. Active = {1}
    BY <1>1, <1>2, CachedRow
  <2>2. DOMAIN ActiveIndices = {1} /\ ActiveIndices[1] = 1
    BY <1>1, <2>1, OneActive
  <2>3. gen'.final[1] = FullForward(W)
    BY <1>4, <1>5
  <2>4. LastOf(gen'.rows[1], MaxSeqLen) = W
    BY <1>5 DEF SameRows, Window
  <2> QED BY <1>6, <2>2, <2>3, <2>4 DEF NaiveOK
<1> QED BY <1>5, <1>6, <1>7, <1>8, <1>9 DEF GenInv

\* A forward that ends by an exception, with its transaction or without.
LEMMA ForwardEndsKeeps ==
  ASSUME GenInv, ForwardFails \/ ForwardInterrupted
  PROVE  GenInv'
<1>1. /\ gen.at = "forward" /\ gen' = [gen EXCEPT !.at = "close"] /\ UNCHANGED ambient
      /\ UNCHANGED <<store, kvPosition>>
      /\ (transaction' = NoTransaction \/ transaction' = transaction)
  BY DEF ForwardFails, ForwardInterrupted, RollBack, kvVars
<1>2. SameRows /\ gen'.at = "close" /\ GenShape'
  BY <1>1 DEF GenInv, GenShape, SameRows
<1>3. RowsOK'
  BY <1>1, <1>2, SameRowsKeeps
<1>4. StoreOK'
  <2>1. NoTransaction \in [active : BOOLEAN, count : 0 .. CacheCapacity, written : SUBSET CacheLayers]
    BY DEF NoTransaction
  <2>2. ~NoTransaction.active
    BY DEF NoTransaction
  <2> QED BY <1>1, <1>2, <2>1, <2>2 DEF GenInv, StoreOK
<1>5. CachedOK' /\ NaiveOK'
  BY <1>2 DEF CachedOK, NaiveOK
<1> QED BY <1>2, <1>3, <1>4, <1>5 DEF GenInv

LEMMA CloseEarlyKeeps == ASSUME GenInv, CloseEarly \/ Complete PROVE GenInv'
<1>1. /\ gen.at \in {"yield", "context"} /\ gen' = [gen EXCEPT !.at = "close"]
      /\ UNCHANGED <<ambient, store, kvPosition, transaction>>
  BY DEF CloseEarly, Complete, kvVars
<1>2. SameRows /\ gen'.at = "close" /\ GenShape'
  BY <1>1 DEF GenInv, GenShape, SameRows
<1>3. RowsOK'
  BY <1>1, <1>2, SameRowsKeeps
<1>4. StoreOK'
  BY <1>1, <1>2 DEF GenInv, StoreOK
<1>5. CachedOK' /\ NaiveOK'
  BY <1>2 DEF CachedOK, NaiveOK
<1> QED BY <1>2, <1>3, <1>4, <1>5 DEF GenInv

\* The next step has all a yielded one had.
LEMMA ResumeKeeps == ASSUME GenInv, NEW draws \in BOOLEAN, Resume(draws) PROVE GenInv'
<1>1. /\ gen.at = "yield" /\ gen' = [gen EXCEPT !.at = "context"]
      /\ ambient' = [ambient EXCEPT !.random = IF draws THEN 1 ELSE @]
      /\ UNCHANGED <<store, kvPosition, transaction>>
  BY DEF Resume, kvVars
<1>2. SameRows /\ gen'.at = "context" /\ GenShape'
  <2>1. ambient' \in [training : BOOLEAN, random : {0, 1}]
    BY <1>1 DEF GenInv, GenShape
  <2> QED BY <1>1, <2>1 DEF GenInv, GenShape, SameRows
<1>3. RowsOK' /\ Active' = Active
  BY <1>1, <1>2, SameRowsKeeps
<1>4. StoreOK'
  BY <1>1, <1>2 DEF GenInv, StoreOK
<1>5. CachedOK'
  <2>1. gen.step > 0
    BY <1>1 DEF GenInv, GenShape
  <2>2. \A context : \A k : HoldsAll(context, k) <=> HoldsAll(context, k)'
    BY <1>1 DEF HoldsAll, Holds
  <2> SUFFICES ASSUME gen.mode = "cached" PROVE CachedOK'
    BY <1>2 DEF CachedOK, SameRows
  <2>3. /\ DOMAIN gen.rows = {1}
        /\ (gen.prompt + gen.limit - 1 <= MaxSeqLen \/ gen.limit <= 1)
        /\ gen.step < gen.limit /\ 1 \in Active =>
             /\ kvPosition = Len(gen.rows[1]) - 1
             /\ HoldsAll(gen.rows[1], kvPosition)
    BY <1>1, <2>1 DEF GenInv, CachedOK
  <2>4. gen.step < gen.limit /\ 1 \in Active =>
          /\ kvPosition' = Len(gen'.rows[1]) - 1
          /\ HoldsAll(gen.rows[1], kvPosition)'
    BY <1>1, <1>2, <2>3 DEF SameRows, HoldsAll, Holds
  <2>5. gen'.step # 0
    BY <1>2, <2>1 DEF SameRows, GenInv, GenShape
  <2> QED BY <1>2, <1>3, <2>3, <2>4, <2>5 DEF CachedOK, SameRows
<1>6. NaiveOK'
  BY <1>2 DEF NaiveOK
<1> QED BY <1>2, <1>3, <1>4, <1>5, <1>6 DEF GenInv

\* The caller has its modes and generators back.
LEMMA CloseKeeps == ASSUME GenInv, Close PROVE GenInv'
<1>1. /\ gen.at = "close" /\ ambient' = gen.saved /\ gen' = NoRequest
      /\ (UNCHANGED <<store, kvPosition, transaction>>
           \/ (kvPosition' = 0 /\ UNCHANGED <<store, transaction>>))
  BY DEF Close, ResetCache, kvVars
<1>2. GenShape'
  <2>1. ambient' \in [training : BOOLEAN, random : {0}]
    BY <1>1 DEF GenInv, GenShape
  <2> QED BY <1>1, <2>1, LayersAreFinite DEF GenShape, NoRequest
<1>3. RowsOK' /\ CachedOK' /\ NaiveOK'
  BY <1>1 DEF RowsOK, CachedOK, NaiveOK, NoRequest
<1>4. StoreOK'
  <2>1. kvPosition' \in 0 .. CacheCapacity
    BY <1>1 DEF GenInv, StoreOK
  <2> QED BY <1>1, <2>1 DEF GenInv, StoreOK, NoRequest
<1> QED BY <1>2, <1>3, <1>4 DEF GenInv

\* A token for each active row: the rows that go on have one more.
LEMMA SampleKeeps ==
  ASSUME GenInv, NEW tokens \in [DOMAIN ActiveIndices -> GenTokens], Sample(tokens)
  PROVE  GenInv'
<1> DEFINE D == DOMAIN gen.rows
           rank(i) == CHOOSE k \in DOMAIN ActiveIndices : ActiveIndices[k] = i
           token(i) == tokens[rank(i)]
           goes(i) == i \in Active /\ token(i) \notin GenStops
           sampled == [i \in DOMAIN gen.sampled |->
                         IF i \in Active THEN gen.sampled[i] + 1 ELSE gen.sampled[i]]
           drawn == [i \in DOMAIN gen.drawn |->
                       IF i \in Active THEN gen.drawn[i] + 1 ELSE gen.drawn[i]]
           stopped == [i \in DOMAIN gen.stopped |->
                         IF i \in Active /\ ~(token(i) \notin GenStops) THEN token(i)
                         ELSE gen.stopped[i]]
           rows == [i \in D |-> IF goes(i) THEN Append(gen.rows[i], token(i)) ELSE gen.rows[i]]
<1>1. /\ gen.at = "sample" /\ UNCHANGED <<ambient, store, kvPosition, transaction>>
      /\ gen' = [gen EXCEPT !.at = "yield", !.step = gen.step + 1, !.final = <<>>,
                   !.sampled = sampled, !.drawn = drawn, !.stopped = stopped, !.rows = rows]
  BY DEF Sample, kvVars
<1>2. \A i \in Active : token(i) \in GenTokens
  <2> TAKE i \in Active
  <2>1. \E k \in DOMAIN ActiveIndices : ActiveIndices[k] = i
    BY <1>1, ActiveListed
  <2>2. rank(i) \in DOMAIN ActiveIndices
    BY <2>1
  <2> QED BY <2>2
<1> HIDE DEF token
<1>3. /\ gen.rows \in Rows /\ gen.stopped \in [D -> GenTokens \cup {Junk}]
      /\ gen.sampled \in [D -> Nat] /\ gen.drawn \in [D -> Nat]
      /\ gen.step < gen.limit /\ gen.step \in Nat /\ gen.limit \in Nat /\ gen.prompt \in Nat \ {0}
      /\ \A i \in D :
           /\ gen.drawn[i] = gen.sampled[i] /\ gen.sampled[i] <= gen.step
           /\ i \in Active => gen.sampled[i] = gen.step
           /\ i \notin Active => gen.sampled[i] > 0
           /\ Len(gen.rows[i]) = gen.prompt + gen.sampled[i] - (IF i \in Active THEN 0 ELSE 1)
      /\ Active \subseteq D /\ \A i \in D : gen.rows[i] \in Seq(GenTokens)
  BY <1>1, RowsShape DEF GenInv, RowsOK, GenShape
<1>4. \A i \in D :
        /\ sampled[i] = IF i \in Active THEN gen.sampled[i] + 1 ELSE gen.sampled[i]
        /\ drawn[i] = IF i \in Active THEN gen.drawn[i] + 1 ELSE gen.drawn[i]
        /\ stopped[i] = IF i \in Active /\ token(i) \in GenStops THEN token(i) ELSE gen.stopped[i]
        /\ rows[i] = IF goes(i) THEN Append(gen.rows[i], token(i)) ELSE gen.rows[i]
  BY <1>3
<1>5. sampled \in [D -> Nat] /\ drawn \in [D -> Nat] /\ stopped \in [D -> GenTokens \cup {Junk}]
  BY <1>2, <1>3
<1>6. rows \in Rows /\ DOMAIN rows = D
  <2>1. PICK n \in Nat \ {0} : gen.rows \in [1 .. n -> Seq(GenTokens)]
    BY <1>3 DEF Rows
  <2>2. D = 1 .. n
    BY <2>1
  <2>3. \A i \in D : rows[i] \in Seq(GenTokens)
    BY <1>2, <1>3, <1>4
  <2>4. rows \in [1 .. n -> Seq(GenTokens)]
    BY <2>2, <2>3
  <2> HIDE DEF rows
  <2> QED BY <2>2, <2>4 DEF Rows
<1> HIDE DEF sampled, drawn, stopped, rows
<1>7. /\ gen'.at = "yield" /\ gen'.step = gen.step + 1 /\ gen'.sampled = sampled
      /\ gen'.drawn = drawn /\ gen'.stopped = stopped /\ gen'.rows = rows
      /\ gen'.limit = gen.limit /\ gen'.prompt = gen.prompt /\ gen'.mode = gen.mode
      /\ gen'.saved = gen.saved /\ GenShape'
  <2>1. gen.step + 1 \in Nat /\ gen.step + 1 > 0
    BY <1>3
  <2> QED BY <1>1, <2>1 DEF GenInv, GenShape
<1>8. Active' = {i \in D : goes(i)}
  <2>1. \A i \in D : stopped[i] = Junk <=> goes(i)
    <3> TAKE i \in D
    <3>1. i \in Active <=> gen.stopped[i] = Junk
      BY DEF Active
    <3>2. i \in Active => token(i) # Junk
      BY <1>2
    <3> QED BY <1>4, <3>1, <3>2
  <2> HIDE DEF goes
  <2> QED BY <1>6, <1>7, <2>1 DEF Active
<1>9. RowsOK'
  <2>1. ASSUME NEW i \in D
        PROVE  /\ drawn[i] = sampled[i] /\ sampled[i] <= gen.step + 1
               /\ goes(i) => sampled[i] = gen.step + 1
               /\ ~goes(i) => sampled[i] > 0
               /\ Len(rows[i]) = gen.prompt + sampled[i] - (IF goes(i) THEN 0 ELSE 1)
    <3>1. gen.sampled[i] \in Nat /\ gen.drawn[i] \in Nat /\ gen.rows[i] \in Seq(GenTokens)
      BY <1>3
    <3>2. CASE i \in Active
      <4>1. /\ gen.sampled[i] = gen.step /\ gen.drawn[i] = gen.step
            /\ Len(gen.rows[i]) = gen.prompt + gen.step
        BY <1>3, <3>1, <3>2
      <4>2. sampled[i] = gen.step + 1 /\ drawn[i] = gen.step + 1
        BY <1>4, <3>2, <4>1
      <4>3. CASE goes(i)
        <5>1. Len(rows[i]) = gen.prompt + gen.step + 1
          <6>1. token(i) \in GenTokens /\ rows[i] = Append(gen.rows[i], token(i))
            BY <1>2, <1>4, <3>2, <4>3
          <6>2. Len(rows[i]) = Len(gen.rows[i]) + 1
            BY <3>1, <6>1, AppendProperties
          <6> QED BY <4>1, <6>2
        <5>2. gen.prompt + gen.step + 1 = gen.prompt + (gen.step + 1) - 0 /\ gen.step + 1 <= gen.step + 1
          BY <1>3
        <5> QED BY <4>2, <4>3, <5>1, <5>2
      <4>4. CASE ~goes(i)
        <5>1. Len(rows[i]) = gen.prompt + gen.step
          BY <1>4, <4>1, <4>4
        <5>2. /\ gen.prompt + gen.step = gen.prompt + (gen.step + 1) - 1
              /\ gen.step + 1 <= gen.step + 1 /\ gen.step + 1 > 0
          BY <1>3
        <5> QED BY <4>2, <4>4, <5>1, <5>2
      <4> QED BY <4>3, <4>4
    <3>3. CASE i \notin Active
      <4>1. sampled[i] = gen.sampled[i] /\ drawn[i] = gen.drawn[i] /\ rows[i] = gen.rows[i]
        BY <1>4, <3>3
      <4> QED BY <1>3, <3>1, <3>3, <4>1
    <3> QED BY <3>2, <3>3
  <2>2. \A i \in D : i \in Active' <=> goes(i)
    BY <1>8
  <2>3. gen.step + 1 <= gen.limit /\ gen.step + 1 \in Nat
    BY <1>3
  <2> HIDE DEF goes
  <2>4. /\ gen'.rows \in Rows /\ gen'.stopped \in [D -> GenTokens \cup {Junk}]
        /\ gen'.sampled \in [D -> Nat] /\ gen'.drawn \in [D -> Nat]
        /\ gen'.step <= gen'.limit /\ gen'.prompt \in Nat \ {0} /\ DOMAIN gen'.rows = D
    BY <1>3, <1>5, <1>6, <1>7, <2>3
  <2>5. \A i \in D :
          /\ gen'.drawn[i] = gen'.sampled[i] /\ gen'.sampled[i] <= gen'.step
          /\ i \in Active' => gen'.sampled[i] = gen'.step
          /\ i \notin Active' => gen'.sampled[i] > 0
          /\ Len(gen'.rows[i]) = gen'.prompt + gen'.sampled[i] - (IF i \in Active' THEN 0 ELSE 1)
    BY <1>7, <2>1, <2>2
  <2> QED BY <1>7, <2>4, <2>5 DEF RowsOK
<1>10. StoreOK'
  BY <1>1, <1>7 DEF GenInv, StoreOK
<1>11. CachedOK'
  <2> SUFFICES ASSUME gen.mode = "cached" PROVE CachedOK'
    BY <1>7 DEF CachedOK
  <2> DEFINE row == gen.rows[1]
  <2>1. /\ D = {1} /\ 1 \in Active
        /\ (gen.prompt + gen.limit - 1 <= MaxSeqLen \/ gen.limit <= 1)
        /\ kvPosition = Len(Window) /\ HoldsAll(Window, kvPosition)
    BY <1>1 DEF GenInv, CachedOK
  <2>2. /\ row \in Seq(GenTokens) /\ Len(row) \in Nat \ {0}
        /\ Len(row) = gen.prompt + gen.step
        /\ Len(row) <= MaxSeqLen => Window = row
    BY <1>1, <2>1, CachedRow
  <2>3. ASSUME gen.step + 1 < gen.limit, goes(1)
        PROVE  /\ kvPosition' = Len(rows[1]) - 1
               /\ \A l \in CacheLayers : \A p \in 1 .. kvPosition' :
                    store'[l][p] = LayerTerms(rows[1])[l][p]
    <3>1. Len(row) <= MaxSeqLen
      BY SMTT(30), <1>3, <2>1, <2>2, <2>3
    <3>2. Window = row /\ kvPosition = Len(row)
      BY <2>1, <2>2, <3>1
    <3> DEFINE longer == Append(row, token(1))
    <3>3. token(1) \in GenTokens /\ rows[1] = longer
      BY <1>2, <1>4, <2>1, <2>3
    <3>4. /\ longer \in Seq(GenTokens) /\ Len(longer) = Len(row) + 1
          /\ \A p \in 1 .. Len(row) : longer[p] = row[p]
      BY <2>2, <3>3, AppendProperties
    <3> HIDE DEF longer
    <3>5. /\ DOMAIN longer = 1 .. Len(longer) /\ DOMAIN row = 1 .. Len(row)
          /\ Len(row) \in Nat /\ Len(longer) \in Nat /\ Len(row) <= Len(longer)
      BY <2>2, <3>4
    <3> HIDE DEF row
    <3>5a. \A p \in 1 .. Len(row) : longer[p] = row[p]
      BY <3>4
    <3>6. \A l \in 0 .. LayerCount : \A p \in 1 .. Len(row) :
            LayerTerms(longer)[l][p] = LayerTerms(row)[l][p]
      BY <3>5, <3>5a, LayersAreCausal
    <3>7. ASSUME NEW l \in CacheLayers, NEW p \in 1 .. kvPosition
          PROVE  store[l][p] = LayerTerms(longer)[l][p]
      <4>1. store[l][p] = LayerTerms(Window)[l][p]
        BY <2>1 DEF HoldsAll, Holds
      <4>2. l \in 0 .. LayerCount /\ p \in 1 .. Len(row)
        BY <3>2, LayersAreFinite
      <4> QED BY <3>2, <3>6, <4>1, <4>2
    <3>8. kvPosition' = kvPosition /\ store' = store
      BY <1>1
    <3>9. kvPosition = Len(longer) - 1
      BY <3>2, <3>4, <3>5
    <3> QED BY <3>3, <3>7, <3>8, <3>9
  <2>4. 1 \in Active' <=> goes(1)
    BY <1>8, <2>1
  <2> HIDE DEF goes
  <2>5. /\ DOMAIN gen'.rows = {1}
        /\ (gen'.prompt + gen'.limit - 1 <= MaxSeqLen \/ gen'.limit <= 1)
    BY <1>6, <1>7, <2>1
  <2>6. gen'.step < gen'.limit /\ 1 \in Active' =>
          kvPosition' = Len(gen'.rows[1]) - 1 /\ HoldsAll(gen.rows[1], kvPosition)'
    BY <1>7, <2>3, <2>4 DEF HoldsAll, Holds
  <2> QED BY <1>7, <2>5, <2>6 DEF CachedOK
<1>12. NaiveOK'
  BY <1>7 DEF NaiveOK
<1> QED BY <1>7, <1>9, <1>10, <1>11, <1>12 DEF GenInv

LEMMA GenInvStep == GenInv /\ [GenerationNext]_generationVars => GenInv'
<1> SUFFICES ASSUME GenInv, [GenerationNext]_generationVars PROVE GenInv'
  OBVIOUS
<1>1. CASE UNCHANGED generationVars
  <2>1. /\ gen' = gen /\ ambient' = ambient /\ store' = store /\ kvPosition' = kvPosition
        /\ transaction' = transaction
    BY <1>1 DEF generationVars, kvVars
  <2>2. Active' = Active /\ ActiveIndices' = ActiveIndices /\ Window' = Window
    BY <2>1 DEF Active, ActiveIndices, Window
  <2>3. GenShape' /\ RowsOK' /\ StoreOK' /\ NaiveOK'
    BY <2>1, <2>2 DEF GenInv, GenShape, RowsOK, StoreOK, NaiveOK
  <2>4. CachedOK'
    BY <2>1, <2>2 DEF GenInv, CachedOK, HoldsAll, Holds, Start, End
  <2> QED BY <2>3, <2>4 DEF GenInv
<1>2. ASSUME NEW mode \in {"naive", "cached"}, NEW prompts \in Batches,
             NEW limit \in 1 .. MaxNewTokens,
             \A p \in ToSet(prompts) : Len(p) = Len(prompts[1]), Open(mode, prompts, limit)
      PROVE  GenInv'
  BY <1>2, OpenKeeps
<1>3. CASE NaiveForward
  BY <1>3, NaiveForwardKeeps
<1>4. CASE BeginCachedForward
  BY <1>4, BeginCachedForwardKeeps
<1>5. CASE ForwardBlock
  BY <1>5, ForwardBlockKeeps
<1>6. CASE CommitForward
  BY <1>6, CommitForwardKeeps
<1>7. CASE ForwardFails \/ ForwardInterrupted
  BY <1>7, ForwardEndsKeeps
<1>8. ASSUME NEW tokens \in [DOMAIN ActiveIndices -> GenTokens], Sample(tokens) PROVE GenInv'
  BY <1>8, SampleKeeps
<1>9. ASSUME NEW draws \in BOOLEAN, Resume(draws) PROVE GenInv'
  BY <1>9, ResumeKeeps
<1>10. CASE CloseEarly \/ Complete
  BY <1>10, CloseEarlyKeeps
<1>11. CASE Close
  BY <1>11, CloseKeeps
<1> QED BY <1>1, <1>2, <1>3, <1>4, <1>5, <1>6, <1>7, <1>8, <1>9, <1>10, <1>11 DEF GenerationNext

\* The invariant of generation holds in every state generate_batch can reach.
LEMMA GenInvAlways == GenerationSpec => []GenInv
  BY GenInvInit, GenInvStep, PTL DEF GenerationSpec

LEMMA GenInvIsExact == GenInv => GenerationIsExact
<1> SUFFICES ASSUME GenInv PROVE GenerationIsExact
  OBVIOUS
<1>1. gen.at = "sample" =>
        \A k \in DOMAIN ActiveIndices :
          gen.final[k] = FullForward(LastOf(gen.rows[ActiveIndices[k]], MaxSeqLen))
  BY DEF GenInv, NaiveOK
<1>2. ASSUME NEW i \in DOMAIN gen.rows
      PROVE  /\ gen.drawn[i] = gen.sampled[i] /\ gen.sampled[i] <= gen.limit
             /\ Len(gen.rows[i]) - gen.prompt
                  = gen.sampled[i] - (IF gen.stopped[i] = Junk THEN 0 ELSE 1)
  <2>1. gen.at # "idle"
    BY DEF GenInv, GenShape, NoRequest
  <2>2. /\ gen.sampled[i] \in Nat /\ gen.prompt \in Nat /\ gen.step \in Nat /\ gen.limit \in Nat
        /\ gen.step <= gen.limit
    BY <2>1 DEF GenInv, RowsOK, GenShape
  <2>3. /\ gen.drawn[i] = gen.sampled[i] /\ gen.sampled[i] <= gen.step
        /\ Len(gen.rows[i]) = gen.prompt + gen.sampled[i] - (IF gen.stopped[i] = Junk THEN 0 ELSE 1)
    BY DEF GenInv, RowsOK, Active
  <2> QED BY <2>2, <2>3
<1>3. gen.at = "idle" => ambient.random = 0
  BY DEF GenInv, GenShape
<1> QED BY <1>1, <1>2, <1>3 DEF GenerationIsExact

\* Whatever the requests, the cached path samples from the logits a forward pass over the
\* whole row would give, each row's generator is drawn from exactly once per token of that
\* row, and the ambient generator is left as it was found (inference/generation.py).
THEOREM GenerationIsExactHolds == GenerationSpec => []GenerationIsExact
  BY GenInvAlways, GenInvIsExact, PTL

(***************************************************************************)
(* The cache, for any client: its types and that it implements CacheLog.   *)
(* The argument: below the committed position no transaction writes, and   *)
(* while one is active the storage behind it holds, for every layer it has *)
(* written, exactly its entries.                                           *)
(***************************************************************************)
USE DEF NoTransaction

\* An active transaction has at least one token.
KVInv == KVTypeOK /\ (transaction.active => transaction.count > 0)


-----------------------------------------------------------------------------
\* Types, with the sizes of transactions that begin allows.
LEMMA KVInvInit == KVInit => KVInv
  BY DEF KVInit, KVInv, KVTypeOK, Uninitialized, End

LEMMA KVInvStep == KVInv /\ [KVNext]_kvVars => KVInv'
<1> SUFFICES ASSUME KVInv, [KVNext]_kvVars PROVE KVInv'
  OBVIOUS
<1> USE DEF KVInv, KVTypeOK, Start, End
<1>1. ASSUME NEW count \in CachePositions, BeginTransaction(count) PROVE KVInv'
  BY <1>1 DEF BeginTransaction
<1>2. ASSUME NEW l \in CacheLayers, NEW entries \in [1 .. transaction.count -> CacheEntries],
             WriteLayer(l, entries)
      PROVE  KVInv'
  <2>1. \A p \in CachePositions : p \in Start + 1 .. End => p - Start \in 1 .. transaction.count
    OBVIOUS
  <2>2. store' \in [CacheLayers -> [CachePositions -> CacheEntries \cup {Junk}]]
    BY <1>2, <2>1 DEF WriteLayer
  <2> QED BY <1>2, <2>2 DEF WriteLayer
<1>3. CASE RollBack
  BY <1>3 DEF RollBack
<1>4. CASE Commit
  BY <1>4 DEF Commit
<1>5. CASE ResetCache
  BY <1>5 DEF ResetCache
<1>6. CASE NewCache
  BY <1>6 DEF NewCache, Uninitialized
<1>7. CASE UNCHANGED kvVars
  BY <1>7 DEF kvVars
<1> QED BY <1>1, <1>2, <1>3, <1>4, <1>5, <1>6, <1>7 DEF KVNext

LEMMA KVInvAlways == KVSpec => []KVInv
  BY KVInvInit, KVInvStep, PTL DEF KVSpec

\* Whatever clients do with transactions, the storage has its shape, the
\* position stays within it, and a transaction fits behind the position.
THEOREM KVTypesHold == KVSpec => []KVTypeOK
<1>1. KVInv => KVTypeOK
  BY DEF KVInv
<1> QED BY <1>1, KVInvAlways, PTL

-----------------------------------------------------------------------------
\* What one position holds for all layers.
Cell == [CacheLayers -> CacheEntries \cup {Junk}]

\* The committed part is a sequence of cells as long as the position says.
CommittedShape ==
  /\ Committed \in Seq(Cell) /\ Len(Committed) = kvPosition
  /\ \A p \in 1 .. kvPosition : Committed[p] = [l \in CacheLayers |-> store[l][p]]
  /\ kvPosition = 0 => Committed = <<>>
LEMMA CommittedIsSeq == KVInv => CommittedShape
<1> SUFFICES ASSUME KVInv PROVE CommittedShape
  OBVIOUS
<1>1. Committed \in [1 .. kvPosition -> Cell] /\ kvPosition \in Nat
  BY DEF Committed, Cell, KVInv, KVTypeOK
<1>2. Committed \in Seq(Cell) /\ Len(Committed) = kvPosition
  BY <1>1
<1>3. kvPosition = 0 => Committed = <<>>
  BY <1>2, EmptySeq
<1> QED BY <1>2, <1>3 DEF Committed, CommittedShape

\* Nothing is pending outside a transaction.
LEMMA NothingPending == transaction.written = {} => Pending = <<>>
<1> SUFFICES ASSUME transaction.written = {} PROVE Pending = <<>>
  OBVIOUS
<1>1. Pending \in [1 .. 0 -> {}]
  BY DEF Pending
<1>2. Pending \in Seq({}) /\ Len(Pending) = 0
  BY <1>1
<1> QED BY <1>2, EmptySeq

\* Each step is one of the log, or leaves it alone.
LEMMA LogStep ==
  KVInv /\ KVInv' /\ [KVNext]_kvVars => [Log!LogNext]_<<Committed, Pending>>
<1> SUFFICES ASSUME KVInv, KVInv', [KVNext]_kvVars
             PROVE  [Log!LogNext]_<<Committed, Pending>>
  OBVIOUS
<1>0. (transaction.written = {} => Pending = <<>>)' /\ (KVInv => CommittedShape)'
  BY NothingPending, CommittedIsSeq, PTL
<1>7. transaction'.written = {} => Pending' = <<>>
  BY <1>0
<1>8. /\ Committed' \in Seq(Cell) /\ Len(Committed') = kvPosition'
      /\ \A p \in 1 .. kvPosition' : Committed'[p] = [l \in CacheLayers |-> store'[l][p]]
      /\ kvPosition' = 0 => Committed' = <<>>
  BY <1>0 DEF CommittedShape
<1>9. CommittedShape
  BY CommittedIsSeq
<1>1. ASSUME NEW count \in CachePositions, BeginTransaction(count)
      PROVE  UNCHANGED <<Committed, Pending>>
  <2>1. transaction.written = {} /\ transaction'.written = {}
    BY <1>1 DEF BeginTransaction, KVInv, KVTypeOK
  <2> QED BY <1>1, <2>1 DEF BeginTransaction, Committed, Pending
<1>2. ASSUME NEW l \in CacheLayers, NEW entries \in [1 .. transaction.count -> CacheEntries],
             WriteLayer(l, entries)
      PROVE  Log!Offer(l)
  <2>1. /\ transaction'.written = transaction.written \cup {l}
        /\ transaction'.count = transaction.count /\ kvPosition' = kvPosition
        /\ l \notin transaction.written
    BY <1>2 DEF WriteLayer, KVInv, KVTypeOK
  <2>2. \A k \in CacheLayers \ {l} : store'[k] = store[k]
    BY <1>2 DEF WriteLayer, KVInv, KVTypeOK
  <2>3. \A p \in 1 .. kvPosition : store'[l][p] = store[l][p]
    BY <1>2 DEF WriteLayer, KVInv, KVTypeOK, Start, End
  <2>4. Committed' = Committed
    BY <2>1, <2>2, <2>3 DEF Committed
  <2>5. /\ DOMAIN Pending = transaction.written
        /\ DOMAIN Pending' = DOMAIN Pending \cup {l}
    BY <2>1 DEF Pending
  <2>6. \A k \in DOMAIN Pending : Pending'[k] = Pending[k]
    BY <2>1, <2>2, <2>5 DEF Pending, Start, KVInv, KVTypeOK
  <2> QED BY <2>1, <2>4, <2>5, <2>6 DEF Log!Offer
<1>3. CASE RollBack
  <2>1. Committed' = Committed
    BY <1>3 DEF RollBack, Committed
  <2>2. transaction'.written = {}
    BY <1>3 DEF RollBack
  <2>3. Pending' = <<>>
    BY <1>7, <2>2
  <2> QED BY <2>1, <2>3 DEF Log!LogNext, Log!DropBlock
<1>4. CASE Commit
  <2> DEFINE count == transaction.count
  <2>1. /\ transaction.written = CacheLayers /\ count \in 1 .. CacheCapacity
        /\ kvPosition \in Nat /\ kvPosition + count <= CacheCapacity
        /\ kvPosition > 0 => count = 1
        /\ kvPosition' = kvPosition + count /\ store' = store /\ transaction'.written = {}
    BY <1>4 DEF Commit, KVInv, KVTypeOK, End
  <2>2. Pending' = <<>>
    BY <1>7, <2>1
  <2>3. /\ DOMAIN Pending = CacheLayers
        /\ \A l \in CacheLayers :
             /\ DOMAIN Pending[l] = 1 .. count
             /\ \A p \in 1 .. count : Pending[l][p] = store[l][kvPosition + p]
    BY <2>1 DEF Pending, Start
  <2>4. /\ Log!Block(count) \in Seq(Cell) /\ Len(Log!Block(count)) = count
        /\ \A p \in 1 .. count :
             Log!Block(count)[p] = [l \in CacheLayers |-> store[l][kvPosition + p]]
    <3>1. Log!Block(count) = [p \in 1 .. count |-> [l \in CacheLayers |-> store[l][kvPosition + p]]]
      BY <2>3 DEF Log!Block
    <3>2. Log!Block(count) \in [1 .. count -> Cell]
      BY <2>1, <3>1 DEF Cell, KVInv, KVTypeOK
    <3>3. Log!Block(count) \in Seq(Cell) /\ Len(Log!Block(count)) = count
      BY <2>1, <3>2
    <3> QED BY <3>1, <3>3
  <2>5. /\ Committed' \in Seq(Cell) /\ Len(Committed') = kvPosition + count
        /\ \A p \in 1 .. kvPosition + count :
             Committed'[p] = [l \in CacheLayers |-> store[l][p]]
    BY SMTT(30), <1>8, <2>1
  <2>6. Committed' = Committed \o Log!Block(count)
    <3> DEFINE block == Log!Block(count)
               joined == Committed \o block
               cell(p) == [l \in CacheLayers |-> store[l][p]]
    <3>1. /\ Committed \in Seq(Cell) /\ Len(Committed) = kvPosition
          /\ block \in Seq(Cell) /\ Len(block) = count
      BY <1>9, <2>4 DEF CommittedShape
    <3> HIDE DEF block
    <3>2. /\ joined \in Seq(Cell) /\ Len(joined) = Len(Committed) + Len(block)
          /\ \A p \in 1 .. Len(Committed) + Len(block) :
               joined[p] = IF p <= Len(Committed) THEN Committed[p] ELSE block[p - Len(Committed)]
      BY <3>1, ConcatProperties
    <3>3. /\ \A p \in 1 .. kvPosition : Committed[p] = cell(p)
          /\ \A p \in 1 .. count : block[p] = cell(kvPosition + p)
      BY <1>9, <2>4 DEF CommittedShape, block
    <3>0. \A p \in 1 .. kvPosition + count : Committed'[p] = cell(p)
      BY <2>5
    <3> HIDE DEF cell
    <3>4. ASSUME NEW p \in 1 .. kvPosition + count
          PROVE  joined[p] = cell(p)
      <4>1. CASE p <= kvPosition
        <5>1. joined[p] = Committed[p]
          BY <4>1, <3>1, <3>2
        <5> QED BY <4>1, <5>1, <3>3, <2>1
      <4>2. CASE p > kvPosition
        <5>1. joined[p] = block[p - kvPosition]
          BY <4>2, <3>1, <3>2, <2>1
        <5>2. p - kvPosition \in 1 .. count /\ kvPosition + (p - kvPosition) = p
          BY <4>2, <2>1
        <5> QED BY <5>1, <5>2, <3>3
      <4>3. p <= kvPosition \/ p > kvPosition
        BY <2>1
      <4> QED BY <4>1, <4>2, <4>3
    <3>5. \A p \in 1 .. kvPosition + count : Committed'[p] = joined[p]
      BY <3>0, <3>4
    <3>6. Len(joined) = kvPosition + count
      BY <3>1, <3>2
    <3>7. Committed' = joined
      <4> DEFINE after == Committed'
      <4>1. after \in Seq(Cell) /\ Len(after) = Len(joined)
        BY <2>5, <3>6
      <4>2. \A p \in 1 .. Len(after) : after[p] = joined[p]
        BY <2>5, <3>5
      <4> HIDE DEF after, joined
      <4>3. after = joined
        BY <3>2, <4>1, <4>2, SeqEqual
      <4> QED BY <4>3 DEF after
    <3> QED BY <3>7 DEF block
  <2>7. Committed = <<>> \/ count = 1
    BY <1>9, <2>1 DEF CommittedShape
  <2>8. Len(Committed) + count <= CacheCapacity
    BY <1>9, <2>1 DEF CommittedShape
  <2>9. Log!AppendBlock(count)
    BY <2>2, <2>3, <2>6, <2>7, <2>8 DEF Log!AppendBlock
  <2> QED BY <2>1, <2>9 DEF Log!LogNext
<1>5. CASE ResetCache \/ NewCache
  <2>1. kvPosition' = 0 /\ transaction'.written = {}
    BY <1>5 DEF ResetCache, NewCache, KVInv, KVTypeOK
  <2> QED BY <1>7, <1>8, <2>1 DEF Log!LogNext, Log!ClearLog
<1>6. CASE UNCHANGED kvVars
  BY <1>6 DEF kvVars, Committed, Pending, Start
<1> QED BY <1>1, <1>2, <1>3, <1>4, <1>5, <1>6 DEF KVNext, Log!LogNext

\* The cache is a log of whole blocks: what a model reads back is, for every
\* layer, what the transactions that were committed wrote, in their order, and
\* nothing of one that was rolled back or is still open.
THEOREM CacheIsLogHolds == KVSpec => CacheIsLog
<1>1. KVInit => Log!LogInit
  <2> SUFFICES ASSUME KVInit PROVE Log!LogInit
    OBVIOUS
  <2>1. kvPosition = 0 /\ transaction.written = {}
    BY DEF KVInit
  <2> QED BY <2>1, KVInvInit, CommittedIsSeq, NothingPending DEF Log!LogInit, CommittedShape
<1>2. KVInv /\ KVInv' /\ [KVNext]_kvVars => [Log!LogNext]_<<Committed, Pending>>
  BY LogStep
<1> QED BY <1>1, <1>2, KVInvAlways, PTL DEF KVSpec, CacheIsLog, Log!LogSpec

(***************************************************************************)
(* The chat template: the prompt of a chat, for any texts, contents and    *)
(* limits.  The argument for what is dropped: until the call is over, the  *)
(* prompt is that of what is left of the messages, and every shorter bound *)
(* was tried before.  For what is supervised: rendering a conversation is  *)
(* joining what each message is rendered to, so a reply appends to it.     *)
(***************************************************************************)
USE RenderingAssumption

ControlNames == {"bos", "user_start", "user_end", "assistant_start", "assistant_end",
                 "python_start", "python_end", "output_start", "output_end"}
TemplateTokens == {Control(name) : name \in ControlNames} \cup (Nat \X Nat \X Nat)
TemplateCells  == [token : TemplateTokens, loss : BOOLEAN]
TemplateMessage == [role : {"user", "assistant"}, id : Nat, parts : Seq(ContentPart)]

\* What is received: user messages and replies in turn, a user's last.
Received(messages) ==
  /\ messages \in Seq(TemplateMessage)
  /\ \E turns \in Nat : Len(messages) = 2 * turns + 1
  /\ messages[Len(messages)].role = "user"

-----------------------------------------------------------------------------
LEMMA ControlsAre ==
  \A name \in ControlNames : Control(name) \in TemplateTokens
  BY DEF TemplateTokens

\* A function on the first n numbers is a sequence.
LEMMA IsSequence ==
  ASSUME NEW S, NEW n \in Nat, NEW f \in [1 .. n -> S]
  PROVE  f \in Seq(S) /\ Len(f) = n
  OBVIOUS

\* A piece of the rendering has one cell per token, all with its flag.
LEMMA SupervisedIs ==
  ASSUME NEW S, NEW tokens \in Seq(S), NEW loss \in BOOLEAN
  PROVE  /\ SupervisedAs(tokens, loss) \in Seq([token : S, loss : BOOLEAN])
         /\ Len(SupervisedAs(tokens, loss)) = Len(tokens)
         /\ \A i \in 1 .. Len(tokens) :
              SupervisedAs(tokens, loss)[i] = [token |-> tokens[i], loss |-> loss]
<1> DEFINE cells == SupervisedAs(tokens, loss)
<1>1. DOMAIN tokens = 1 .. Len(tokens) /\ Len(tokens) \in Nat
  OBVIOUS
<1>2. cells = [i \in 1 .. Len(tokens) |-> [token |-> tokens[i], loss |-> loss]]
  BY <1>1 DEF SupervisedAs
<1>3. \A i \in 1 .. Len(tokens) : [token |-> tokens[i], loss |-> loss] \in [token : S, loss : BOOLEAN]
  OBVIOUS
<1> HIDE DEF cells
<1>4. cells \in [1 .. Len(tokens) -> [token : S, loss : BOOLEAN]]
  BY <1>2, <1>3
<1>5. cells \in Seq([token : S, loss : BOOLEAN]) /\ Len(cells) = Len(tokens)
  BY <1>1, <1>4, IsSequence
<1> QED BY <1>2, <1>5 DEF cells

\* The tokens and the flags of a rendering are those of its cells.
LEMMA FieldsAre ==
  ASSUME NEW S, NEW cells \in Seq([token : S, loss : BOOLEAN])
  PROVE  /\ TokensOf(cells) \in Seq(S) /\ Len(TokensOf(cells)) = Len(cells)
         /\ \A i \in 1 .. Len(cells) :
              TokensOf(cells)[i] = cells[i].token /\ LossOf(cells)[i] = cells[i].loss
<1>1. DOMAIN cells = 1 .. Len(cells) /\ Len(cells) \in Nat
  OBVIOUS
<1>2. \A i \in 1 .. Len(cells) : cells[i].token \in S
  <2> DEFINE C == [token : S, loss : BOOLEAN]
  <2>1. \A c \in C : c.token \in S
    OBVIOUS
  <2>2. cells \in Seq(C)
    OBVIOUS
  <2> HIDE DEF C
  <2>3. \A i \in 1 .. Len(cells) : cells[i] \in C
    BY <2>2
  <2> QED BY <2>1, <2>3
<1>3. TokensOf(cells) = [i \in 1 .. Len(cells) |-> cells[i].token]
  BY <1>1 DEF TokensOf
<1>4. LossOf(cells) = [i \in 1 .. Len(cells) |-> cells[i].loss]
  BY <1>1 DEF LossOf
<1>5. TokensOf(cells) \in [1 .. Len(cells) -> S]
  BY <1>2, <1>3
<1>6. TokensOf(cells) \in Seq(S) /\ Len(TokensOf(cells)) = Len(cells)
  BY <1>1, <1>5, IsSequence
<1> QED BY <1>3, <1>4, <1>6

\* A sequence between two elements.
LEMMA BetweenIs ==
  ASSUME NEW S, NEW s \in Seq(S), NEW x \in S, NEW y \in S
  PROVE  /\ <<x>> \o s \o <<y>> \in Seq(S)
         /\ Len(<<x>> \o s \o <<y>>) = Len(s) + 2
         /\ (<<x>> \o s \o <<y>>)[1] = x
         /\ \A k \in 1 .. Len(s) : (<<x>> \o s \o <<y>>)[k + 1] = s[k]
         /\ (<<x>> \o s \o <<y>>)[Len(s) + 2] = y
<1> DEFINE one == <<x>>
           two == <<y>>
           front == one \o s
           all == front \o two
<1>1. one \in Seq(S) /\ Len(one) = 1 /\ one[1] = x /\ two \in Seq(S) /\ Len(two) = 1 /\ two[1] = y
  OBVIOUS
<1> HIDE DEF one, two
<1>2. /\ front \in Seq(S) /\ Len(front) = Len(s) + 1 /\ Len(s) \in Nat
      /\ \A i \in 1 .. Len(s) + 1 : front[i] = IF i <= 1 THEN one[i] ELSE s[i - 1]
  <2>1. /\ front \in Seq(S) /\ Len(front) = Len(one) + Len(s)
        /\ \A i \in 1 .. Len(one) + Len(s) :
             front[i] = IF i <= Len(one) THEN one[i] ELSE s[i - Len(one)]
    BY ONLY <1>1, s \in Seq(S), ConcatProperties
  <2>2. Len(s) \in Nat /\ Len(one) + Len(s) = Len(s) + 1
    BY <1>1
  <2> HIDE DEF front
  <2> QED BY <1>1, <2>1, <2>2
<1> HIDE DEF front
<1>3. /\ all \in Seq(S) /\ Len(all) = Len(s) + 2
      /\ \A i \in 1 .. Len(s) + 2 :
           all[i] = IF i <= Len(s) + 1 THEN front[i] ELSE two[i - (Len(s) + 1)]
  <2>0. front \in Seq(S) /\ two \in Seq(S)
    BY <1>1, <1>2
  <2>1. /\ all \in Seq(S) /\ Len(all) = Len(front) + Len(two)
        /\ \A i \in 1 .. Len(front) + Len(two) :
             all[i] = IF i <= Len(front) THEN front[i] ELSE two[i - Len(front)]
    BY ONLY <2>0, ConcatProperties
  <2>2. Len(front) = Len(s) + 1 /\ Len(front) + Len(two) = Len(s) + 2
    BY <1>1, <1>2
  <2> HIDE DEF all
  <2> QED BY <2>1, <2>2
<1> HIDE DEF all
<1>4. all[1] = x
  BY <1>1, <1>2, <1>3
<1>5. ASSUME NEW k \in 1 .. Len(s) PROVE all[k + 1] = s[k]
  <2>1. k + 1 \in 1 .. Len(s) + 1 /\ ~(k + 1 <= 1) /\ (k + 1) - 1 = k /\ k + 1 \in 1 .. Len(s) + 2
    BY <1>2
  <2> QED BY <1>2, <1>3, <2>1
<1>6. all[Len(s) + 2] = y
  <2>1. Len(s) + 2 \in 1 .. Len(s) + 2 /\ ~(Len(s) + 2 <= Len(s) + 1)
        /\ (Len(s) + 2) - (Len(s) + 1) = 1
    BY <1>2
  <2> QED BY <1>1, <1>3, <2>1
<1> QED BY <1>3, <1>4, <1>5, <1>6 DEF all, front, one, two

\* A text is as many tokens as its size.
LEMMA TextIs ==
  ASSUME NEW m \in Nat, NEW p \in Nat, NEW size \in Nat
  PROVE  /\ Text(m, p, size) \in Seq(TemplateTokens) /\ Len(Text(m, p, size)) = size
         /\ \A k \in 1 .. size : Text(m, p, size)[k] = <<m, p, k>>
<1>1. \A k \in 1 .. size : <<m, p, k>> \in TemplateTokens
  BY DEF TemplateTokens
<1>2. Text(m, p, size) \in [1 .. size -> TemplateTokens]
  BY <1>1 DEF Text
<1> QED BY <1>2 DEF Text

\* A user's message is its tokens between two controls.
LEMMA RenderedUserIs ==
  ASSUME NEW texts \in Seq(TemplateTokens)
  PROVE  /\ RenderedUser(texts) \in Seq(TemplateCells)
         /\ Len(RenderedUser(texts)) = Len(texts) + 2
         /\ RenderedUser(texts)[1].token = Control("user_start")
         /\ \A k \in 1 .. Len(texts) : RenderedUser(texts)[k + 1].token = texts[k]
         /\ RenderedUser(texts)[Len(texts) + 2].token = Control("user_end")
<1> DEFINE all == <<Control("user_start")>> \o texts \o <<Control("user_end")>>
<1>1. Control("user_start") \in TemplateTokens /\ Control("user_end") \in TemplateTokens
  BY ControlsAre DEF ControlNames
<1>2. /\ all \in Seq(TemplateTokens) /\ Len(all) = Len(texts) + 2
      /\ all[1] = Control("user_start")
      /\ \A k \in 1 .. Len(texts) : all[k + 1] = texts[k]
      /\ all[Len(texts) + 2] = Control("user_end")
  BY <1>1, BetweenIs
<1>3. RenderedUser(texts) = SupervisedAs(all, FALSE)
  BY DEF RenderedUser, Unsupervised
<1> HIDE DEF all
<1>4. /\ SupervisedAs(all, FALSE) \in Seq([token : TemplateTokens, loss : BOOLEAN])
      /\ Len(SupervisedAs(all, FALSE)) = Len(all)
      /\ \A i \in 1 .. Len(all) : SupervisedAs(all, FALSE)[i] = [token |-> all[i], loss |-> FALSE]
  BY <1>2, SupervisedIs
<1>5. \A i \in 1 .. Len(texts) + 2 : RenderedUser(texts)[i].token = all[i]
  <2> TAKE i \in 1 .. Len(texts) + 2
  <2>1. RenderedUser(texts)[i] = [token |-> all[i], loss |-> FALSE]
    BY <1>2, <1>3, <1>4
  <2> QED BY <2>1
<1>6. /\ Len(texts) \in Nat /\ 1 \in 1 .. Len(texts) + 2 /\ Len(texts) + 2 \in 1 .. Len(texts) + 2
      /\ \A k \in 1 .. Len(texts) : k + 1 \in 1 .. Len(texts) + 2
  <2>1. Len(texts) \in Nat
    OBVIOUS
  <2> QED BY <2>1
<1>7. RenderedUser(texts) \in Seq(TemplateCells) /\ Len(RenderedUser(texts)) = Len(texts) + 2
  BY <1>2, <1>3, <1>4 DEF TemplateCells
<1> QED BY <1>2, <1>5, <1>6, <1>7

\* A user's tokens are the texts of its parts.
LEMMA UserTokensAre ==
  ASSUME NEW message \in TemplateMessage
  PROVE  UserTokens(message) \in Seq(TemplateTokens)
<1> DEFINE seqs == [p \in DOMAIN message.parts |-> Text(message.id, p, message.parts[p].size)]
<1>1. /\ message.id \in Nat /\ message.parts \in Seq(ContentPart)
      /\ DOMAIN message.parts = 1 .. Len(message.parts) /\ Len(message.parts) \in Nat
  BY DEF TemplateMessage
<1>2. \A part \in ContentPart : part.size \in Nat
  BY DEF ContentPart
<1>3. ASSUME NEW p \in 1 .. Len(message.parts)
      PROVE  Text(message.id, p, message.parts[p].size) \in Seq(TemplateTokens)
  <2>1. message.parts[p] \in ContentPart
    BY <1>1
  <2>2. message.id \in Nat /\ p \in Nat /\ message.parts[p].size \in Nat
    BY <1>1, <1>2, <2>1
  <2> QED BY <2>2, TextIs
<1>4. seqs \in [1 .. Len(message.parts) -> Seq(TemplateTokens)]
  BY <1>1, <1>3
<1>5. seqs \in Seq(Seq(TemplateTokens))
  BY <1>1, <1>4, IsSequence
<1>6. UserTokens(message) = FlattenSeq(seqs)
  BY DEF UserTokens
<1> HIDE DEF seqs
<1>7. Len(seqs) \in Nat /\ DOMAIN seqs = 1 .. Len(seqs)
      /\ \A n \in 1 .. Len(seqs) : seqs[n] \in Seq(TemplateTokens)
  BY <1>5
<1> QED BY <1>5, <1>6, <1>7, FlattenIsSeq


-----------------------------------------------------------------------------
\* What a part is rendered to: its text, and its own controls about it.
PartToken(m, p, part, token) ==
  \/ \E k \in 1 .. part.size : token = <<m, p, k>>
  \/ part.kind = "python" /\ token \in {Control("python_start"), Control("python_end")}
  \/ part.kind = "output" /\ token \in {Control("output_start"), Control("output_end")}

\* A part is rendered to its own text and controls, and to nothing else.
LEMMA PartTokensAre ==
  ASSUME NEW m \in Nat, NEW p \in Nat, NEW part \in ContentPart
  PROVE  /\ PartTokens(m, p, part) \in Seq(TemplateTokens)
         /\ \A k \in 1 .. Len(PartTokens(m, p, part)) :
              PartToken(m, p, part, PartTokens(m, p, part)[k])
<1> DEFINE size == part.size
           text == Text(m, p, size)
<1>1. size \in Nat /\ part.kind \in {"text", "python", "output"}
  BY DEF ContentPart
<1>2. text \in Seq(TemplateTokens) /\ Len(text) = size /\ \A k \in 1 .. size : text[k] = <<m, p, k>>
  BY <1>1, TextIs
<1> HIDE DEF text
<1>3. CASE part.kind = "text"
  <2>1. PartTokens(m, p, part) = text
    BY <1>3 DEF PartTokens, text
  <2> QED BY <1>2, <2>1 DEF PartToken
<1>4. ASSUME NEW x \in TemplateTokens, NEW y \in TemplateTokens, 
             PartTokens(m, p, part) = <<x>> \o text \o <<y>>,
             PartToken(m, p, part, x), PartToken(m, p, part, y)
      PROVE  /\ PartTokens(m, p, part) \in Seq(TemplateTokens)
             /\ \A k \in 1 .. Len(PartTokens(m, p, part)) :
                  PartToken(m, p, part, PartTokens(m, p, part)[k])
  <2> DEFINE all == <<x>> \o text \o <<y>>
  <2>1. /\ all \in Seq(TemplateTokens) /\ Len(all) = size + 2 /\ all[1] = x /\ all[size + 2] = y
        /\ \A k \in 1 .. size : all[k + 1] = text[k]
    <3>1. text \in Seq(TemplateTokens) /\ Len(text) = size
      BY <1>2
    <3>2. /\ all \in Seq(TemplateTokens) /\ Len(all) = Len(text) + 2
          /\ all[1] = x /\ all[Len(text) + 2] = y
          /\ \A k \in 1 .. Len(text) : all[k + 1] = text[k]
      BY <3>1, BetweenIs
    <3> HIDE DEF all
    <3> QED BY <3>1, <3>2
  <2> HIDE DEF all
  <2>2. ASSUME NEW k \in 1 .. size + 2 PROVE PartToken(m, p, part, all[k])
    <3>1. CASE k = 1 \/ k = size + 2
      BY <1>4, <2>1, <3>1
    <3>2. CASE k # 1 /\ k # size + 2
      <4>1. k - 1 \in 1 .. size /\ (k - 1) + 1 = k
        BY <1>1, <3>2
      <4>2. all[k] = <<m, p, k - 1>>
        BY <1>2, <2>1, <4>1
      <4> QED BY <4>1, <4>2 DEF PartToken
    <3> QED BY <3>1, <3>2
  <2>3. PartTokens(m, p, part) = all
    BY <1>4 DEF all
  <2> QED BY <2>1, <2>2, <2>3
<1>5. CASE part.kind = "python"
  <2>1. PartTokens(m, p, part)
          = <<Control("python_start")>> \o text \o <<Control("python_end")>>
    BY <1>5 DEF PartTokens, text
  <2>2. Control("python_start") \in TemplateTokens /\ Control("python_end") \in TemplateTokens
    BY ControlsAre DEF ControlNames
  <2>3. /\ PartToken(m, p, part, Control("python_start"))
        /\ PartToken(m, p, part, Control("python_end"))
    BY <1>5 DEF PartToken
  <2> QED BY <1>4, <2>1, <2>2, <2>3
<1>6. CASE part.kind = "output"
  <2>1. PartTokens(m, p, part)
          = <<Control("output_start")>> \o text \o <<Control("output_end")>>
    BY <1>6 DEF PartTokens, text
  <2>2. Control("output_start") \in TemplateTokens /\ Control("output_end") \in TemplateTokens
    BY ControlsAre DEF ControlNames
  <2>3. /\ PartToken(m, p, part, Control("output_start"))
        /\ PartToken(m, p, part, Control("output_end"))
    BY <1>6 DEF PartToken
  <2> QED BY <1>4, <2>1, <2>2, <2>3
<1> QED BY <1>1, <1>3, <1>5, <1>6

\* ... and all of it is supervised, or, of an output, none.
LEMMA RenderedPartIs ==
  ASSUME NEW m \in Nat, NEW p \in Nat, NEW part \in ContentPart
  PROVE  /\ RenderedPart(m, p, part) \in Seq(TemplateCells)
         /\ \A k \in 1 .. Len(RenderedPart(m, p, part)) :
              /\ RenderedPart(m, p, part)[k].loss = (part.kind # "output")
              /\ PartToken(m, p, part, RenderedPart(m, p, part)[k].token)
<1> DEFINE tokens == PartTokens(m, p, part)
           loss == part.kind # "output"
           cells == SupervisedAs(tokens, loss)
<1>1. /\ tokens \in Seq(TemplateTokens) /\ loss \in BOOLEAN
      /\ \A k \in 1 .. Len(tokens) : PartToken(m, p, part, tokens[k])
  BY PartTokensAre
<1>2. RenderedPart(m, p, part) = cells
  BY DEF RenderedPart
<1> HIDE DEF tokens, loss
<1>3. /\ cells \in Seq(TemplateCells) /\ Len(cells) = Len(tokens)
      /\ \A k \in 1 .. Len(tokens) : cells[k] = [token |-> tokens[k], loss |-> loss]
  BY <1>1, SupervisedIs DEF TemplateCells
<1> HIDE DEF cells
<1>4. ASSUME NEW k \in 1 .. Len(cells)
      PROVE  cells[k].loss = loss /\ PartToken(m, p, part, cells[k].token)
  <2>1. cells[k] = [token |-> tokens[k], loss |-> loss] /\ PartToken(m, p, part, tokens[k])
    BY <1>1, <1>3
  <2>2. cells[k].loss = loss /\ cells[k].token = tokens[k]
    BY <2>1
  <2> QED BY <2>1, <2>2
<1> QED BY <1>2, <1>3, <1>4 DEF loss

-----------------------------------------------------------------------------
SupervisedControls ==
  {Control("python_start"), Control("python_end"), Control("assistant_end")}
CellOK(m, parts, cell) ==
  cell.loss <=> WrittenIn(m, parts, cell.token) \/ cell.token \in SupervisedControls

\* So what is supervised in a part is what the assistant writes of it.
LEMMA CellOfPart ==
  ASSUME NEW m \in Nat, NEW parts \in Seq(ContentPart), NEW p \in DOMAIN parts, NEW cell,
         cell.loss = (parts[p].kind # "output"), PartToken(m, p, parts[p], cell.token)
  PROVE  CellOK(m, parts, cell)
<1>1. CASE parts[p].kind # "output"
  <2>1. cell.loss
    BY <1>1
  <2>2. WrittenIn(m, parts, cell.token) \/ cell.token \in SupervisedControls
    BY <1>1 DEF PartToken, WrittenIn, SupervisedControls
  <2> QED BY <2>1, <2>2 DEF CellOK
<1>2. CASE parts[p].kind = "output"
  <2>1. ~cell.loss
    BY <1>2
  <2>2. cell.token \notin SupervisedControls
    <3>1. CASE \E k \in 1 .. parts[p].size : cell.token = <<m, p, k>>
      BY <3>1 DEF SupervisedControls, Control
    <3>2. CASE cell.token \in {Control("output_start"), Control("output_end")}
      BY <3>2 DEF SupervisedControls, Control
    <3> QED BY <1>2, <3>1, <3>2 DEF PartToken
  <2>3. ~WrittenIn(m, parts, cell.token)
    <3> SUFFICES ASSUME NEW q \in DOMAIN parts, NEW k, parts[q].kind # "output",
                        cell.token = <<m, q, k>>
                 PROVE  FALSE
      BY DEF WrittenIn
    <3>1. CASE \E j \in 1 .. parts[p].size : cell.token = <<m, p, j>>
      BY <1>2, <3>1
    <3>2. CASE cell.token \in {Control("output_start"), Control("output_end")}
      BY <3>2 DEF Control
    <3> QED BY <1>2, <3>1, <3>2 DEF PartToken
  <2> QED BY <2>1, <2>2, <2>3 DEF CellOK
<1> QED BY <1>1, <1>2

\* A single token.
LEMMA OneCell ==
  ASSUME NEW token \in TemplateTokens, NEW loss \in BOOLEAN
  PROVE  /\ SupervisedAs(<<token>>, loss) = <<[token |-> token, loss |-> loss]>>
         /\ [token |-> token, loss |-> loss] \in TemplateCells
<1> DEFINE one == <<token>>
           cell == [token |-> token, loss |-> loss]
           cells == SupervisedAs(one, loss)
<1>1. one \in Seq(TemplateTokens) /\ Len(one) = 1 /\ one[1] = token
  OBVIOUS
<1>2. cell \in TemplateCells
  BY DEF TemplateCells
<1> HIDE DEF one
<1>3. cells \in Seq(TemplateCells) /\ Len(cells) = 1 /\ cells[1] = cell
  <2>1. /\ cells \in Seq([token : TemplateTokens, loss : BOOLEAN]) /\ Len(cells) = Len(one)
        /\ \A i \in 1 .. Len(one) : cells[i] = [token |-> one[i], loss |-> loss]
    BY <1>1, SupervisedIs
  <2> HIDE DEF cells
  <2> QED BY <1>1, <2>1 DEF TemplateCells
<1> HIDE DEF cells, cell
<1>4. cells = <<cell>>
  BY <1>2, <1>3
<1> QED BY <1>2, <1>4 DEF cells, cell, one


\* A reply begins with its start control, which is not supervised; after it,
\* exactly what the assistant writes, and its end control, is.
LEMMA ReplyIs ==
  ASSUME NEW m \in Nat, NEW parts \in Seq(ContentPart)
  PROVE  /\ RenderedAssistant(m, parts) \in Seq(TemplateCells)
         /\ Len(RenderedAssistant(m, parts)) \in Nat \ {0}
         /\ RenderedAssistant(m, parts)[1].token = Control("assistant_start")
         /\ \A j \in 2 .. Len(RenderedAssistant(m, parts)) :
              CellOK(m, parts, RenderedAssistant(m, parts)[j])
<1> DEFINE seqs == [p \in DOMAIN parts |-> RenderedPart(m, p, parts[p])]
           middle == FlattenSeq(seqs)
           first == [token |-> Control("assistant_start"), loss |-> FALSE]
           last == [token |-> Control("assistant_end"), loss |-> TRUE]
           all == <<first>> \o middle \o <<last>>
<1>1. DOMAIN parts = 1 .. Len(parts) /\ Len(parts) \in Nat
      /\ \A p \in 1 .. Len(parts) : parts[p] \in ContentPart
  OBVIOUS
<1>2. \A p \in 1 .. Len(parts) : RenderedPart(m, p, parts[p]) \in Seq(TemplateCells)
  BY <1>1, RenderedPartIs
<1>3. seqs \in Seq(Seq(TemplateCells)) /\ Len(seqs) = Len(parts)
  <2>1. seqs \in [1 .. Len(parts) -> Seq(TemplateCells)]
    BY <1>1, <1>2
  <2> HIDE DEF seqs
  <2> QED BY <1>1, <2>1, IsSequence
<1>4. \A p \in 1 .. Len(seqs) : seqs[p] = RenderedPart(m, p, parts[p])
  <2>1. \A p \in 1 .. Len(parts) : seqs[p] = RenderedPart(m, p, parts[p])
    BY <1>1
  <2> HIDE DEF seqs
  <2> QED BY <1>3, <2>1
<1>5. /\ first \in TemplateCells /\ last \in TemplateCells
      /\ SupervisedAs(<<Control("assistant_start")>>, FALSE) = <<first>>
      /\ SupervisedAs(<<Control("assistant_end")>>, TRUE) = <<last>>
  <2>1. /\ Control("assistant_start") \in TemplateTokens
        /\ Control("assistant_end") \in TemplateTokens
    BY ControlsAre DEF ControlNames
  <2> QED BY <2>1, OneCell
<1>6. RenderedAssistant(m, parts) = all
  BY <1>5 DEF RenderedAssistant, Unsupervised
<1> HIDE DEF seqs
<1>7. middle \in Seq(TemplateCells)
      /\ \A j \in 1 .. Len(middle) : \E n \in 1 .. Len(seqs) :
           \E k \in 1 .. Len(seqs[n]) : middle[j] = seqs[n][k]
  BY <1>3, FlattenHas
<1>8. first.token = Control("assistant_start") /\ CellOK(m, parts, last)
  BY DEF CellOK, SupervisedControls
<1> HIDE DEF middle, first, last
<1>9. /\ all \in Seq(TemplateCells) /\ Len(all) = Len(middle) + 2 /\ all[1] = first
      /\ \A k \in 1 .. Len(middle) : all[k + 1] = middle[k]
      /\ all[Len(middle) + 2] = last
  BY <1>5, <1>7, BetweenIs
<1> HIDE DEF all
<1>10. Len(middle) \in Nat
  BY <1>7
<1>11. ASSUME NEW j \in 2 .. Len(middle) + 2 PROVE CellOK(m, parts, all[j])
  <2>1. CASE j = Len(middle) + 2
    BY <1>8, <1>9, <2>1
  <2>2. CASE j # Len(middle) + 2
    <3>1. j - 1 \in 1 .. Len(middle) /\ (j - 1) + 1 = j
      BY <1>10, <2>2
    <3>2. all[j] = middle[j - 1]
      BY <1>9, <3>1
    <3>3. PICK p \in 1 .. Len(seqs) : \E k \in 1 .. Len(seqs[p]) : middle[j - 1] = seqs[p][k]
      BY <1>7, <3>1
    <3>4. /\ p \in DOMAIN parts /\ p \in Nat /\ parts[p] \in ContentPart
          /\ seqs[p] = RenderedPart(m, p, parts[p])
      BY <1>1, <1>3, <1>4
    <3>5. PICK k \in 1 .. Len(seqs[p]) : middle[j - 1] = seqs[p][k]
      BY <3>3
    <3> DEFINE cell == seqs[p][k]
    <3>6. cell.loss = (parts[p].kind # "output") /\ PartToken(m, p, parts[p], cell.token)
      <4> DEFINE cells == RenderedPart(m, p, parts[p])
      <4>1. \A i \in 1 .. Len(cells) :
              /\ cells[i].loss = (parts[p].kind # "output")
              /\ PartToken(m, p, parts[p], cells[i].token)
        BY <3>4, RenderedPartIs
      <4>2. k \in 1 .. Len(cells) /\ cell = cells[k]
        BY <3>4
      <4> HIDE DEF cells
      <4> QED BY <4>1, <4>2
    <3>7. CellOK(m, parts, cell)
      BY <3>4, <3>6, CellOfPart
    <3> QED BY <3>2, <3>5, <3>7
  <2> QED BY <2>1, <2>2
<1> QED BY <1>6, <1>8, <1>9, <1>10, <1>11

-----------------------------------------------------------------------------
\* What message i is rendered to.
RenderedMessage(messages, i, lastUser) ==
  IF messages[i].role = "assistant" THEN RenderedAssistant(messages[i].id, messages[i].parts)
  ELSE RenderedUser(IF i = Len(messages) THEN lastUser ELSE UserTokens(messages[i]))
EachRendered(messages, lastUser) ==
  [i \in DOMAIN messages |-> RenderedMessage(messages, i, lastUser)]

\* A conversation is the beginning control and its messages, rendered each.
LEMMA MessagesAre ==
  ASSUME NEW messages \in Seq(TemplateMessage), NEW lastUser \in Seq(TemplateTokens)
  PROVE  /\ EachRendered(messages, lastUser) \in Seq(Seq(TemplateCells))
         /\ Len(EachRendered(messages, lastUser)) = Len(messages)
         /\ \A i \in 1 .. Len(messages) :
              EachRendered(messages, lastUser)[i] = RenderedMessage(messages, i, lastUser)
         /\ RenderedMessages(messages, lastUser)
              = <<[token |-> Control("bos"), loss |-> FALSE]>>
                  \o FlattenSeq(EachRendered(messages, lastUser))
<1> DEFINE n == Len(messages)
           seqs == EachRendered(messages, lastUser)
<1>1. DOMAIN messages = 1 .. n /\ n \in Nat
      /\ \A i \in 1 .. n : messages[i] \in TemplateMessage
  OBVIOUS
<1>2. ASSUME NEW i \in 1 .. n PROVE RenderedMessage(messages, i, lastUser) \in Seq(TemplateCells)
  <2>1. messages[i] \in TemplateMessage
    BY <1>1
  <2>2. CASE messages[i].role = "assistant"
    <3>1. messages[i].id \in Nat /\ messages[i].parts \in Seq(ContentPart)
      BY <2>1 DEF TemplateMessage
    <3> QED BY <2>2, <3>1, ReplyIs DEF RenderedMessage
  <2>3. CASE messages[i].role # "assistant"
    <3>1. UserTokens(messages[i]) \in Seq(TemplateTokens)
      BY <2>1, UserTokensAre
    <3> DEFINE texts == IF i = Len(messages) THEN lastUser ELSE UserTokens(messages[i])
    <3>2. texts \in Seq(TemplateTokens)
      BY <3>1
    <3>3. RenderedMessage(messages, i, lastUser) = RenderedUser(texts)
      BY <2>3 DEF RenderedMessage
    <3> HIDE DEF texts
    <3> QED BY <3>2, <3>3, RenderedUserIs
  <2> QED BY <2>2, <2>3
<1>3. seqs \in [1 .. n -> Seq(TemplateCells)]
  BY <1>1, <1>2 DEF EachRendered
<1>4. \A i \in 1 .. n : seqs[i] = RenderedMessage(messages, i, lastUser)
  BY <1>1 DEF EachRendered
<1>5. RenderedMessages(messages, lastUser)
        = SupervisedAs(<<Control("bos")>>, FALSE) \o FlattenSeq(seqs)
  BY DEF RenderedMessages, Unsupervised, EachRendered, RenderedMessage
<1>6. SupervisedAs(<<Control("bos")>>, FALSE) = <<[token |-> Control("bos"), loss |-> FALSE]>>
  <2>1. Control("bos") \in TemplateTokens
    BY ControlsAre DEF ControlNames
  <2> QED BY <2>1, OneCell
<1> HIDE DEF seqs
<1>7. seqs \in Seq(Seq(TemplateCells)) /\ Len(seqs) = n
  BY <1>1, <1>3, IsSequence
<1> QED BY <1>4, <1>5, <1>6, <1>7 DEF seqs

LEMMA RenderedAreCells ==
  ASSUME NEW messages \in Seq(TemplateMessage), NEW lastUser \in Seq(TemplateTokens)
  PROVE  RenderedMessages(messages, lastUser) \in Seq(TemplateCells)
<1> DEFINE bos == [token |-> Control("bos"), loss |-> FALSE]
           flat == FlattenSeq(EachRendered(messages, lastUser))
<1>1. flat \in Seq(TemplateCells) /\ RenderedMessages(messages, lastUser) = <<bos>> \o flat
  BY MessagesAre, FlattenHas
<1>2. bos \in TemplateCells
  <2>1. Control("bos") \in TemplateTokens
    BY ControlsAre DEF ControlNames
  <2> QED BY <2>1 DEF TemplateCells
<1> HIDE DEF bos, flat
<1> QED BY <1>1, <1>2

\* A prompt is the tokens rendered and the start of a reply.
LEMMA PromptIs ==
  ASSUME NEW messages \in Seq(TemplateMessage), NEW lastUser \in Seq(TemplateTokens)
  PROVE  LET cells == RenderedMessages(messages, lastUser)
             prompt == PromptOf(messages, lastUser)
         IN  /\ prompt \in Seq(TemplateTokens) /\ Len(prompt) = Len(cells) + 1
             /\ \A i \in 1 .. Len(cells) : prompt[i] = cells[i].token
             /\ prompt[Len(cells) + 1] = Control("assistant_start")
<1> DEFINE cells == RenderedMessages(messages, lastUser)
           tokens == TokensOf(cells)
           end == Control("assistant_start")
<1>1. cells \in Seq([token : TemplateTokens, loss : BOOLEAN])
  BY RenderedAreCells DEF TemplateCells
<1>2. PromptOf(messages, lastUser) = tokens \o <<end>>
  BY DEF PromptOf
<1>3. end \in TemplateTokens
  BY ControlsAre DEF ControlNames
<1> HIDE DEF cells, end
<1>4. tokens \in Seq(TemplateTokens) /\ Len(tokens) = Len(cells)
      /\ \A i \in 1 .. Len(cells) : tokens[i] = cells[i].token
  BY <1>1, FieldsAre
<1> HIDE DEF tokens
<1>5. /\ Append(tokens, end) \in Seq(TemplateTokens) /\ Len(Append(tokens, end)) = Len(cells) + 1
      /\ \A i \in 1 .. Len(cells) : Append(tokens, end)[i] = cells[i].token
      /\ Append(tokens, end)[Len(cells) + 1] = end
  BY <1>3, <1>4, AppendProperties
<1>6. tokens \o <<end>> = Append(tokens, end)
  BY <1>3, <1>4, AppendIsConcat
<1> QED BY <1>2, <1>5, <1>6 DEF cells, end


-----------------------------------------------------------------------------
\* A reply is rendered after what is rendered of the messages before it.
LEMMA ReplyFollows ==
  ASSUME NEW given, Received(given), NEW parts \in Seq(ContentPart)
  PROVE  LET id == Len(given) + 1
             reply == [role |-> "assistant", id |-> id, parts |-> parts]
         IN  Training(Append(given, reply))
               = RenderedMessages(given, UserTokens(Last(given))) \o RenderedAssistant(id, parts)
<1> DEFINE n == Len(given)
           id == n + 1
           reply == [role |-> "assistant", id |-> id, parts |-> parts]
           all == Append(given, reply)
           texts == UserTokens(given[n])
           none == <<>>
           rendered == RenderedAssistant(id, parts)
           seqs == EachRendered(given, texts)
           more == EachRendered(all, none)
           bos == <<[token |-> Control("bos"), loss |-> FALSE]>>
<1>1. /\ given \in Seq(TemplateMessage) /\ n \in Nat /\ n \in 1 .. n
      /\ given[n].role = "user" /\ given[n] \in TemplateMessage
  <2>1. PICK turns \in Nat : n = 2 * turns + 1
    BY DEF Received
  <2>2. given \in Seq(TemplateMessage) /\ given[n].role = "user"
    BY DEF Received
  <2> QED BY <2>1, <2>2
<1>2. reply \in TemplateMessage /\ id \in Nat
  BY <1>1 DEF TemplateMessage
<1>3. /\ all \in Seq(TemplateMessage) /\ Len(all) = id /\ all[id] = reply
      /\ \A i \in 1 .. n : all[i] = given[i]
  BY <1>1, <1>2, AppendProperties
<1>4. texts \in Seq(TemplateTokens) /\ none \in Seq(TemplateTokens)
  BY <1>1, UserTokensAre
<1>5. reply.role = "assistant" /\ reply.id = id /\ reply.parts = parts
  OBVIOUS
<1>6. Last(given) = given[n] /\ Last(all) = reply
  BY <1>3 DEF Last
<1> HIDE DEF all, reply, none
<1>7. Training(all) = RenderedMessages(all, none)
  BY <1>5, <1>6 DEF Training, none
<1>8. /\ more \in Seq(Seq(TemplateCells)) /\ Len(more) = id
      /\ \A i \in 1 .. id : more[i] = RenderedMessage(all, i, none)
      /\ RenderedMessages(all, none) = bos \o FlattenSeq(more)
  BY <1>3, <1>4, MessagesAre
<1>9. /\ seqs \in Seq(Seq(TemplateCells)) /\ Len(seqs) = n
      /\ \A i \in 1 .. n : seqs[i] = RenderedMessage(given, i, texts)
      /\ RenderedMessages(given, texts) = bos \o FlattenSeq(seqs)
  BY <1>1, <1>4, MessagesAre
<1>10. rendered \in Seq(TemplateCells)
  BY <1>2, ReplyIs
<1>11. bos \in Seq(TemplateCells)
  <2>1. Control("bos") \in TemplateTokens
    BY ControlsAre DEF ControlNames
  <2>2. [token |-> Control("bos"), loss |-> FALSE] \in TemplateCells
    BY <2>1 DEF TemplateCells
  <2> QED BY <2>2
<1> HIDE DEF seqs, more, bos
<1>12. more = Append(seqs, rendered)
  <2>1. /\ Append(seqs, rendered) \in Seq(Seq(TemplateCells)) /\ Len(Append(seqs, rendered)) = id
        /\ \A i \in 1 .. n : Append(seqs, rendered)[i] = seqs[i]
        /\ Append(seqs, rendered)[id] = rendered
    BY <1>9, <1>10, AppendProperties
  <2>2. ASSUME NEW i \in 1 .. id PROVE more[i] = Append(seqs, rendered)[i]
    <3>1. CASE i = id
      <4>1. RenderedMessage(all, i, none) = rendered
        BY <1>3, <1>5, <3>1 DEF RenderedMessage
      <4> QED BY <1>8, <2>1, <3>1, <4>1
    <3>2. CASE i # id
      <4>1. i \in 1 .. n
        BY <1>1, <3>2
      <4>2. all[i] = given[i] /\ i # Len(all)
        BY <1>3, <3>2, <4>1
      <4>3. i = n => given[i].role # "assistant" /\ UserTokens(given[i]) = texts
        BY <1>1
      <4>4. RenderedMessage(all, i, none) = RenderedMessage(given, i, texts)
        <5> HIDE DEF texts
        <5> QED BY <4>2, <4>3 DEF RenderedMessage
      <4> QED BY <1>8, <1>9, <2>1, <4>1, <4>4
    <3> QED BY <3>1, <3>2
  <2> HIDE DEF rendered
  <2> QED BY <1>8, <2>1, <2>2, SeqEqual
<1>13. FlattenSeq(more) = FlattenSeq(seqs) \o rendered
  BY <1>9, <1>10, <1>12, FlattenAppend
<1>14. FlattenSeq(seqs) \in Seq(TemplateCells)
  BY <1>9, FlattenHas
<1> HIDE DEF rendered, texts
<1>15. RenderedMessages(all, none) = (bos \o FlattenSeq(seqs)) \o rendered
  <2> DEFINE flat == FlattenSeq(seqs)
  <2>1. flat \in Seq(TemplateCells)
    BY <1>14
  <2>2. RenderedMessages(all, none) = bos \o (flat \o rendered)
    BY <1>8, <1>13
  <2> HIDE DEF flat
  <2>3. (bos \o flat) \o rendered = bos \o (flat \o rendered)
    <3>1. bos \in Seq(TemplateCells) /\ rendered \in Seq(TemplateCells)
      BY <1>10, <1>11
    <3> QED BY ONLY <2>1, <3>1, ConcatAssociative
  <2>4. RenderedMessages(all, none) = (bos \o flat) \o rendered
    BY <2>2, <2>3
  <2> QED BY <2>4 DEF flat
<1>16. Training(all) = RenderedMessages(given, texts) \o rendered
  BY <1>7, <1>9, <1>15
<1> QED BY <1>6, <1>16 DEF all, reply, rendered, texts

\* So the prompt is a prefix of what training sees, up to the start of the
\* reply; what is supervised after it is what ReplyIs says.
LEMMA ReplyContinuesPrompt ==
  ASSUME NEW given, Received(given), NEW parts \in Seq(ContentPart)
  PROVE  LET id == Len(given) + 1
             reply == [role |-> "assistant", id |-> id, parts |-> parts]
             rendered == Training(Append(given, reply))
             whole == WholePrompt(given)
         IN  /\ IsPrefix(whole, TokensOf(rendered))
             /\ \A i \in Len(whole) + 1 .. Len(rendered) :
                  LossOf(rendered)[i] <=>
                    \/ WrittenIn(id, parts, TokensOf(rendered)[i])
                    \/ TokensOf(rendered)[i] \in SupervisedControls
<1> DEFINE id == Len(given) + 1
           reply == [role |-> "assistant", id |-> id, parts |-> parts]
           rendered == Training(Append(given, reply))
           whole == WholePrompt(given)
           before == RenderedMessages(given, UserTokens(Last(given)))
           after == RenderedAssistant(id, parts)
           n == Len(before)
<1>1. given \in Seq(TemplateMessage) /\ id \in Nat /\ Last(given) \in TemplateMessage
  <2>1. PICK turns \in Nat : Len(given) = 2 * turns + 1
    BY DEF Received
  <2>2. given \in Seq(TemplateMessage)
    BY DEF Received
  <2>3. Len(given) \in 1 .. Len(given)
    BY <2>1
  <2> QED BY <2>2, <2>3 DEF Last
<1>2. UserTokens(Last(given)) \in Seq(TemplateTokens)
  BY <1>1, UserTokensAre
<1>3. before \in Seq(TemplateCells)
  BY <1>1, <1>2, RenderedAreCells
<1>4. /\ whole \in Seq(TemplateTokens) /\ Len(whole) = n + 1
      /\ \A i \in 1 .. n : whole[i] = before[i].token
      /\ whole[n + 1] = Control("assistant_start")
  BY <1>1, <1>2, PromptIs DEF WholePrompt
<1>5. /\ after \in Seq(TemplateCells) /\ Len(after) \in Nat \ {0}
      /\ after[1].token = Control("assistant_start")
      /\ \A j \in 2 .. Len(after) : CellOK(id, parts, after[j])
  BY <1>1, ReplyIs
<1>6. rendered = before \o after
  BY ReplyFollows
<1> HIDE DEF rendered, before, after, whole, id
<1>7. /\ rendered \in Seq(TemplateCells) /\ Len(rendered) = n + Len(after) /\ n \in Nat
      /\ \A i \in 1 .. n + Len(after) :
           rendered[i] = IF i <= n THEN before[i] ELSE after[i - n]
  <2>1. n \in Nat
    BY <1>3
  <2> QED BY <2>1, <1>3, <1>5, <1>6, ConcatProperties
<1>8. /\ TokensOf(rendered) \in Seq(TemplateTokens) /\ Len(TokensOf(rendered)) = Len(rendered)
      /\ \A i \in 1 .. Len(rendered) :
           TokensOf(rendered)[i] = rendered[i].token /\ LossOf(rendered)[i] = rendered[i].loss
  BY <1>7, FieldsAre DEF TemplateCells
<1>9. IsPrefix(whole, TokensOf(rendered))
  <2> DEFINE tokens == TokensOf(rendered)
  <2>1. Len(whole) <= Len(tokens) /\ n + 1 \in Nat
    BY <1>4, <1>5, <1>7, <1>8
  <2>2. ASSUME NEW i \in 1 .. n + 1 PROVE whole[i] = tokens[i]
    <3>1. i \in 1 .. Len(rendered) /\ i \in 1 .. n + Len(after)
      BY <1>5, <1>7
    <3>2. CASE i = n + 1
      <4>1. i - n = 1 /\ ~(i <= n)
        BY <1>7, <3>2
      <4>2. rendered[i] = after[1]
        BY <1>7, <3>1, <4>1
      <4> QED BY <1>4, <1>5, <1>8, <3>1, <3>2, <4>2
    <3>3. CASE i # n + 1
      <4>1. i \in 1 .. n /\ i <= n
        BY <1>7, <3>3
      <4>2. rendered[i] = before[i]
        BY <1>7, <3>1, <4>1
      <4> QED BY <1>4, <1>8, <3>1, <4>1, <4>2
    <3> QED BY <3>2, <3>3
  <2> HIDE DEF tokens
  <2>3. SubSeq(whole, 1, n + 1) = SubSeq(tokens, 1, n + 1)
    <3>1. SubSeq(whole, 1, n + 1) = [i \in 1 .. n + 1 |-> whole[i]]
      BY <1>4, <2>1
    <3>2. SubSeq(tokens, 1, n + 1) = [i \in 1 .. n + 1 |-> tokens[i]]
      BY <1>4, <1>8, <2>1 DEF tokens
    <3> QED BY <2>2, <3>1, <3>2
  <2> QED BY <1>4, <2>1, <2>3 DEF IsPrefix, tokens
<1>10. ASSUME NEW i \in Len(whole) + 1 .. Len(rendered)
       PROVE  LossOf(rendered)[i] <=>
                \/ WrittenIn(id, parts, TokensOf(rendered)[i])
                \/ TokensOf(rendered)[i] \in SupervisedControls
  <2>1. i \in 1 .. Len(rendered) /\ i \in 1 .. n + Len(after) /\ ~(i <= n)
        /\ i - n \in 2 .. Len(after)
    BY <1>4, <1>5, <1>7
  <2>2. rendered[i] = after[i - n]
    BY <1>7, <2>1
  <2>3. CellOK(id, parts, rendered[i])
    BY <1>5, <2>1, <2>2
  <2>4. TokensOf(rendered)[i] = rendered[i].token /\ LossOf(rendered)[i] = rendered[i].loss
    BY <1>8, <2>1
  <2> QED BY <2>3, <2>4 DEF CellOK
<1> QED BY <1>9, <1>10 DEF rendered, whole, id


-----------------------------------------------------------------------------
\* The prompt of one user message.
LEMMA SinglePromptIs ==
  ASSUME NEW m \in TemplateMessage, m.role = "user", NEW texts \in Seq(TemplateTokens)
  PROVE  LET prompt == PromptOf(<<m>>, texts)
         IN  /\ prompt \in Seq(TemplateTokens) /\ Len(prompt) = Len(texts) + 4
             /\ prompt[1] = Control("bos") /\ prompt[2] = Control("user_start")
             /\ \A k \in 1 .. Len(texts) : prompt[k + 2] = texts[k]
             /\ prompt[Len(texts) + 3] = Control("user_end")
             /\ prompt[Len(texts) + 4] = Control("assistant_start")
<1> DEFINE messages == <<m>>
           user == RenderedUser(texts)
           cells == RenderedMessages(messages, texts)
           prompt == PromptOf(messages, texts)
           bos == [token |-> Control("bos"), loss |-> FALSE]
           seqs == EachRendered(messages, texts)
<1>1. messages \in Seq(TemplateMessage) /\ Len(messages) = 1 /\ messages[1] = m
  OBVIOUS
<1> HIDE DEF messages
<1>2. /\ seqs \in Seq(Seq(TemplateCells)) /\ Len(seqs) = 1
      /\ seqs[1] = RenderedMessage(messages, 1, texts)
      /\ cells = <<bos>> \o FlattenSeq(seqs)
  <2> HIDE DEF seqs, cells
  <2>1. /\ seqs \in Seq(Seq(TemplateCells)) /\ Len(seqs) = Len(messages)
        /\ \A i \in 1 .. Len(messages) : seqs[i] = RenderedMessage(messages, i, texts)
    BY <1>1, MessagesAre DEF seqs
  <2>2. cells = <<bos>> \o FlattenSeq(seqs)
    BY <1>1, MessagesAre DEF seqs, cells
  <2>3. 1 \in 1 .. Len(messages)
    BY <1>1
  <2> QED BY <1>1, <2>1, <2>2, <2>3
<1>3. seqs[1] = user
  BY <1>1, <1>2 DEF RenderedMessage
<1>4. /\ user \in Seq(TemplateCells) /\ Len(user) = Len(texts) + 2
      /\ user[1].token = Control("user_start")
      /\ \A k \in 1 .. Len(texts) : user[k + 1].token = texts[k]
      /\ user[Len(texts) + 2].token = Control("user_end")
  BY RenderedUserIs
<1> HIDE DEF seqs, user, cells, prompt, bos
<1>5. cells = <<bos>> \o user
  <2>1. seqs = <<user>>
    BY <1>2, <1>3
  <2> QED BY <1>2, <1>4, <2>1, FlattenOne
<1>6. /\ prompt \in Seq(TemplateTokens) /\ Len(prompt) = Len(cells) + 1
      /\ \A i \in 1 .. Len(cells) : prompt[i] = cells[i].token
      /\ prompt[Len(cells) + 1] = Control("assistant_start")
  BY <1>1, PromptIs DEF prompt, cells
<1>7. bos \in TemplateCells /\ bos.token = Control("bos")
  <2>1. Control("bos") \in TemplateTokens
    BY ControlsAre DEF ControlNames
  <2> QED BY <2>1 DEF TemplateCells, bos
<1>8. /\ Len(cells) = Len(texts) + 3 /\ cells[1] = bos /\ Len(texts) \in Nat
      /\ \A k \in 1 .. Len(texts) + 2 : cells[k + 1] = user[k]
  <2> DEFINE one == <<bos>>
  <2>1. one \in Seq(TemplateCells) /\ Len(one) = 1 /\ one[1] = bos
    BY <1>7
  <2>2. cells = one \o user
    BY <1>5
  <2> HIDE DEF one
  <2>3. /\ Len(cells) = Len(one) + Len(user)
        /\ \A i \in 1 .. Len(one) + Len(user) :
             cells[i] = IF i <= Len(one) THEN one[i] ELSE user[i - Len(one)]
    <3>1. one \in Seq(TemplateCells) /\ user \in Seq(TemplateCells)
      BY <1>4, <2>1
    <3>2. /\ Len(one \o user) = Len(one) + Len(user)
          /\ \A i \in 1 .. Len(one) + Len(user) :
               (one \o user)[i] = IF i <= Len(one) THEN one[i] ELSE user[i - Len(one)]
      BY ONLY <3>1, ConcatProperties
    <3> QED BY <2>2, <3>2
  <2>4. Len(texts) \in Nat
    OBVIOUS
  <2>5. Len(one) + Len(user) = Len(texts) + 3
    BY <1>4, <2>1, <2>4
  <2>6. cells[1] = bos
    <3>1. 1 \in 1 .. Len(texts) + 3 /\ 1 <= Len(one)
      BY <2>1, <2>4
    <3> QED BY <2>1, <2>3, <2>5, <3>1
  <2>7. ASSUME NEW k \in 1 .. Len(texts) + 2 PROVE cells[k + 1] = user[k]
    <3>1. k + 1 \in 1 .. Len(texts) + 3 /\ ~(k + 1 <= Len(one)) /\ (k + 1) - Len(one) = k
      BY <2>1, <2>4
    <3> QED BY <2>3, <2>5, <3>1
  <2> QED BY <2>3, <2>4, <2>5, <2>6, <2>7
<1>9. Len(prompt) = Len(texts) + 4 /\ prompt[Len(texts) + 4] = Control("assistant_start")
  BY <1>6, <1>8
<1>10. \A k \in 1 .. Len(texts) + 2 : prompt[k + 1] = user[k].token
  <2> TAKE k \in 1 .. Len(texts) + 2
  <2>1. k + 1 \in 1 .. Len(cells)
    BY <1>8
  <2> QED BY <1>6, <1>8, <2>1
<1>11. prompt[1] = Control("bos")
  <2>1. 1 \in 1 .. Len(cells)
    BY <1>8
  <2> QED BY <1>6, <1>7, <1>8, <2>1
<1>12. prompt[2] = Control("user_start") /\ prompt[Len(texts) + 3] = Control("user_end")
  <2>1. /\ 1 \in 1 .. Len(texts) + 2 /\ 1 + 1 = 2
        /\ Len(texts) + 2 \in 1 .. Len(texts) + 2 /\ (Len(texts) + 2) + 1 = Len(texts) + 3
    BY <1>8
  <2>2. prompt[1 + 1] = user[1].token /\ prompt[(Len(texts) + 2) + 1] = user[Len(texts) + 2].token
    BY <1>10, <2>1
  <2> QED BY <1>4, <2>1, <2>2
<1>13. ASSUME NEW k \in 1 .. Len(texts) PROVE prompt[k + 2] = texts[k]
  <2>1. k + 1 \in 1 .. Len(texts) + 2 /\ (k + 1) + 1 = k + 2
    BY <1>8
  <2>2. prompt[(k + 1) + 1] = user[k + 1].token
    BY <1>10, <2>1
  <2> QED BY <1>4, <2>1, <2>2
<1> QED BY <1>6, <1>9, <1>11, <1>12, <1>13 DEF prompt, messages

\* A sequence is a suffix of what ends with its elements.
LEMMA EndsWithIs ==
  ASSUME NEW S, NEW s \in Seq(S), NEW t \in Seq(S), Len(s) <= Len(t),
         \A i \in 1 .. Len(s) : s[i] = t[(Len(t) - Len(s)) + i]
  PROVE  IsSuffix(s, t)
<1> DEFINE n == Len(s)
           m == Len(t)
           rs == Reverse(s)
           rt == Reverse(t)
<1>1. n \in Nat /\ m \in Nat
  OBVIOUS
<1>2. /\ rs = [i \in 1 .. n |-> s[(n - i) + 1]]
      /\ rt = [i \in 1 .. m |-> t[(m - i) + 1]]
  BY DEF Reverse
<1>3. Len(rs) = n /\ Len(rt) = m
  BY <1>1, <1>2
<1>4. ASSUME NEW i \in 1 .. n PROVE rs[i] = rt[i]
  <2>1. i \in 1 .. m /\ (n - i) + 1 \in 1 .. n /\ (m - n) + ((n - i) + 1) = (m - i) + 1
    BY <1>1
  <2>2. s[(n - i) + 1] = t[(m - n) + ((n - i) + 1)]
    BY <2>1
  <2> QED BY <1>2, <2>1, <2>2
<1>5. SubSeq(rs, 1, n) = [i \in 1 .. n |-> rs[i]] /\ SubSeq(rt, 1, n) = [i \in 1 .. n |-> rt[i]]
  BY <1>1
<1>6. SubSeq(rs, 1, Len(rs)) = SubSeq(rt, 1, Len(rs))
  BY <1>3, <1>4, <1>5
<1> QED BY <1>3, <1>6 DEF IsSuffix, IsPrefix

-----------------------------------------------------------------------------
\* What is left of the messages when turns are dropped.
LaterTurns(given, dropped) == SubSeq(given, 2 * dropped + 1, Len(given))

LEMMA HalfOfDouble ==
  \A d, n \in Nat : n - 2 * d = 1 => (n - 1) \div 2 = d
  OBVIOUS

\* They end with the same user message; without one turn more they are what
\* dropping it leaves; and when they are one message it is the last one.
LEMMA LaterTurnsAre ==
  ASSUME NEW given, Received(given), NEW d \in Nat, 2 * d < Len(given)
  PROVE  LET rest == LaterTurns(given, d)
         IN  /\ rest \in Seq(TemplateMessage) /\ Len(rest) = Len(given) - 2 * d
             /\ Last(rest) \in TemplateMessage /\ Last(rest).role = "user"
             /\ Len(rest) > 1 =>
                  /\ 2 * (d + 1) < Len(given)
                  /\ SubSeq(rest, 3, Len(rest)) = LaterTurns(given, d + 1)
             /\ Len(rest) = 1 =>
                  /\ rest = <<Last(rest)>>
                  /\ rest = LaterTurns(given, (Len(given) - 1) \div 2)
<1> DEFINE n == Len(given)
           rest == LaterTurns(given, d)
<1>1. given \in Seq(TemplateMessage) /\ given[n].role = "user"
  BY DEF Received
<1>2. PICK turns \in Nat : n = 2 * turns + 1
  BY DEF Received
<1>3. n \in Nat /\ DOMAIN given = 1 .. n /\ \A i \in 1 .. n : given[i] \in TemplateMessage
  BY <1>1
<1>4. /\ rest \in Seq(TemplateMessage) /\ Len(rest) = n - 2 * d
      /\ \A i \in 1 .. n - 2 * d : rest[i] = given[2 * d + i]
  <2>1. 2 * d + 1 \in Int /\ n \in Int /\ 2 * d + 1 <= n /\ (n - (2 * d + 1)) + 1 = n - 2 * d
    BY <1>3
  <2>2. \A i \in 2 * d + 1 .. n : given[i] \in TemplateMessage
    BY <1>3
  <2>3. /\ rest \in Seq(TemplateMessage)
        /\ Len(rest) = IF 2 * d + 1 <= n THEN (n - (2 * d + 1)) + 1 ELSE 0
        /\ \A i \in 1 .. (n - (2 * d + 1)) + 1 : rest[i] = given[((2 * d + 1) + i) - 1]
    BY <2>1, <2>2, SubSeqProperties DEF LaterTurns
  <2>4. \A i \in 1 .. n - 2 * d : ((2 * d + 1) + i) - 1 = 2 * d + i
    BY <1>3
  <2> HIDE DEF rest
  <2> QED BY <2>1, <2>3, <2>4
<1> HIDE DEF rest
<1>5. Last(rest) = given[n]
  <2>1. n - 2 * d \in 1 .. n - 2 * d /\ 2 * d + (n - 2 * d) = n
    BY <1>3
  <2> QED BY <1>4, <2>1 DEF Last
<1>6. Last(rest) \in TemplateMessage /\ Last(rest).role = "user"
  BY <1>1, <1>2, <1>3, <1>5
<1>7. ASSUME Len(rest) > 1
      PROVE  /\ 2 * (d + 1) < n
             /\ SubSeq(rest, 3, Len(rest)) = LaterTurns(given, d + 1)
  <2>1. 2 * (d + 1) < n
    BY <1>2, <1>4, <1>7
  <2>2. SubSeq(rest, 3, Len(rest)) = [i \in 1 .. (n - 2 * d) - 2 |-> rest[i + 2]]
    BY <1>3, <1>4, <2>1
  <2>3. LaterTurns(given, d + 1) = [i \in 1 .. (n - 2 * d) - 2 |-> given[2 * d + (i + 2)]]
    BY <1>3, <2>1 DEF LaterTurns
  <2>4. \A i \in 1 .. (n - 2 * d) - 2 : rest[i + 2] = given[2 * d + (i + 2)]
    BY <1>3, <1>4
  <2> QED BY <2>1, <2>2, <2>3, <2>4
<1>8. ASSUME Len(rest) = 1
      PROVE  rest = <<Last(rest)>> /\ rest = LaterTurns(given, (n - 1) \div 2)
  <2>1. (n - 1) \div 2 = d
    <3>1. n - 2 * d = 1
      BY <1>4, <1>8
    <3> QED BY <1>3, <3>1, HalfOfDouble
  <2>2. rest = <<rest[1]>>
    <3> DEFINE only == <<rest[1]>>
    <3>1. 1 \in 1 .. n - 2 * d
      BY <1>4, <1>8
    <3>2. rest[1] \in TemplateMessage
      BY <1>4, <3>1
    <3>3. only \in Seq(TemplateMessage) /\ Len(only) = 1 /\ only[1] = rest[1]
      BY <3>2
    <3> HIDE DEF only
    <3>4. \A i \in 1 .. Len(rest) : rest[i] = only[i]
      BY <1>8, <3>3
    <3>5. rest \in Seq(TemplateMessage) /\ Len(rest) = Len(only)
      BY <1>4, <1>8, <3>3
    <3>6. rest = only
      BY ONLY <3>3, <3>4, <3>5, SeqEqual
    <3> QED BY <3>6 DEF only
  <2> QED BY <1>8, <2>1, <2>2 DEF Last, rest
<1> QED BY <1>4, <1>6, <1>7, <1>8 DEF rest


-----------------------------------------------------------------------------
\* Where the replies and the user messages stand.
LEMMA HalvesAre ==
  \A t \in Nat : /\ (2 * t + 1) % 2 # 0
                 /\ \A i \in 1 .. 2 * t + 1 :
                      /\ i % 2 = 0 => i \div 2 \in 1 .. t
                      /\ i % 2 # 0 => (i + 1) \div 2 \in 1 .. t + 1
  OBVIOUS

LEMMA WholePromptIs ==
  ASSUME NEW messages \in Seq(TemplateMessage), Last(messages) \in TemplateMessage
  PROVE  WholePrompt(messages) \in Seq(TemplateTokens)
<1>1. UserTokens(Last(messages)) \in Seq(TemplateTokens)
  BY UserTokensAre
<1> QED BY <1>1, PromptIs DEF WholePrompt

\* The prompt of what is left is a sequence of tokens.
LEMMA LatestIsReceived ==
  ASSUME NEW given, Received(given), NEW d \in Nat, 2 * d < Len(given)
  PROVE  /\ LaterTurns(given, d) \in Seq(TemplateMessage)
         /\ WholePrompt(LaterTurns(given, d)) \in Seq(TemplateTokens)
<1>1. /\ LaterTurns(given, d) \in Seq(TemplateMessage)
      /\ Last(LaterTurns(given, d)) \in TemplateMessage
  BY LaterTurnsAre
<1> QED BY <1>1, WholePromptIs

\* What _merge_leading_system makes of the texts is a conversation.
LEMMA MessagesAreReceived ==
  ASSUME NEW system \in Systems, NEW turns \in Nat,
         NEW users \in [1 .. turns + 1 -> UserSizes],
         NEW replies \in [1 .. turns -> AssistantParts]
  PROVE  Received(MessagesOf(system, users, replies))
<1> DEFINE n == 2 * turns + 1
           lead == [p \in DOMAIN system |-> [kind |-> "text", size |-> system[p]]]
           own(i) == <<[kind |-> "text", size |-> users[(i + 1) \div 2]]>>
           first(i) == [p \in DOMAIN (IF i = 1 THEN system ELSE <<>>) |->
                          [kind |-> "text", size |-> system[p]]]
           messages == MessagesOf(system, users, replies)
<1>1. Len(users) = turns + 1 /\ 2 * Len(users) - 1 = n
  <2>1. turns + 1 \in Nat
    OBVIOUS
  <2>2. Len(users) = turns + 1
    BY <2>1, IsSequence
  <2> QED BY <2>2
<1>2. /\ system \in Seq(Nat) /\ UserSizes \subseteq Nat
      /\ AssistantParts \subseteq Seq(ContentPart)
  BY DEF RenderingAssumption
<1>3. \A size \in Nat : [kind |-> "text", size |-> size] \in ContentPart
  BY DEF ContentPart
<1>4. ASSUME NEW i \in 1 .. n PROVE first(i) \in Seq(ContentPart)
  <2>1. CASE i = 1
    <3>1. DOMAIN system = 1 .. Len(system) /\ Len(system) \in Nat
          /\ \A p \in 1 .. Len(system) : system[p] \in Nat
      BY <1>2
    <3>2. first(i) = lead
      BY <2>1
    <3>3. lead \in [1 .. Len(system) -> ContentPart]
      BY <1>3, <3>1
    <3> HIDE DEF lead
    <3>4. lead \in Seq(ContentPart)
      BY <3>1, <3>3, IsSequence
    <3> QED BY <3>2, <3>4
  <2>2. CASE i # 1
    <3>1. first(i) = <<>>
      BY <2>2
    <3>2. <<>> \in Seq(ContentPart)
      OBVIOUS
    <3> HIDE DEF first
    <3> QED BY <3>1, <3>2
  <2> QED BY <2>1, <2>2
<1>5. ASSUME NEW i \in 1 .. n, i % 2 # 0 PROVE own(i) \in Seq(ContentPart)
  <2>1. (i + 1) \div 2 \in 1 .. turns + 1
    BY <1>5, HalvesAre
  <2>2. users[(i + 1) \div 2] \in Nat
    BY <1>2, <2>1
  <2>3. [kind |-> "text", size |-> users[(i + 1) \div 2]] \in ContentPart
    BY <1>3, <2>2
  <2> QED BY <2>3
<1>6. ASSUME NEW i \in 1 .. n, i % 2 = 0 PROVE replies[i \div 2] \in Seq(ContentPart)
  <2>1. i \div 2 \in 1 .. turns
    BY <1>6, HalvesAre
  <2> QED BY <1>2, <2>1
<1> DEFINE message(i) ==
             IF i % 2 = 0 THEN [role |-> "assistant", id |-> i, parts |-> replies[i \div 2]]
             ELSE [role |-> "user", id |-> i, parts |-> first(i) \o own(i)]
<1>7. messages = [i \in 1 .. n |-> message(i)]
  BY <1>1 DEF MessagesOf
<1> HIDE DEF first, own, messages
<1>8. ASSUME NEW i \in 1 .. n PROVE message(i) \in TemplateMessage
  <2>1. CASE i % 2 = 0
    BY <1>6, <2>1 DEF TemplateMessage
  <2>2. CASE i % 2 # 0
    <3>1. first(i) \o own(i) \in Seq(ContentPart)
      BY <1>4, <1>5, <2>2, ConcatProperties
    <3> QED BY <2>2, <3>1 DEF TemplateMessage
  <2> QED BY <2>1, <2>2
<1>9. message(n).role = "user"
  <2>1. n % 2 # 0
    BY HalvesAre
  <2> QED BY <2>1
<1> HIDE DEF message
<1>10. messages \in [1 .. n -> TemplateMessage]
  BY <1>7, <1>8
<1>11. messages \in Seq(TemplateMessage) /\ Len(messages) = n
  <2>1. n \in Nat
    OBVIOUS
  <2> QED BY <1>10, <2>1, IsSequence
<1>12. messages[Len(messages)].role = "user"
  <2>1. n \in 1 .. n
    OBVIOUS
  <2> QED BY <1>7, <1>9, <1>11, <2>1
<1> QED BY <1>11, <1>12 DEF Received, messages

-----------------------------------------------------------------------------
\* The latest part of a user message that is too long.
LEMMA TruncatedIs ==
  ASSUME NEW m \in TemplateMessage, m.role = "user", NEW texts \in Seq(TemplateTokens),
         NEW limit \in Nat, 4 <= limit, limit < Len(texts) + 4
  PROVE  LET kept == SubSeq(texts, Len(texts) - (limit - 4) + 1, Len(texts))
             prompt == PromptOf(<<m>>, kept)
         IN  /\ Len(texts) - Len(kept) \in Nat \ {0}
             /\ prompt \in Seq(TemplateTokens) /\ Len(prompt) = limit
             /\ IsSuffix(SubSeq(prompt, 3, limit), PromptOf(<<m>>, texts))
<1> DEFINE kept == SubSeq(texts, Len(texts) - (limit - 4) + 1, Len(texts))
           prompt == PromptOf(<<m>>, kept)
           whole == PromptOf(<<m>>, texts)
           end == SubSeq(prompt, 3, limit)
           n == Len(texts)
<1>1. n \in Nat
  OBVIOUS
<1>2. /\ kept \in Seq(TemplateTokens) /\ Len(kept) = limit - 4
      /\ \A k \in 1 .. limit - 4 : kept[k] = texts[(n - (limit - 4)) + k]
  <2> DEFINE from == n - (limit - 4) + 1
  <2>1. from \in Int /\ from \in 1 .. n + 1 /\ n - from + 1 = limit - 4
    BY <1>1
  <2>2. \A i \in from .. n : texts[i] \in TemplateTokens
    BY <2>1
  <2>3. \A k \in 1 .. limit - 4 : (from + k) - 1 = (n - (limit - 4)) + k
    BY <1>1
  <2>4. kept = SubSeq(texts, from, n)
    OBVIOUS
  <2>5. IF from <= n THEN (n - from) + 1 = limit - 4 ELSE 0 = limit - 4
    BY <1>1
  <2> HIDE DEF from, kept
  <2>6. /\ kept \in Seq(TemplateTokens)
        /\ Len(kept) = IF from <= n THEN (n - from) + 1 ELSE 0
        /\ \A i \in 1 .. (n - from) + 1 : kept[i] = texts[(from + i) - 1]
    BY <1>1, <2>1, <2>2, <2>4, SubSeqProperties
  <2> QED BY <2>1, <2>3, <2>5, <2>6
<1> HIDE DEF kept
<1>3. /\ prompt \in Seq(TemplateTokens) /\ Len(prompt) = limit
      /\ \A k \in 1 .. limit - 4 : prompt[k + 2] = kept[k]
      /\ prompt[limit - 1] = Control("user_end")
      /\ prompt[limit] = Control("assistant_start")
  <2>1. /\ prompt \in Seq(TemplateTokens) /\ Len(prompt) = Len(kept) + 4
        /\ \A k \in 1 .. Len(kept) : prompt[k + 2] = kept[k]
        /\ prompt[Len(kept) + 3] = Control("user_end")
        /\ prompt[Len(kept) + 4] = Control("assistant_start")
    BY <1>2, SinglePromptIs
  <2>2. Len(kept) + 4 = limit /\ Len(kept) + 3 = limit - 1
    BY <1>2
  <2> QED BY <1>2, <2>1, <2>2
<1>4. /\ whole \in Seq(TemplateTokens) /\ Len(whole) = n + 4
      /\ \A k \in 1 .. n : whole[k + 2] = texts[k]
      /\ whole[n + 3] = Control("user_end")
      /\ whole[n + 4] = Control("assistant_start")
  BY SinglePromptIs
<1> HIDE DEF prompt, whole, n
<1>5. /\ end \in Seq(TemplateTokens) /\ Len(end) = limit - 2
      /\ \A i \in 1 .. limit - 2 : end[i] = prompt[i + 2]
  <2>1. \A i \in 3 .. limit : prompt[i] \in TemplateTokens
    BY <1>3
  <2>2. /\ end \in Seq(TemplateTokens)
        /\ Len(end) = IF 3 <= limit THEN (limit - 3) + 1 ELSE 0
        /\ \A i \in 1 .. (limit - 3) + 1 : end[i] = prompt[(3 + i) - 1]
    BY <2>1, SubSeqProperties
  <2>3. \A i \in 1 .. limit - 2 : (3 + i) - 1 = i + 2
    OBVIOUS
  <2> HIDE DEF end
  <2> QED BY <2>2, <2>3
<1> HIDE DEF end
<1>6. ASSUME NEW i \in 1 .. limit - 2 PROVE end[i] = whole[((n + 4) - (limit - 2)) + i]
  <2>1. CASE i = limit - 2
    <3>1. i + 2 = limit /\ ((n + 4) - (limit - 2)) + i = n + 4
      BY <1>1, <2>1
    <3> QED BY <1>3, <1>4, <1>5, <3>1
  <2>2. CASE i = limit - 3
    <3>1. i + 2 = limit - 1 /\ ((n + 4) - (limit - 2)) + i = n + 3
      BY <1>1, <2>2
    <3> QED BY <1>3, <1>4, <1>5, <3>1
  <2>3. CASE i \in 1 .. limit - 4
    <3> DEFINE k == (n - (limit - 4)) + i
    <3>1. k \in 1 .. n /\ k + 2 = ((n + 4) - (limit - 2)) + i
      BY <1>1, <2>3 DEF n
    <3>2. end[i] = texts[k]
      BY <1>2, <1>3, <1>5, <2>3 DEF n
    <3> HIDE DEF k
    <3> QED BY <1>4, <3>1, <3>2
  <2>4. i = limit - 2 \/ i = limit - 3 \/ i \in 1 .. limit - 4
    OBVIOUS
  <2> QED BY <2>1, <2>2, <2>3, <2>4
<1>7. IsSuffix(end, whole)
  <2>1. Len(end) <= Len(whole)
    BY <1>1, <1>4, <1>5 DEF n
  <2>2. \A i \in 1 .. Len(end) : end[i] = whole[(Len(whole) - Len(end)) + i]
    BY <1>4, <1>5, <1>6
  <2> QED BY <1>4, <1>5, <2>1, <2>2, EndsWithIs
<1>8. n - Len(kept) \in Nat \ {0}
  BY <1>1, <1>2 DEF n
<1> QED BY <1>3, <1>7, <1>8 DEF kept, prompt, whole, end, n

\* The controls about a single user message: four.
LEMMA FixedTokensAre ==
  FixedTokens = 4
<1> DEFINE m == [role |-> "user", id |-> 0, parts |-> <<>>]
           none == <<>>
<1>1. m \in TemplateMessage /\ m.role = "user"
  BY DEF TemplateMessage
<1>2. none \in Seq(TemplateTokens) /\ Len(none) = 0
  OBVIOUS
<1>3. FixedTokens = Len(PromptOf(<<m>>, none))
  BY DEF FixedTokens
<1> HIDE DEF m, none
<1>4. Len(PromptOf(<<m>>, none)) = Len(none) + 4
  BY <1>1, <1>2, SinglePromptIs
<1> QED BY <1>2, <1>3, <1>4


-----------------------------------------------------------------------------
\* A call, while turns are dropped and when it is over.
PromptingRecord ==
  [at : {"bound", "refused", "done"}, given : Seq(TemplateMessage),
   messages : Seq(TemplateMessage), limit : Nat, dropped : Nat, truncated : Nat,
   prompt : Seq(TemplateTokens)]

\* Every shorter bound than the one reached was tried, and was too long.
LongerAreTooLong(given, dropped, limit) ==
  \A fewer \in 0 .. dropped - 1 : Len(WholePrompt(LaterTurns(given, fewer))) > limit

RenderingInv ==
  /\ prompting \in PromptingRecord
  /\ Received(prompting.given)
  /\ 2 * prompting.dropped < Len(prompting.given)
  /\ prompting.messages = LaterTurns(prompting.given, prompting.dropped)
  /\ prompting.at = "bound" =>
       prompting.truncated = 0 /\ prompting.prompt = WholePrompt(prompting.messages)
  /\ LongerAreTooLong(prompting.given, prompting.dropped, prompting.limit)
  /\ PromptIsLatest

LEMMA RenderingInitially ==
  RenderingInit => RenderingInv
<1> SUFFICES ASSUME RenderingInit PROVE RenderingInv
  OBVIOUS
<1>1. PICK system \in Systems, turns \in 0 .. MaxTurns, limit \in TokenLimits :
        \E users \in [1 .. turns + 1 -> UserSizes], replies \in [1 .. turns -> AssistantParts] :
          prompting = [at |-> "bound", given |-> MessagesOf(system, users, replies),
                       messages |-> MessagesOf(system, users, replies), limit |-> limit,
                       dropped |-> 0, truncated |-> 0,
                       prompt |-> WholePrompt(MessagesOf(system, users, replies))]
  BY DEF RenderingInit
<1>2. PICK users \in [1 .. turns + 1 -> UserSizes], replies \in [1 .. turns -> AssistantParts] :
        prompting = [at |-> "bound", given |-> MessagesOf(system, users, replies),
                     messages |-> MessagesOf(system, users, replies), limit |-> limit,
                     dropped |-> 0, truncated |-> 0,
                     prompt |-> WholePrompt(MessagesOf(system, users, replies))]
  BY <1>1
<1> DEFINE given == MessagesOf(system, users, replies)
<1>3. turns \in Nat /\ limit \in Nat
  BY DEF RenderingAssumption
<1>4. Received(given)
  BY <1>3, MessagesAreReceived
<1>5. prompting = [at |-> "bound", given |-> given, messages |-> given, limit |-> limit,
                   dropped |-> 0, truncated |-> 0, prompt |-> WholePrompt(given)]
  BY <1>2
<1> HIDE DEF given
<1>6. given \in Seq(TemplateMessage) /\ Len(given) \in Nat /\ 2 * 0 < Len(given)
  BY <1>4 DEF Received
<1>7. LaterTurns(given, 0) = given
  <2>1. SubSeq(given, 1, Len(given)) = given
    BY <1>6
  <2>2. 2 * 0 + 1 = 1
    OBVIOUS
  <2> QED BY <2>1, <2>2 DEF LaterTurns
<1>8. WholePrompt(given) \in Seq(TemplateTokens)
  BY <1>4, <1>6, <1>7, LatestIsReceived
<1>9. prompting \in PromptingRecord
  BY <1>3, <1>5, <1>6, <1>8 DEF PromptingRecord
<1>10. LongerAreTooLong(given, 0, limit)
  BY DEF LongerAreTooLong
<1>11. prompting.at # "done"
  BY <1>5
<1>12. PromptIsLatest
  BY <1>11 DEF PromptIsLatest
<1>13. /\ prompting.given = given /\ prompting.messages = given /\ prompting.limit = limit
       /\ prompting.dropped = 0 /\ prompting.truncated = 0
       /\ prompting.prompt = WholePrompt(given)
  BY <1>5
<1> QED BY <1>4, <1>6, <1>7, <1>9, <1>10, <1>12, <1>13 DEF RenderingInv

\* Dropping a turn: the bound that was too long is one of those tried.
LEMMA DropTurnKeeps ==
  ASSUME RenderingInv, DropTurn
  PROVE  RenderingInv'
<1> DEFINE given == prompting.given
           limit == prompting.limit
           d == prompting.dropped
           rest == SubSeq(prompting.messages, 3, Len(prompting.messages))
<1>1. /\ prompting \in PromptingRecord /\ Received(given) /\ 2 * d < Len(given)
      /\ prompting.messages = LaterTurns(given, d)
      /\ LongerAreTooLong(given, d, limit)
  BY DEF RenderingInv
<1>2. /\ prompting.at = "bound" /\ Len(prompting.prompt) > limit
      /\ Len(prompting.messages) > 1
      /\ prompting' = [prompting EXCEPT !.messages = rest, !.dropped = d + 1,
                                        !.prompt = WholePrompt(rest)]
  BY DEF DropTurn, TooLong
<1>3. prompting.truncated = 0 /\ prompting.prompt = WholePrompt(prompting.messages)
  BY <1>2 DEF RenderingInv
<1>4. d \in Nat /\ limit \in Nat
  BY <1>1 DEF PromptingRecord
<1>5. 2 * (d + 1) < Len(given) /\ rest = LaterTurns(given, d + 1)
  <2>1. Len(LaterTurns(given, d)) > 1
    BY <1>1, <1>2
  <2>2. /\ 2 * (d + 1) < Len(given)
        /\ SubSeq(LaterTurns(given, d), 3, Len(LaterTurns(given, d))) = LaterTurns(given, d + 1)
    BY <1>1, <1>4, <2>1, LaterTurnsAre
  <2> QED BY <1>1, <2>2
<1> HIDE DEF rest
<1>6. rest \in Seq(TemplateMessage) /\ WholePrompt(rest) \in Seq(TemplateTokens)
  <2> DEFINE e == d + 1
  <2>1. e \in Nat /\ 2 * e < Len(given) /\ rest = LaterTurns(given, e)
    BY <1>4, <1>5
  <2> HIDE DEF e
  <2>2. /\ LaterTurns(given, e) \in Seq(TemplateMessage)
        /\ WholePrompt(LaterTurns(given, e)) \in Seq(TemplateTokens)
    BY <1>1, <2>1, LatestIsReceived
  <2> QED BY <2>1, <2>2
<1>7. /\ prompting'.given = given /\ prompting'.limit = limit /\ prompting'.at = "bound"
      /\ prompting'.messages = rest /\ prompting'.dropped = d + 1
      /\ prompting'.truncated = 0 /\ prompting'.prompt = WholePrompt(rest)
      /\ prompting' \in PromptingRecord
  <2>1. d + 1 \in Nat
    BY <1>4
  <2> HIDE DEF d
  <2> QED BY <1>1, <1>2, <1>3, <1>6, <2>1 DEF PromptingRecord
<1>8. LongerAreTooLong(given, d + 1, limit)
  <2> SUFFICES ASSUME NEW fewer \in 0 .. (d + 1) - 1
               PROVE  Len(WholePrompt(LaterTurns(given, fewer))) > limit
    BY DEF LongerAreTooLong
  <2>1. CASE fewer = d
    BY <1>1, <1>2, <1>3, <2>1
  <2>2. CASE fewer # d
    <3>1. fewer \in 0 .. d - 1
      BY <1>4, <2>2
    <3> QED BY <1>1, <3>1 DEF LongerAreTooLong
  <2> QED BY <2>1, <2>2
<1>9. PromptIsLatest'
  BY <1>7 DEF PromptIsLatest
<1> QED BY <1>1, <1>5, <1>7, <1>8, <1>9 DEF RenderingInv

\* The end of a call leaves all but its outcome.
LEMMA CallEnds ==
  ASSUME RenderingInv, prompting.at = "bound",
         NEW at \in {"refused", "done"}, NEW truncated \in Nat,
         NEW prompt \in Seq(TemplateTokens),
         prompting' = [prompting EXCEPT !.at = at, !.truncated = truncated, !.prompt = prompt],
         at = "done" =>
           /\ Len(prompt) <= prompting.limit
           /\ IF truncated = 0 THEN prompt = WholePrompt(prompting.messages)
              ELSE /\ Len(prompt) = prompting.limit
                   /\ prompting.messages = LastUserOnly
                   /\ IsSuffix(SubSeq(prompt, 3, prompting.limit), WholePrompt(LastUserOnly))
  PROVE  RenderingInv'
<1>1. /\ prompting \in PromptingRecord /\ Received(prompting.given)
      /\ 2 * prompting.dropped < Len(prompting.given)
      /\ prompting.messages = LaterTurns(prompting.given, prompting.dropped)
      /\ LongerAreTooLong(prompting.given, prompting.dropped, prompting.limit)
  BY DEF RenderingInv
<1>2. /\ prompting'.given = prompting.given /\ prompting'.limit = prompting.limit
      /\ prompting'.messages = prompting.messages /\ prompting'.dropped = prompting.dropped
      /\ prompting'.at = at /\ prompting'.truncated = truncated /\ prompting'.prompt = prompt
      /\ prompting' \in PromptingRecord
  BY <1>1 DEF PromptingRecord
<1>3. LastUserOnly' = LastUserOnly /\ \A fewer \in Int : Suffix(fewer)' = Suffix(fewer)
  BY <1>2 DEF LastUserOnly, Suffix
<1>4. \A fewer : Suffix(fewer)' = LaterTurns(prompting.given, fewer)
  BY <1>2 DEF Suffix, LaterTurns
<1>5. PromptIsLatest'
  <2> SUFFICES ASSUME prompting'.at = "done"
               PROVE  PromptIsLatest'
    BY DEF PromptIsLatest
  <2>1. at = "done" /\ Len(prompt) <= prompting.limit
    BY <1>2
  <2>2. prompting'.messages = Suffix(prompting.dropped)'
    BY <1>1, <1>2, <1>4
  <2>3. \A fewer \in 0 .. prompting.dropped - 1 :
          Len(WholePrompt(LaterTurns(prompting.given, fewer))) > prompting.limit
    BY <1>1 DEF LongerAreTooLong
  <2> QED BY <1>2, <1>3, <1>4, <2>1, <2>2, <2>3 DEF PromptIsLatest
<1> QED BY <1>1, <1>2, <1>5 DEF RenderingInv


\* Keeping the latest part of the only message left.
LEMMA TruncateUserKeeps ==
  ASSUME RenderingInv, TruncateUser
  PROVE  RenderingInv'
<1> DEFINE given == prompting.given
           limit == prompting.limit
           m == prompting.messages[1]
           texts == UserTokens(m)
           kept == SubSeq(texts, Len(texts) - (limit - 4) + 1, Len(texts))
           prompt == PromptOf(<<m>>, kept)
           truncated == Len(texts) - Len(kept)
<1>1. /\ prompting \in PromptingRecord /\ Received(given) /\ 2 * prompting.dropped < Len(given)
      /\ prompting.messages = LaterTurns(given, prompting.dropped)
  BY DEF RenderingInv
<1>2. /\ prompting.at = "bound" /\ Len(prompting.prompt) > limit
      /\ Len(prompting.messages) = 1 /\ 4 <= limit
      /\ prompting' = [prompting EXCEPT !.at = "done", !.truncated = truncated,
                                        !.prompt = PromptOf(prompting.messages, kept)]
  BY FixedTokensAre DEF TruncateUser, TooLong
<1>3. prompting.prompt = WholePrompt(prompting.messages)
  BY <1>2 DEF RenderingInv
<1>4. prompting.dropped \in Nat /\ limit \in Nat
  BY <1>1 DEF PromptingRecord
<1>5. /\ Last(prompting.messages) \in TemplateMessage
      /\ Last(prompting.messages).role = "user"
      /\ prompting.messages = <<Last(prompting.messages)>>
      /\ prompting.messages = LaterTurns(given, (Len(given) - 1) \div 2)
  <2>1. Len(LaterTurns(given, prompting.dropped)) = 1
    BY <1>1, <1>2
  <2> DEFINE rest == LaterTurns(given, prompting.dropped)
  <2>2. /\ Last(rest) \in TemplateMessage /\ Last(rest).role = "user"
        /\ rest = <<Last(rest)>> /\ rest = LaterTurns(given, (Len(given) - 1) \div 2)
    BY <1>1, <1>4, <2>1, LaterTurnsAre
  <2>3. rest = prompting.messages
    BY <1>1
  <2> HIDE DEF rest
  <2> QED BY <2>2, <2>3
<1>6. Last(prompting.messages) = m
  BY <1>2 DEF Last
<1>7. m \in TemplateMessage /\ m.role = "user" /\ prompting.messages = <<m>>
  BY <1>5, <1>6
<1>8. texts \in Seq(TemplateTokens)
  BY <1>7, UserTokensAre
<1> HIDE DEF m
<1>9. WholePrompt(prompting.messages) = PromptOf(<<m>>, texts)
  BY <1>6, <1>7 DEF WholePrompt
<1>10. limit < Len(texts) + 4
  <2>1. Len(PromptOf(<<m>>, texts)) = Len(texts) + 4
    BY <1>7, <1>8, SinglePromptIs
  <2> QED BY <1>2, <1>3, <1>4, <1>8, <1>9, <2>1
<1> HIDE DEF texts
<1>11. /\ truncated \in Nat \ {0}
       /\ prompt \in Seq(TemplateTokens) /\ Len(prompt) = limit
       /\ IsSuffix(SubSeq(prompt, 3, limit), PromptOf(<<m>>, texts))
  BY <1>2, <1>4, <1>7, <1>8, <1>10, TruncatedIs
<1>12. prompting.messages = LastUserOnly
  BY <1>5 DEF LastUserOnly, Suffix, LaterTurns
<1>13. IsSuffix(SubSeq(prompt, 3, limit), WholePrompt(LastUserOnly))
  BY <1>9, <1>11, <1>12
<1>14. prompting' = [prompting EXCEPT !.at = "done", !.truncated = truncated, !.prompt = prompt]
  BY <1>2, <1>7
<1>15. Len(prompt) <= limit
  BY <1>4, <1>11
<1> HIDE DEF prompt, truncated, kept
<1> QED BY <1>2, <1>11, <1>12, <1>13, <1>14, <1>15, CallEnds

\* Refusing, and returning what fits.
LEMMA OthersEnd ==
  ASSUME RenderingInv, RefusePrompt \/ ReturnPrompt
  PROVE  RenderingInv'
<1>1. /\ prompting.at = "bound" /\ prompting.truncated = 0
      /\ prompting.prompt = WholePrompt(prompting.messages)
      /\ prompting.prompt \in Seq(TemplateTokens)
      /\ prompting.limit \in Nat /\ prompting \in PromptingRecord
  BY DEF RenderingInv, RefusePrompt, ReturnPrompt, PromptingRecord
<1>2. ASSUME NEW at \in {"refused", "done"}, prompting' = [prompting EXCEPT !.at = at]
      PROVE  prompting' = [prompting EXCEPT !.at = at, !.truncated = prompting.truncated,
                                            !.prompt = prompting.prompt]
  BY <1>1, <1>2 DEF PromptingRecord
<1>3. CASE RefusePrompt
  <2>1. prompting' = [prompting EXCEPT !.at = "refused"]
    BY <1>3 DEF RefusePrompt
  <2>2. prompting' = [prompting EXCEPT !.at = "refused", !.truncated = prompting.truncated,
                                       !.prompt = prompting.prompt]
    BY <1>2, <2>1
  <2> DEFINE truncated == prompting.truncated
             prompt == prompting.prompt
  <2>3. truncated \in Nat /\ prompt \in Seq(TemplateTokens)
    BY <1>1
  <2> HIDE DEF truncated, prompt
  <2> QED BY <1>1, <2>2, <2>3, CallEnds DEF truncated, prompt
<1>4. CASE ReturnPrompt
  <2>1. prompting' = [prompting EXCEPT !.at = "done"]
    BY <1>4 DEF ReturnPrompt
  <2>2. prompting' = [prompting EXCEPT !.at = "done", !.truncated = prompting.truncated,
                                       !.prompt = prompting.prompt]
    BY <1>2, <2>1
  <2>3. Len(prompting.prompt) <= prompting.limit
    <3>1. Len(prompting.prompt) \in Nat
      BY <1>1
    <3> QED BY <1>1, <1>4, <3>1 DEF ReturnPrompt, TooLong
  <2> DEFINE truncated == prompting.truncated
             prompt == prompting.prompt
  <2>4. truncated \in Nat /\ prompt \in Seq(TemplateTokens)
    BY <1>1
  <2>5. IF truncated = 0 THEN prompt = WholePrompt(prompting.messages) ELSE FALSE
    BY <1>1
  <2>6. prompting' = [prompting EXCEPT !.at = "done", !.truncated = truncated, !.prompt = prompt]
    BY <2>2
  <2>7. Len(prompt) <= prompting.limit
    BY <2>3
  <2> HIDE DEF truncated, prompt
  <2> QED BY <1>1, <2>4, <2>5, <2>6, <2>7, CallEnds
<1> QED BY <1>3, <1>4

LEMMA RenderingInvAlways ==
  RenderingSpec => []RenderingInv
<1>1. RenderingInv /\ [RenderingNext]_prompting => RenderingInv'
  <2> SUFFICES ASSUME RenderingInv, [RenderingNext]_prompting
               PROVE  RenderingInv'
    OBVIOUS
  <2>1. CASE DropTurn
    BY <2>1, DropTurnKeeps
  <2>2. CASE TruncateUser
    BY <2>2, TruncateUserKeeps
  <2>3. CASE RefusePrompt \/ ReturnPrompt
    BY <2>3, OthersEnd
  <2>4. CASE UNCHANGED prompting
    BY <2>4 DEF RenderingInv, LongerAreTooLong, PromptIsLatest, Suffix, LastUserOnly
  <2> QED BY <2>1, <2>2, <2>3, <2>4 DEF RenderingNext
<1> QED BY RenderingInitially, <1>1, PTL DEF RenderingSpec

\* What was received is all that training and generation are compared on.
LEMMA PromptMatchesTrainingHolds ==
  ASSUME RenderingInv
  PROVE  PromptMatchesTraining
<1> SUFFICES ASSUME NEW parts \in AssistantParts
             PROVE  LET rendered == Training(Replied(parts))
                        whole == WholePrompt(prompting.given)
                    IN  /\ IsPrefix(whole, TokensOf(rendered))
                        /\ \A i \in Len(whole) + 1 .. Len(rendered) :
                             LossOf(rendered)[i] <=>
                               \/ WrittenIn(Len(prompting.given) + 1, parts, TokensOf(rendered)[i])
                               \/ TokensOf(rendered)[i] \in SupervisedControls
  BY DEF PromptMatchesTraining, SupervisedControls
<1>1. parts \in Seq(ContentPart)
  BY DEF RenderingAssumption
<1>2. Received(prompting.given)
  BY DEF RenderingInv
<1> QED BY <1>1, <1>2, ReplyContinuesPrompt DEF Replied

\* For any texts, replies, turns and limit: the prompt generation continues is
\* the longest run of whole latest turns within the limit, or the latest part
\* of the last user message that fits, and it is a prefix of what training
\* supervised, which is exactly what the assistant itself would write
\* (render_completion_prompt and render_conversation, chat/rendering.py).
THEOREM PromptIsFaithfulHolds ==
  RenderingSpec => []PromptIsFaithful
<1>1. RenderingInv => PromptIsFaithful
  BY PromptMatchesTrainingHolds DEF RenderingInv, PromptIsFaithful
<1> QED BY RenderingInvAlways, <1>1, PTL

(***************************************************************************)
(* A CORE task, for any examples, shots, context length and limit.  The    *)
(* argument: a span begins behind what all options share, which is what    *)
(* the reference scores; what the cut and the padding leave before a       *)
(* scored token is what the context can hold of it; so each option has the *)
(* losses the reference gives it, and the fold over the options keeps the  *)
(* first of the smallest means, because "below" passes from one to the     *)
(* next.                                                                   *)
(***************************************************************************)

(* The losses of a span.                                                   *)

\* The cell of an option's tokens that a loss counts: as many as the loss.
Cells(m, cost) == {x \in (1 .. m) \X (0 .. 4) : x[2] < cost[x[1]]}

LEMMA CellsFinite ==
  ASSUME NEW m \in Nat, NEW cost
  PROVE  IsFiniteSet(Cells(m, cost)) /\ Cells(m, cost) \in SUBSET ((1 .. m) \X (0 .. 4))
<1>1. IsFiniteSet(1 .. m) /\ IsFiniteSet(0 .. 4)
  <2>1. 1 \in Int /\ m \in Int /\ 0 \in Int /\ 4 \in Int
    OBVIOUS
  <2> QED BY <2>1, FS_Interval
<1>2. IsFiniteSet((1 .. m) \X (0 .. 4))
  BY <1>1, FS_Product
<1>3. Cells(m, cost) \in SUBSET ((1 .. m) \X (0 .. 4))
  BY DEF Cells
<1> QED BY <1>2, <1>3, FS_Subset

\* g is the key of the cells of j.
KeyOf(key, X, g, j) == \A x \in X : key[x] = g <=> x[1] = j

LEMMA CellsOf ==
  ASSUME NEW m \in Nat, NEW cost \in [1 .. m -> 0 .. 4], NEW key, NEW g, NEW j \in 1 .. m,
         KeyOf(key, Cells(m, cost), g, j)
  PROVE  Cardinality(Keyed(key, Cells(m, cost), g)) = cost[j]
<1> USE DEF KeyOf
<1> DEFINE K == Keyed(key, Cells(m, cost), g)
           f == [u \in 0 .. cost[j] - 1 |-> <<j, u>>]
<1>1. cost[j] \in 0 .. 4
  OBVIOUS
<1>2. f \in Bijection(0 .. cost[j] - 1, K)
  <2>1. \A u \in 0 .. cost[j] - 1 : f[u] \in K
    BY <1>1 DEF Keyed, Cells
  <2>2. \A u, v \in 0 .. cost[j] - 1 : f[u] = f[v] => u = v
    OBVIOUS
  <2>3. ASSUME NEW x \in K PROVE \E u \in 0 .. cost[j] - 1 : f[u] = x
    <3>1. x \in (1 .. m) \X (0 .. 4) /\ x[1] = j /\ x[2] < cost[j] /\ x[2] \in 0 .. 4
      BY DEF Keyed, Cells
    <3>2. x[2] \in 0 .. cost[j] - 1 /\ x = <<j, x[2]>>
      BY <1>1, <3>1
    <3> QED BY <3>2
  <2> HIDE DEF K, f
  <2>4. f \in Injection(0 .. cost[j] - 1, K)
    <3>1. f \in [0 .. cost[j] - 1 -> K]
      BY <2>1 DEF f
    <3> QED BY <2>2, <3>1 DEF Injection, IsInjective
  <2>5. f \in Surjection(0 .. cost[j] - 1, K)
    <3>1. f \in [0 .. cost[j] - 1 -> K]
      BY <2>1 DEF f
    <3> QED BY <2>3, <3>1 DEF Surjection
  <2> QED BY <2>4, <2>5 DEF Bijection
<1>3. IsFiniteSet(0 .. cost[j] - 1) /\ Cardinality(0 .. cost[j] - 1) = cost[j]
  <2>1. 0 \in Int /\ cost[j] - 1 \in Int
    BY <1>1
  <2>2. /\ IsFiniteSet(0 .. cost[j] - 1)
        /\ Cardinality(0 .. cost[j] - 1) = IF 0 > cost[j] - 1 THEN 0 ELSE (cost[j] - 1) - 0 + 1
    BY <2>1, FS_Interval
  <2> QED BY <1>1, <2>2
<1>4. Cardinality(K) = Cardinality(0 .. cost[j] - 1)
  <2> HIDE DEF K, f
  <2>1. IsFiniteSet(0 .. cost[j] - 1) /\ ExistsBijection(0 .. cost[j] - 1, K)
    BY <1>2, <1>3 DEF ExistsBijection
  <2> QED BY <2>1, FS_Bijection
<1> QED BY <1>3, <1>4

LEMMA SpanLossIs ==
  ASSUME NEW row, NEW span, NEW m \in Nat, NEW cost \in [1 .. m -> 0 .. 4],
         span.start \in Nat, span.end = span.start + m,
         \A j \in 1 .. m : cost[j] = LossAfter(SubSeq(row, 1, (span.start + j) - 1), row[span.start + j])
  PROVE  SpanLoss(row, span) = <<Cardinality(Cells(m, cost)), m>>
<1> DEFINE X   == Cells(m, cost)
           key == [x \in (1 .. m) \X (0 .. 4) |-> x[1]]
           at  == [i \in 1 .. span.end - span.start |-> span.start + i]
           D   == DOMAIN at
           f   == [s \in SUBSET D |-> Cardinality(Within(key, X, s))]
           Folds(h) == h = [s \in SUBSET D |->
                 IF s = {} THEN 0
                 ELSE h[s \ {Max(s)}] + LossAfter(SubSeq(row, 1, at[Max(s)] - 1), row[at[Max(s)]])]
           iter == CHOOSE h : Folds(h)
<1>1. SpanLoss(row, span) = <<iter[D], Len(at)>>
  BY DEF SpanLoss, FoldLeft, MapThenFoldSet
<1>2. D = 1 .. m /\ Len(at) = m /\ \A j \in D : at[j] = span.start + j
  <2>1. span.end - span.start = m
    OBVIOUS
  <2> QED BY <2>1
<1>3. IsFiniteSet(X) /\ X \in SUBSET ((1 .. m) \X (0 .. 4)) /\ IsFiniteSet(D)
  <2>1. IsFiniteSet(1 .. m)
    BY FS_Interval
  <2> HIDE DEF D, X
  <2> QED BY <1>2, <2>1, CellsFinite DEF X
<1>4. ASSUME NEW j \in D
      PROVE  /\ LossAfter(SubSeq(row, 1, at[j] - 1), row[at[j]]) = Cardinality(Keyed(key, X, j))
             /\ Cardinality(Keyed(key, X, j)) = cost[j]
  <2>1. j \in 1 .. m
    BY <1>2
  <2>2. \A x \in X : key[x] = j <=> x[1] = j
    BY <1>3
  <2>3. Cardinality(Keyed(key, X, j)) = cost[j]
    <3>1. KeyOf(key, Cells(m, cost), j, j)
      BY <2>2 DEF KeyOf
    <3> HIDE DEF key, X, at, D
    <3>2. Cardinality(Keyed(key, Cells(m, cost), j)) = cost[j]
      <4>1. m \in Nat /\ cost \in [1 .. m -> 0 .. 4]
        OBVIOUS
      <4> QED BY ONLY <2>1, <3>1, <4>1, CellsOf
    <3> QED BY <3>2 DEF X
  <2>4. LossAfter(SubSeq(row, 1, at[j] - 1), row[at[j]]) = cost[j]
    <3> HIDE DEF at, D
    <3> QED BY <1>2, <2>1
  <2> QED BY <2>3, <2>4
<1>5. \A x \in X : key[x] \in D
  BY <1>2, <1>3
<1>6. \A s \in SUBSET D : s # {} => Max(s) \in s /\ s \ {Max(s)} \in SUBSET D
  <2>1. D \in SUBSET (0 .. m)
    BY <1>2
  <2> HIDE DEF D
  <2> QED BY <2>1, MaxIs
<1> HIDE DEF at, X, key
<1>7. Folds(f)
  <2>1. ASSUME NEW s \in SUBSET D
        PROVE  f[s] = IF s = {} THEN 0
                      ELSE f[s \ {Max(s)}]
                             + LossAfter(SubSeq(row, 1, at[Max(s)] - 1), row[at[Max(s)]])
    <3>1. CASE s = {}
      <4>1. Within(key, X, {}) = {}
        BY DEF Within
      <4> QED BY <3>1, <4>1, FS_EmptySet
    <3>2. CASE s # {}
      <4>1. Max(s) \in s /\ s \ {Max(s)} \in SUBSET D /\ Max(s) \in D
        BY <1>6, <3>2
      <4>2. Cardinality(Within(key, X, s))
              = Cardinality(Within(key, X, s \ {Max(s)})) + Cardinality(Keyed(key, X, Max(s)))
        BY <1>3, <4>1, WithinAddsUp
      <4> QED BY <1>4, <3>2, <4>1, <4>2
    <3> QED BY <3>1, <3>2
  <2>2. f = [s \in SUBSET D |-> f[s]]
    OBVIOUS
  <2> HIDE DEF f, D
  <2> QED BY <2>1, <2>2
<1>8. Folds(iter)
  <2> HIDE DEF f, Folds
  <2> QED BY <1>7
<1>9. \A s \in SUBSET D : iter[s] = IF s = {} THEN 0 ELSE
          iter[s \ {Max(s)}] + LossAfter(SubSeq(row, 1, at[Max(s)] - 1), row[at[Max(s)]])
  <2> HIDE DEF iter, D
  <2> QED BY <1>8
<1> HIDE DEF iter, D
<1>10. iter[{}] = 0
  BY <1>9
<1>11. ASSUME NEW s \in SUBSET D, s # {}
       PROVE  \E g \in s : iter[s] = iter[s \ {g}] + Cardinality(Keyed(key, X, g))
  <2>1. Max(s) \in s /\ Max(s) \in D
    BY <1>6, <1>11
  <2> QED BY <1>4, <1>9, <1>11, <2>1
<1>12. \A s \in SUBSET D : s # {} =>
         \E g \in s : iter[s] = iter[s \ {g}] + Cardinality(Keyed(key, X, g))
  BY <1>11
<1>13. iter[D] = Cardinality(X)
  <2>1. AddsUp(D, X, key, iter)
    BY <1>3, <1>5, <1>10, <1>12 DEF AddsUp
  <2> QED BY <2>1, AddedUp
<1> QED BY <1>1, <1>2, <1>13 DEF X

LEMMA MeanIs ==
  ASSUME NEW row, NEW a \in Nat, NEW m \in Nat, NEW cost \in [1 .. m -> 0 .. 4],
         \A j \in 1 .. m : cost[j] = LossAfter(Visible(row, a + j), row[a + j])
  PROVE  MeanOf(row, a + 1 .. a + m) = <<Cardinality(Cells(m, cost)), m>>
<1> DEFINE X   == Cells(m, cost)
           key == [x \in (1 .. m) \X (0 .. 4) |-> a + x[1]]
           D   == a + 1 .. a + m
           f   == [s \in SUBSET D |-> Cardinality(Within(key, X, s))]
           one(s) == CHOOSE x \in s : TRUE
           Folds(h) == h = [s \in SUBSET D |->
                 IF s = {} THEN 0
                 ELSE h[s \ {one(s)}] + LossAfter(Visible(row, one(s)), row[one(s)])]
           iter == CHOOSE h : Folds(h)
<1>1. MeanOf(row, D) = <<iter[D], Cardinality(D)>>
  BY DEF MeanOf, FoldSet, MapThenFoldSet
<1>2. IsFiniteSet(D) /\ Cardinality(D) = m
  <2>1. a + 1 \in Int /\ a + m \in Int
    OBVIOUS
  <2>2. /\ IsFiniteSet(D)
        /\ Cardinality(D) = IF a + 1 > a + m THEN 0 ELSE (a + m) - (a + 1) + 1
    BY <2>1, FS_Interval
  <2> QED BY <2>2
<1>3. IsFiniteSet(X) /\ X \in SUBSET ((1 .. m) \X (0 .. 4))
  BY CellsFinite
<1>4. ASSUME NEW i \in D
      PROVE  LossAfter(Visible(row, i), row[i]) = Cardinality(Keyed(key, X, i))
  <2> DEFINE j == i - a
  <2>1. j \in 1 .. m /\ a + j = i
    OBVIOUS
  <2>2. \A x \in X : key[x] = i <=> x[1] = j
    <3> TAKE x \in X
    <3>1. x \in (1 .. m) \X (0 .. 4) /\ x[1] \in 1 .. m
      BY <1>3
    <3>2. key[x] = a + x[1]
      BY <3>1
    <3> HIDE DEF key, X, D
    <3> QED BY <2>1, <3>1, <3>2
  <2>3. LossAfter(Visible(row, i), row[i]) = cost[j]
    BY <2>1
  <2>4. KeyOf(key, Cells(m, cost), i, j)
    BY <2>2 DEF KeyOf
  <2> HIDE DEF key, X, D, j
  <2>5. Cardinality(Keyed(key, Cells(m, cost), i)) = cost[j]
    BY <2>1, <2>4, CellsOf
  <2> QED BY <2>3, <2>5 DEF X
<1>5. \A x \in X : key[x] \in D
  BY <1>3
<1>6. \A s \in SUBSET D : s # {} => one(s) \in s /\ s \ {one(s)} \in SUBSET D
  <2> HIDE DEF D
  <2> QED OBVIOUS
<1> HIDE DEF D, X, key, one
<1>7. Folds(f)
  <2>1. ASSUME NEW s \in SUBSET D
        PROVE  f[s] = IF s = {} THEN 0
                      ELSE f[s \ {one(s)}] + LossAfter(Visible(row, one(s)), row[one(s)])
    <3>1. CASE s = {}
      <4>1. Within(key, X, {}) = {}
        BY DEF Within
      <4> QED BY <3>1, <4>1, FS_EmptySet
    <3>2. CASE s # {}
      <4>1. one(s) \in s /\ s \ {one(s)} \in SUBSET D /\ one(s) \in D
        BY <1>6, <3>2
      <4>2. Cardinality(Within(key, X, s))
              = Cardinality(Within(key, X, s \ {one(s)})) + Cardinality(Keyed(key, X, one(s)))
        BY <1>3, <4>1, WithinAddsUp
      <4> QED BY <1>4, <3>2, <4>1, <4>2
    <3> QED BY <3>1, <3>2
  <2>2. f = [s \in SUBSET D |-> f[s]]
    OBVIOUS
  <2> HIDE DEF f
  <2> QED BY <2>1, <2>2
<1>8. Folds(iter)
  <2> HIDE DEF f, Folds
  <2> QED BY <1>7
<1>9. \A s \in SUBSET D : iter[s] = IF s = {} THEN 0 ELSE
          iter[s \ {one(s)}] + LossAfter(Visible(row, one(s)), row[one(s)])
  <2> HIDE DEF iter
  <2> QED BY <1>8
<1> HIDE DEF iter
<1>10. iter[{}] = 0
  BY <1>9
<1>11. ASSUME NEW s \in SUBSET D, s # {}
       PROVE  \E g \in s : iter[s] = iter[s \ {g}] + Cardinality(Keyed(key, X, g))
  <2>1. one(s) \in s /\ one(s) \in D
    BY <1>6, <1>11
  <2> QED BY <1>4, <1>9, <1>11, <2>1
<1>12. \A s \in SUBSET D : s # {} =>
         \E g \in s : iter[s] = iter[s \ {g}] + Cardinality(Keyed(key, X, g))
  BY <1>11
<1>13. iter[D] = Cardinality(X)
  <2>1. AddsUp(D, X, key, iter)
    BY <1>2, <1>3, <1>5, <1>10, <1>12 DEF AddsUp
  <2> QED BY <2>1, AddedUp
<1>14. MeanOf(row, D) = <<Cardinality(X), m>>
  BY <1>1, <1>2, <1>13
<1> QED BY <1>14 DEF D, X

-----------------------------------------------------------------------------
(* What the options have in common.                                        *)

\* The tokens of an option, and the number that all options share.
OptionsOK(rows, n) ==
  /\ n \in Nat \ {0} /\ DOMAIN rows = 1 .. n
  /\ \A k \in 1 .. n : rows[k] \in Seq(Nat)

Agree(rows, m) ==
  \A k \in DOMAIN rows : m <= Len(rows[k]) /\ \A i \in 1 .. m : rows[k][i] = rows[1][i]

LEMMA ShortestIs ==
  ASSUME NEW rows, NEW n, OptionsOK(rows, n)
  PROVE  /\ ShortestLen(rows) \in Nat
         /\ \A m \in Nat : m <= ShortestLen(rows) <=> \A k \in DOMAIN rows : m <= Len(rows[k])
<1> DEFINE S == {Len(rows[k]) : k \in DOMAIN rows}
<1>1. \A k \in 1 .. n : Len(rows[k]) \in Nat
  BY DEF OptionsOK
<1>2. S \in SUBSET Nat /\ S # {} /\ \A k \in DOMAIN rows : Len(rows[k]) \in S
  <2>1. DOMAIN rows = 1 .. n /\ 1 \in 1 .. n
    BY DEF OptionsOK
  <2>2. Len(rows[1]) \in S /\ \A k \in DOMAIN rows : Len(rows[k]) \in S
    BY <2>1
  <2>3. \A x \in S : x \in Nat
    BY <1>1, <2>1
  <2> HIDE DEF S
  <2> QED BY <2>2, <2>3
<1>3. PICK x \in S : \A y \in S : x <= y
  <2> HIDE DEF S
  <2> QED BY <1>2, LeastNatural
<1>4. Min(S) \in S /\ \A y \in S : Min(S) <= y
  <2> HIDE DEF S
  <2> QED BY <1>3 DEF Min
<1>5. ShortestLen(rows) = Min(S)
  BY DEF ShortestLen
<1>6. PICK k \in DOMAIN rows : Min(S) = Len(rows[k])
  BY <1>4
<1>7. \A j \in DOMAIN rows : Len(rows[j]) \in Nat /\ Min(S) <= Len(rows[j])
  BY <1>1, <1>2, <1>4 DEF OptionsOK
<1>8. Min(S) \in Nat
  BY <1>2, <1>4
<1> HIDE DEF S
<1> QED BY <1>5, <1>6, <1>7, <1>8

LEMMA PrefixIs ==
  ASSUME NEW s \in Seq(Nat), NEW t \in Seq(Nat), NEW m \in 0 .. Len(s)
  PROVE  IsPrefix(SubSeq(s, 1, m), t) <=> m <= Len(t) /\ \A i \in 1 .. m : t[i] = s[i]
<1> DEFINE p == SubSeq(s, 1, m)
<1>1. p \in Seq(Nat) /\ Len(p) = m /\ \A i \in 1 .. m : p[i] = s[i]
  OBVIOUS
<1>2. SubSeq(p, 1, Len(p)) \in Seq(Nat) /\ Len(SubSeq(p, 1, Len(p))) = m
      /\ \A i \in 1 .. m : SubSeq(p, 1, Len(p))[i] = s[i]
  <2> HIDE DEF p
  <2> QED BY <1>1
<1>3. ASSUME m <= Len(t)
      PROVE  /\ SubSeq(t, 1, m) \in Seq(Nat) /\ Len(SubSeq(t, 1, m)) = m
             /\ \A i \in 1 .. m : SubSeq(t, 1, m)[i] = t[i]
  BY <1>3
<1> DEFINE u == SubSeq(p, 1, Len(p))
           v == SubSeq(t, 1, m)
<1>4. IsPrefix(p, t) <=> m <= Len(t) /\ u = v
  BY <1>1 DEF IsPrefix
<1>5. m <= Len(t) => (u = v <=> \A i \in 1 .. m : t[i] = s[i])
  <2> SUFFICES ASSUME m <= Len(t) PROVE u = v <=> \A i \in 1 .. m : t[i] = s[i]
    OBVIOUS
  <2>1. u \in Seq(Nat) /\ v \in Seq(Nat) /\ Len(u) = m /\ Len(v) = m
    BY <1>2, <1>3
  <2>2. \A i \in 1 .. m : u[i] = s[i] /\ v[i] = t[i]
    BY <1>2, <1>3
  <2> HIDE DEF u, v
  <2>3. u = v <=> \A i \in 1 .. m : u[i] = v[i]
    BY <2>1, SeqEqual
  <2> QED BY <2>2, <2>3
<1> HIDE DEF u, v, p
<1>6. IsPrefix(p, t) <=> m <= Len(t) /\ \A i \in 1 .. m : t[i] = s[i]
  BY <1>4, <1>5
<1> QED BY <1>6 DEF p

LEMMA CommonLengthIs ==
  ASSUME NEW rows, NEW n, OptionsOK(rows, n)
  PROVE  /\ CommonLength(rows) \in Nat
         /\ \A k \in DOMAIN rows : CommonLength(rows) <= Len(rows[k])
         /\ \A m \in Nat : m <= CommonLength(rows) <=> Agree(rows, m)
<1> DEFINE least == ShortestLen(rows)
           S == {m \in 0 .. least : \A k \in DOMAIN rows : IsPrefix(SubSeq(rows[1], 1, m), rows[k])}
<1>1. least \in Nat /\ \A m \in Nat : m <= least <=> \A k \in DOMAIN rows : m <= Len(rows[k])
  BY ShortestIs
<1>2. 1 \in DOMAIN rows /\ \A k \in DOMAIN rows : rows[k] \in Seq(Nat)
  BY DEF OptionsOK
<1> HIDE DEF least
<1>3. \A m \in Nat : m \in S <=> Agree(rows, m)
  <2> SUFFICES ASSUME NEW m \in Nat PROVE m \in S <=> Agree(rows, m)
    OBVIOUS
  <2>1. Agree(rows, m) => m \in 0 .. least
    BY <1>1 DEF Agree
  <2>2. ASSUME m \in 0 .. least
        PROVE  (\A k \in DOMAIN rows : IsPrefix(SubSeq(rows[1], 1, m), rows[k])) <=> Agree(rows, m)
    <3>1. m \in 0 .. Len(rows[1])
      BY <1>1, <1>2, <2>2
    <3>2. \A k \in DOMAIN rows : IsPrefix(SubSeq(rows[1], 1, m), rows[k])
                                   <=> m <= Len(rows[k]) /\ \A i \in 1 .. m : rows[k][i] = rows[1][i]
      BY <1>2, <3>1, PrefixIs
    <3> QED BY <3>2 DEF Agree
  <2> QED BY <2>1, <2>2
<1>4. 0 \in S
  <2>1. \A k \in DOMAIN rows : Len(rows[k]) \in Nat
    BY <1>2
  <2>2. Agree(rows, 0)
    BY <2>1 DEF Agree
  <2> QED BY <1>3, <2>2
<1>5. S \in SUBSET (0 .. least)
  OBVIOUS
<1>6. CommonLength(rows) = Max(S)
  BY DEF CommonLength, least
<1> HIDE DEF S
<1>7. Max(S) \in S /\ \A y \in S : y <= Max(S)
  BY <1>1, <1>4, <1>5, MaxIs
<1>8. Max(S) \in 0 .. least
  BY <1>5, <1>7
<1>9. Max(S) \in Nat /\ Max(S) <= least
  BY <1>1, <1>8
<1>10. ASSUME NEW m \in Nat, m <= Max(S) PROVE Agree(rows, m)
  <2>1. Max(S) \in Nat
    BY <1>9
  <2>2. Agree(rows, Max(S))
    BY <1>3, <1>7, <2>1
  <2>3. \A k \in DOMAIN rows : Len(rows[k]) \in Nat
    BY <1>2
  <2> QED BY <1>10, <2>1, <2>2, <2>3 DEF Agree
<1>11. \A m \in Nat : Agree(rows, m) => m <= Max(S)
  BY <1>3, <1>7
<1>12. Max(S) \in Nat /\ \A k \in DOMAIN rows : Max(S) <= Len(rows[k])
  BY <1>1, <1>9
<1> QED BY <1>6, <1>10, <1>11, <1>12

-----------------------------------------------------------------------------
(* The first of the smallest means.                                        *)

LEMMA LessTimes ==
  ASSUME NEW x \in Nat, NEW y \in Nat, NEW w \in Nat \ {0}, x < y
  PROVE  x * w < y * w
<1>1. x * w + w <= y * w
  <2>1. (x + 1) * w = x * w + w
    OBVIOUS
  <2>2. (x + 1) * w <= y * w
    OBVIOUS
  <2> QED BY <2>1, <2>2
<1>2. x * w \in Nat /\ y * w \in Nat
  OBVIOUS
<1> QED BY <1>1, <1>2

\* a/u < b/v and b/v < c/w make a/u < c/w.
LEMMA FractionsPass ==
  ASSUME NEW a \in Nat, NEW b \in Nat, NEW c \in Nat,
         NEW u \in Nat \ {0}, NEW v \in Nat \ {0}, NEW w \in Nat \ {0},
         a * v < b * u, b * w < c * v
  PROVE  a * w < c * u
<1>1. a * v \in Nat /\ b * u \in Nat /\ b * w \in Nat /\ c * v \in Nat /\ a * w \in Nat /\ c * u \in Nat
  OBVIOUS
<1>2. (a * v) * w < (b * u) * w
  BY <1>1, LessTimes
<1>3. (b * w) * u < (c * v) * u
  BY <1>1, LessTimes
<1>4. (b * u) * w = (b * w) * u /\ (a * v) * w = (a * w) * v /\ (c * v) * u = (c * u) * v
  OBVIOUS
<1>5. (a * w) * v \in Nat /\ (b * w) * u \in Nat /\ (c * u) * v \in Nat
  BY <1>1
<1>6. (a * w) * v < (c * u) * v
  BY <1>2, <1>3, <1>4, <1>5
<1>7. CASE c * u < a * w
  <2>1. (c * u) * v < (a * w) * v
    BY <1>1, <1>7, LessTimes
  <2> QED BY <1>5, <1>6, <2>1
<1>8. CASE c * u = a * w
  BY <1>5, <1>6, <1>8
<1> QED BY <1>1, <1>7, <1>8

Counted(p) == p[1] \in Nat /\ p[2] \in Nat

LEMMA BelowPasses ==
  ASSUME NEW p, NEW q, NEW r, Counted(p), Counted(q), Counted(r), Below(p, q), Below(q, r)
  PROVE  Below(p, r)
<1>1. /\ p[1] \in Nat /\ q[1] \in Nat /\ r[1] \in Nat
      /\ p[2] \in Nat \ {0} /\ q[2] \in Nat \ {0} /\ r[2] \in Nat \ {0}
      /\ p[1] * q[2] < q[1] * p[2] /\ q[1] * r[2] < r[1] * q[2]
  BY DEF Counted, Below
<1>2. p[1] * r[2] < r[1] * p[2]
  BY ONLY <1>1, FractionsPass
<1> QED BY <1>1, <1>2 DEF Below

LEMMA NotBelowItself == ASSUME NEW p, Counted(p) PROVE ~Below(p, p)
<1>1. p[1] * p[2] \in Nat
  BY DEF Counted
<1> QED BY <1>1 DEF Below

LEMMA InitialParts ==
  ASSUME NEW n \in Nat, NEW k \in 1 .. n
  PROVE  /\ 1 .. k \in SUBSET (1 .. n) /\ 1 .. k \in SUBSET (0 .. n)
         /\ k \in 1 .. k /\ 1 .. k # {} /\ (1 .. k) \ {k} = 1 .. k - 1
<1>1. \A i \in 1 .. k : i \in 1 .. n /\ i \in 0 .. n
  OBVIOUS
<1>2. k \in 1 .. k
  OBVIOUS
<1>3. \A i : i \in (1 .. k) \ {k} <=> i \in 1 .. k - 1
  OBVIOUS
<1> QED BY ONLY <1>1, <1>2, <1>3

LEMMA FirstLeastIs ==
  ASSUME NEW n \in Nat \ {0}, NEW losses, DOMAIN losses = 1 .. n,
         \A k \in 1 .. n : Counted(losses[k])
  PROVE  /\ FirstLeast(losses) \in 1 .. n
         /\ losses[1][2] = 0 => FirstLeast(losses) = 1
         /\ losses[1][2] # 0 =>
              /\ losses[FirstLeast(losses)][2] # 0
              /\ \A j \in 1 .. n : losses[j][2] # 0 => ~Below(losses[j], losses[FirstLeast(losses)])
<1> DEFINE seq == [k \in DOMAIN losses |-> k]
           Folds(h) == h = [s \in SUBSET DOMAIN seq |->
              IF s = {} THEN 1
              ELSE IF Below(losses[seq[Max(s)]], losses[h[s \ {Max(s)}]])
                   THEN seq[Max(s)] ELSE h[s \ {Max(s)}]]
           iter == CHOOSE h : Folds(h)
           step == [x \in (1 .. n) \X (1 .. n) |->
                      IF Below(losses[x[1]], losses[x[2]]) THEN x[1] ELSE x[2]]
<1>1. FirstLeast(losses) = iter[DOMAIN seq]
  BY DEF FirstLeast, FoldLeft, MapThenFoldSet
<1>2. DOMAIN seq = 1 .. n /\ \A k \in 1 .. n : seq[k] = k
  OBVIOUS
<1>3. step \in [(1 .. n) \X (1 .. n) -> 1 .. n] /\ 1 \in 1 .. n /\ n \in Nat
  <2>1. \A x \in (1 .. n) \X (1 .. n) : x[1] \in 1 .. n /\ x[2] \in 1 .. n
    OBVIOUS
  <2> QED BY <2>1
<1>4. \A i, j \in 1 .. n : step[<<i, j>>] = IF Below(losses[i], losses[j]) THEN i ELSE j
  <2> TAKE i, j \in 1 .. n
  <2>1. <<i, j>> \in (1 .. n) \X (1 .. n) /\ <<i, j>>[1] = i /\ <<i, j>>[2] = j
    OBVIOUS
  <2> QED BY <2>1
<1> HIDE DEF step, seq
<1>5. PICK f \in [SUBSET (1 .. n) -> 1 .. n] :
        /\ f[{}] = 1
        /\ \A s \in SUBSET (1 .. n) : s # {} => f[s] = step[<<Max(s), f[s \ {Max(s)}]>>]
  <2>1. \E f : IsFold(f, 1 .. n, 1, n, step)
    BY <1>3, FoldsExist
  <2> QED BY <2>1 DEF IsFold
<1>6. \A s \in SUBSET (1 .. n) : s # {} => Max(s) \in 1 .. n /\ s \ {Max(s)} \in SUBSET (1 .. n)
  <2> TAKE s \in SUBSET (1 .. n)
  <2>1. s \in SUBSET (0 .. n)
    OBVIOUS
  <2> QED BY <2>1, MaxIs
<1>7. Folds(f)
  <2>1. ASSUME NEW s \in SUBSET (1 .. n)
        PROVE  f[s] = IF s = {} THEN 1
                      ELSE IF Below(losses[seq[Max(s)]], losses[f[s \ {Max(s)}]])
                           THEN seq[Max(s)] ELSE f[s \ {Max(s)}]
    <3>1. CASE s = {}
      BY <1>5, <3>1
    <3>2. CASE s # {}
      <4>1. Max(s) \in 1 .. n /\ f[s \ {Max(s)}] \in 1 .. n /\ seq[Max(s)] = Max(s)
        BY <1>2, <1>5, <1>6, <3>2
      <4> QED BY <1>4, <1>5, <3>2, <4>1
    <3> QED BY <3>1, <3>2
  <2>2. f = [s \in SUBSET (1 .. n) |-> f[s]]
    OBVIOUS
  <2> QED BY <1>2, <2>1, <2>2
<1>8. Folds(iter)
  <2> HIDE DEF Folds
  <2> QED BY <1>7
<1>9. \A s \in SUBSET (1 .. n) : iter[s] =
         IF s = {} THEN 1
         ELSE IF Below(losses[seq[Max(s)]], losses[iter[s \ {Max(s)}]])
              THEN seq[Max(s)] ELSE iter[s \ {Max(s)}]
  <2> HIDE DEF iter
  <2> QED BY <1>2, <1>8
<1> HIDE DEF iter
<1> DEFINE best(k) == iter[1 .. k]
<1>10. best(0) = 1
  <2>1. 1 .. 0 = {}
    OBVIOUS
  <2> QED BY <1>9, <2>1
<1>11. ASSUME NEW k \in 1 .. n
       PROVE  best(k) = IF Below(losses[k], losses[best(k - 1)]) THEN k ELSE best(k - 1)
  <2>1. /\ 1 .. k \in SUBSET (1 .. n) /\ 1 .. k \in SUBSET (0 .. n)
        /\ k \in 1 .. k /\ 1 .. k # {} /\ (1 .. k) \ {k} = 1 .. k - 1
    BY ONLY k \in 1 .. n, n \in Nat, InitialParts
  <2>2. Max(1 .. k) = k
    <3>1. Max(1 .. k) \in 1 .. k /\ k <= Max(1 .. k)
      BY <1>3, <2>1, MaxIs
    <3> QED BY <3>1
  <2>4. seq[k] = k
    BY <1>2
  <2> QED BY <1>9, <2>1, <2>2, <2>4
<1> HIDE DEF best
<1> DEFINE Good(b, k) ==
             /\ b \in 1 .. n
             /\ losses[1][2] = 0 => b = 1
             /\ losses[1][2] # 0 =>
                  /\ losses[b][2] # 0
                  /\ \A j \in 1 .. n : j <= k /\ losses[j][2] # 0 => ~Below(losses[j], losses[b])
           T == {k \in Nat : k <= n => Good(best(k), k)}
<1>12. 0 \in T
  BY <1>3, <1>10
<1>13. ASSUME NEW k \in Nat, k \in T PROVE k + 1 \in T
  <2> SUFFICES ASSUME k + 1 <= n PROVE Good(best(k + 1), k + 1)
    OBVIOUS
  <2> DEFINE b == best(k)
  <2>1. Good(b, k) /\ k + 1 \in 1 .. n
    BY <1>13
  <2>2. best(k + 1) = IF Below(losses[k + 1], losses[b]) THEN k + 1 ELSE b
    <3>1. (k + 1) - 1 = k
      OBVIOUS
    <3> QED BY <1>11, <2>1, <3>1
  <2> HIDE DEF b
  <2>3. \A j \in 1 .. n : j <= k + 1 => j <= k \/ j = k + 1
    OBVIOUS
  <2>4. CASE Below(losses[k + 1], losses[b])
    <3>1. losses[k + 1][2] # 0 /\ losses[b][2] # 0
      BY <2>1, <2>4 DEF Below, Counted
    <3>2. losses[1][2] # 0
      BY <2>1, <3>1
    <3>3. ASSUME NEW j \in 1 .. n, j <= k + 1, losses[j][2] # 0
          PROVE  ~Below(losses[j], losses[k + 1])
      <4>1. CASE j = k + 1
        BY <2>1, <4>1, NotBelowItself
      <4>2. CASE j <= k
        <5>1. ~Below(losses[j], losses[b])
          BY <2>1, <3>2, <3>3, <4>2
        <5> QED BY <2>1, <2>4, <5>1, BelowPasses
      <4> QED BY <2>3, <3>3, <4>1, <4>2
    <3> QED BY <2>1, <2>2, <2>4, <3>1, <3>2, <3>3
  <2>5. CASE ~Below(losses[k + 1], losses[b])
    BY <2>1, <2>2, <2>3, <2>5
  <2> QED BY <2>4, <2>5
<1> HIDE DEF T
<1>14. n \in T
  BY <1>12, <1>13, NaturalsAreInductive
<1>15. Good(best(n), n)
  BY <1>14 DEF T
<1>16. FirstLeast(losses) = best(n)
  BY <1>1, <1>2 DEF best
<1> QED BY <1>15, <1>16

-----------------------------------------------------------------------------
(* The spans.                                                              *)

Categorical == {"multiple_choice", "schema"}

LEMMA BeginningIs ==
  ASSUME NEW s \in Seq(Nat), NEW m \in Nat, m <= Len(s)
  PROVE  /\ SubSeq(s, 1, m) \in Seq(Nat) /\ Len(SubSeq(s, 1, m)) = m
         /\ \A i \in 1 .. m : SubSeq(s, 1, m)[i] = s[i]
  OBVIOUS

LEMMA ShareIsAgree ==
  ASSUME NEW rows, NEW n, OptionsOK(rows, n), NEW m \in Nat
  PROVE  ShareFirst(rows, m) <=> Agree(rows, m)
<1>1. 1 \in DOMAIN rows /\ \A k \in DOMAIN rows : rows[k] \in Seq(Nat) /\ Len(rows[k]) \in Nat
  BY DEF OptionsOK
<1>2. ASSUME NEW j \in DOMAIN rows, m <= Len(rows[j]), m <= Len(rows[1])
      PROVE  SubSeq(rows[j], 1, m) = SubSeq(rows[1], 1, m)
               <=> \A i \in 1 .. m : rows[j][i] = rows[1][i]
  <2> DEFINE s == rows[j]
             t == rows[1]
             u == SubSeq(s, 1, m)
             v == SubSeq(t, 1, m)
  <2>1. s \in Seq(Nat) /\ t \in Seq(Nat) /\ m <= Len(s) /\ m <= Len(t)
    BY <1>1, <1>2
  <2> HIDE DEF s, t
  <2>2. /\ u \in Seq(Nat) /\ Len(u) = m /\ \A i \in 1 .. m : u[i] = s[i]
        /\ v \in Seq(Nat) /\ Len(v) = m /\ \A i \in 1 .. m : v[i] = t[i]
    BY ONLY <2>1, m \in Nat, BeginningIs DEF u, v
  <2>3. \A i \in 1 .. m : u[i] = s[i] /\ v[i] = t[i]
    BY <2>2
  <2> HIDE DEF u, v
  <2>4. u = v <=> \A i \in 1 .. m : u[i] = v[i]
    BY <2>2, SeqEqual
  <2>5. u = v <=> \A i \in 1 .. m : s[i] = t[i]
    BY <2>3, <2>4
  <2> QED BY <2>5 DEF u, v, s, t
<1>3. (\A j \in DOMAIN rows : m <= Len(rows[j])) =>
        \A j \in DOMAIN rows : SubSeq(rows[j], 1, m) = SubSeq(rows[1], 1, m)
                                 <=> \A i \in 1 .. m : rows[j][i] = rows[1][i]
  BY <1>1, <1>2
<1>4. \A j \in DOMAIN rows : Len(rows[j]) >= m <=> m <= Len(rows[j])
  BY <1>1
<1> QED BY <1>3, <1>4 DEF ShareFirst, Agree

LEMMA ReverseIs ==
  ASSUME NEW s \in Seq(Nat)
  PROVE  /\ Reverse(s) \in Seq(Nat) /\ Len(Reverse(s)) = Len(s)
         /\ \A i \in 1 .. Len(s) : Reverse(s)[i] = s[Len(s) - i + 1]
<1>1. Len(s) \in Nat
  OBVIOUS
<1>2. \A i \in 1 .. Len(s) : Len(s) - i + 1 \in 1 .. Len(s) /\ s[Len(s) - i + 1] \in Nat
  BY <1>1
<1>3. Reverse(s) = [i \in 1 .. Len(s) |-> s[(Len(s) - i) + 1]]
  BY DEF Reverse
<1> DEFINE r == [i \in 1 .. Len(s) |-> s[(Len(s) - i) + 1]]
<1>4. r \in [1 .. Len(s) -> Nat]
  BY <1>2
<1>5. r \in Seq(Nat) /\ Len(r) = Len(s)
  <2> HIDE DEF r
  <2> QED BY <1>1, <1>4, LenProperties, SeqDef
<1> QED BY <1>3, <1>5

LEMMA MirroredIs ==
  ASSUME NEW rows, NEW n, OptionsOK(rows, n)
  PROVE  /\ OptionsOK(Mirrored(rows), n)
         /\ DOMAIN Mirrored(rows) = DOMAIN rows
         /\ \A k \in DOMAIN rows : /\ Mirrored(rows)[k] = Reverse(rows[k])
                                   /\ Len(Mirrored(rows)[k]) = Len(rows[k])
<1>1. \A k \in 1 .. n : rows[k] \in Seq(Nat)
  BY DEF OptionsOK
<1>2. \A k \in 1 .. n : Reverse(rows[k]) \in Seq(Nat) /\ Len(Reverse(rows[k])) = Len(rows[k])
  BY <1>1, ReverseIs
<1>3. DOMAIN Mirrored(rows) = 1 .. n /\ \A k \in 1 .. n : Mirrored(rows)[k] = Reverse(rows[k])
  BY DEF Mirrored, OptionsOK
<1> QED BY <1>2, <1>3 DEF OptionsOK

LEMMA SuffixIs ==
  ASSUME NEW s \in Seq(Nat), NEW t \in Seq(Nat), NEW i \in 1 .. Len(s), NEW m, m = Len(s) - i + 1
  PROVE  IsSuffix(SubSeq(s, i, Len(s)), t)
           <=> m <= Len(t) /\ \A x \in 1 .. m : Reverse(t)[x] = Reverse(s)[x]
<1> DEFINE p == SubSeq(s, i, Len(s))
           u == Reverse(p)
           v == SubSeq(Reverse(s), 1, m)
<1>1. Len(s) \in Nat /\ m \in 1 .. Len(s) /\ m \in Nat
  OBVIOUS
<1>2. p \in Seq(Nat) /\ Len(p) = m /\ \A x \in 1 .. m : p[x] = s[(i + x) - 1]
  BY <1>1
<1>3. Reverse(s) \in Seq(Nat) /\ Len(Reverse(s)) = Len(s)
      /\ \A x \in 1 .. Len(s) : Reverse(s)[x] = s[Len(s) - x + 1]
  BY ReverseIs
<1> DEFINE r == Reverse(s)
<1> HIDE DEF p, r
<1>4. u \in Seq(Nat) /\ Len(u) = m /\ \A x \in 1 .. m : u[x] = p[m - x + 1]
  <2>1. u \in Seq(Nat) /\ Len(u) = Len(p) /\ \A x \in 1 .. Len(p) : u[x] = p[Len(p) - x + 1]
    BY <1>2, ReverseIs
  <2> QED BY <1>2, <2>1
<1>5. SubSeq(r, 1, m) \in Seq(Nat) /\ Len(SubSeq(r, 1, m)) = m
      /\ \A x \in 1 .. m : SubSeq(r, 1, m)[x] = r[x]
  <2>1. r \in Seq(Nat) /\ m \in 0 .. Len(r)
    BY <1>1, <1>3 DEF r
  <2> QED BY ONLY <2>1
<1>6. \A x \in 1 .. m : u[x] = SubSeq(r, 1, m)[x]
  <2> TAKE x \in 1 .. m
  <2>1. m - x + 1 \in 1 .. m /\ (i + (m - x + 1)) - 1 = Len(s) - x + 1 /\ x \in 1 .. Len(s)
    BY <1>1
  <2>2. u[x] = p[m - x + 1] /\ p[m - x + 1] = s[(i + (m - x + 1)) - 1]
    BY <1>2, <1>4, <2>1
  <2>3. SubSeq(r, 1, m)[x] = s[Len(s) - x + 1]
    BY <1>3, <1>5, <2>1 DEF r
  <2> QED BY <2>1, <2>2, <2>3
<1>7. u = SubSeq(r, 1, m)
  <2> DEFINE w == SubSeq(r, 1, m)
  <2> HIDE DEF u, w
  <2>1. u \in Seq(Nat) /\ w \in Seq(Nat) /\ Len(u) = Len(w) /\ \A x \in 1 .. Len(u) : u[x] = w[x]
    BY <1>4, <1>5, <1>6 DEF w
  <2>2. u = w
    BY <2>1, SeqEqual
  <2> QED BY <2>2 DEF w
<1>8. IsSuffix(SubSeq(s, i, Len(s)), t) <=> IsPrefix(SubSeq(r, 1, m), Reverse(t))
  BY <1>7 DEF IsSuffix, p
<1>9. Reverse(t) \in Seq(Nat) /\ Len(Reverse(t)) = Len(t)
  BY ReverseIs
<1>10. r \in Seq(Nat) /\ m \in 0 .. Len(r)
  BY <1>1, <1>3 DEF r
<1>11. IsPrefix(SubSeq(r, 1, m), Reverse(t))
         <=> m <= Len(Reverse(t)) /\ \A x \in 1 .. m : Reverse(t)[x] = r[x]
  BY <1>9, <1>10, PrefixIs
<1> QED BY <1>8, <1>9, <1>11 DEF r

\* A span and what the reference scores of an option begin behind what all
\* options share, and end with the option.
LEMMA SpanIs ==
  ASSUME NEW rows, NEW n, OptionsOK(rows, n), NEW type \in Categorical
  PROVE  /\ DOMAIN Spans(type, rows) = 1 .. n
         /\ \A k \in 1 .. n : \E a \in 0 .. Len(rows[k]) :
              /\ Spans(type, rows)[k] = [row |-> rows[k], start |-> a, end |-> Len(rows[k])]
              /\ ScoredOf(type, rows, k) = a + 1 .. Len(rows[k])
<1>1. DOMAIN rows = 1 .. n /\ \A k \in 1 .. n : rows[k] \in Seq(Nat) /\ Len(rows[k]) \in Nat
                                                 /\ DOMAIN rows[k] = 1 .. Len(rows[k])
  BY DEF OptionsOK
<1>2. CASE type = "multiple_choice"
  <2> DEFINE c == CommonLength(rows)
  <2>1. c \in Nat /\ (\A k \in 1 .. n : c <= Len(rows[k]))
        /\ \A m \in Nat : m <= c <=> Agree(rows, m)
    BY <1>1, CommonLengthIs
  <2>2. Spans(type, rows) = [k \in DOMAIN rows |-> [row |-> rows[k], start |-> c, end |-> Len(rows[k])]]
    BY <1>2 DEF Spans
  <2> HIDE DEF c
  <2>3. ASSUME NEW k \in 1 .. n PROVE ScoredOf(type, rows, k) = c + 1 .. Len(rows[k])
    <3>1. ScoredOf(type, rows, k) = {i \in 1 .. Len(rows[k]) : ~ShareFirst(rows, i)}
      BY <1>1, <1>2 DEF ScoredOf
    <3>2. \A i \in 1 .. Len(rows[k]) : ShareFirst(rows, i) <=> i <= c
      BY <2>1, ShareIsAgree
    <3>3. Len(rows[k]) \in Nat
      BY <1>1
    <3> QED BY <2>1, <3>1, <3>2, <3>3
  <2>4. \A k \in 1 .. n : c \in 0 .. Len(rows[k])
    BY <1>1, <2>1
  <2> QED BY <1>1, <2>2, <2>3, <2>4
<1>3. CASE type = "schema"
  <2> DEFINE back == Mirrored(rows)
             c == CommonLength(back)
  <2>1. /\ OptionsOK(back, n) /\ DOMAIN back = 1 .. n
        /\ \A k \in 1 .. n : back[k] = Reverse(rows[k]) /\ Len(back[k]) = Len(rows[k])
    BY <1>1, MirroredIs
  <2>2. c \in Nat /\ (\A k \in 1 .. n : c <= Len(rows[k]))
        /\ \A m \in Nat : m <= c <=> Agree(back, m)
    <3> HIDE DEF back
    <3> QED BY <2>1, CommonLengthIs
  <2>3. Spans(type, rows) = [k \in DOMAIN rows |-> [row |-> rows[k], end |-> Len(rows[k]),
                                                    start |-> Len(rows[k]) - c]]
    BY <1>3 DEF Spans
  <2> HIDE DEF c, back
  <2>4. ASSUME NEW k \in 1 .. n, NEW i \in 1 .. Len(rows[k])
        PROVE  (\A j \in 1 .. n : IsSuffix(SubSeq(rows[k], i, Len(rows[k])), rows[j]))
                  <=> Len(rows[k]) - i + 1 <= c
    <3> DEFINE m == Len(rows[k]) - i + 1
    <3>1. m \in Nat /\ Len(rows[k]) \in Nat /\ 1 \in 1 .. n
      BY <1>1 DEF OptionsOK
    <3> HIDE DEF m
    <3>2. \A j \in 1 .. n : IsSuffix(SubSeq(rows[k], i, Len(rows[k])), rows[j])
                              <=> m <= Len(back[j]) /\ \A x \in 1 .. m : back[j][x] = back[k][x]
      <4> TAKE j \in 1 .. n
      <4>1. IsSuffix(SubSeq(rows[k], i, Len(rows[k])), rows[j])
              <=> m <= Len(rows[j]) /\ \A x \in 1 .. m : Reverse(rows[j])[x] = Reverse(rows[k])[x]
        BY <1>1, SuffixIs DEF m
      <4> QED BY <2>1, <4>1
    <3>3. (\A j \in 1 .. n : m <= Len(back[j]) /\ \A x \in 1 .. m : back[j][x] = back[k][x])
             <=> Agree(back, m)
      <4>1. ASSUME \A j \in 1 .. n : \A x \in 1 .. m : back[j][x] = back[k][x]
            PROVE  \A j \in 1 .. n : \A x \in 1 .. m : back[j][x] = back[1][x]
        BY <3>1, <4>1
      <4>2. ASSUME \A j \in 1 .. n : \A x \in 1 .. m : back[j][x] = back[1][x]
            PROVE  \A j \in 1 .. n : \A x \in 1 .. m : back[j][x] = back[k][x]
        BY <4>2
      <4> QED BY <2>1, <4>1, <4>2 DEF Agree
    <3>4. m <= c <=> Agree(back, m)
      BY <2>2, <3>1
    <3> QED BY <3>2, <3>3, <3>4 DEF m
  <2>5. ASSUME NEW k \in 1 .. n
        PROVE  ScoredOf(type, rows, k) = (Len(rows[k]) - c) + 1 .. Len(rows[k])
    <3>1. ScoredOf(type, rows, k) =
            {i \in 1 .. Len(rows[k]) :
               \A j \in 1 .. n : IsSuffix(SubSeq(rows[k], i, Len(rows[k])), rows[j])}
      BY <1>1, <1>3 DEF ScoredOf
    <3>2. ScoredOf(type, rows, k) = {i \in 1 .. Len(rows[k]) : Len(rows[k]) - i + 1 <= c}
      BY <2>4, <3>1
    <3>3. Len(rows[k]) \in Nat /\ c <= Len(rows[k])
      BY <1>1, <2>2
    <3> QED BY <2>2, <3>2, <3>3
  <2>6. \A k \in 1 .. n : Len(rows[k]) - c \in 0 .. Len(rows[k])
    BY <1>1, <2>2
  <2> QED BY <1>1, <2>3, <2>5, <2>6
<1> QED BY <1>2, <1>3 DEF Categorical

-----------------------------------------------------------------------------
(* Rows that are cut, padded and scored.                                   *)

CropOf(row) == Max({0, Len(row) - CoreMaxSeqLen})

LEMMA CropIs ==
  ASSUME NEW row \in Seq(Nat)
  PROVE  /\ CropOf(row) \in 0 .. Len(row) /\ CropOf(row) \in Nat
         /\ Len(row) > 0 => CropOf(row) < Len(row)
<1> DEFINE x == Len(row) - CoreMaxSeqLen
           S == {0, x}
<1>1. x \in Int /\ x < Len(row) + 1 /\ (Len(row) > 0 => x < Len(row)) /\ Len(row) \in Nat
  BY CoreAssumption
<1> HIDE DEF x
<1>2. CASE x <= 0
  <2>1. 0 \in S /\ \A y \in S : 0 >= y
    BY <1>1, <1>2
  <2>2. Max(S) \in S /\ \A y \in S : Max(S) >= y
    <3> HIDE DEF S
    <3> QED BY <2>1 DEF Max
  <2>3. Max(S) = 0
    BY <1>1, <1>2, <2>2
  <2> QED BY <1>1, <2>3 DEF CropOf, x
<1>3. CASE ~(x <= 0)
  <2>1. x \in S /\ \A y \in S : x >= y
    BY <1>1, <1>3
  <2>2. Max(S) \in S /\ \A y \in S : Max(S) >= y
    <3> HIDE DEF S
    <3> QED BY <2>1 DEF Max
  <2>3. Max(S) = x
    BY <1>1, <1>3, <2>2
  <2> QED BY <1>1, <1>3, <2>3 DEF CropOf, x
<1> QED BY <1>2, <1>3

\* stack begins with what the cut leaves of the row.
HoldsRow(stack, row) ==
  /\ stack \in Seq(Nat) /\ Len(stack) >= Len(row) - CropOf(row)
  /\ \A i \in 1 .. Len(row) - CropOf(row) : stack[i] = row[CropOf(row) + i]

LEMMA SeenIs ==
  ASSUME NEW row \in Seq(Nat), NEW stack, HoldsRow(stack, row), NEW i \in 1 .. Len(row) - CropOf(row)
  PROVE  /\ SubSeq(stack, 1, i - 1) = Visible(row, CropOf(row) + i)
         /\ stack[i] = row[CropOf(row) + i]
<1> DEFINE crop == CropOf(row)
<1>1. crop \in Nat /\ Len(row) \in Nat /\ crop <= Len(row)
  BY CropIs
<1>2. Visible(row, crop + i) = SubSeq(row, crop + 1, (crop + i) - 1)
  BY DEF Visible, CropOf
<1>3. stack \in Seq(Nat) /\ Len(stack) >= Len(row) - crop
      /\ \A j \in 1 .. Len(row) - crop : stack[j] = row[crop + j]
  BY DEF HoldsRow
<1> HIDE DEF crop
<1> DEFINE u == SubSeq(stack, 1, i - 1)
           v == SubSeq(row, crop + 1, (crop + i) - 1)
<1>4. i \in 1 .. Len(row) - crop
  BY DEF crop
<1>5. u \in Seq(Nat) /\ Len(u) = i - 1 /\ \A j \in 1 .. i - 1 : u[j] = stack[j]
  <2>1. i - 1 \in 0 .. Len(stack) /\ stack \in Seq(Nat) /\ Len(stack) \in Nat
    BY <1>1, <1>3, <1>4
  <2> QED BY ONLY <2>1
<1>6. v \in Seq(Nat) /\ Len(v) = i - 1 /\ \A j \in 1 .. i - 1 : v[j] = row[crop + j]
  <2>1. row \in Seq(Nat) /\ crop + 1 \in 1 .. Len(row) /\ (crop + i) - 1 \in 0 .. Len(row)
        /\ crop \in Nat /\ i \in Nat \ {0} /\ Len(row) \in Nat
    BY <1>1, <1>4
  <2>2. v \in Seq(Nat) /\ Len(v) = i - 1
    BY ONLY <2>1
  <2>3. ASSUME NEW j \in 1 .. i - 1 PROVE v[j] = row[crop + j]
    <3>1. v[j] = row[((crop + 1) + j) - 1]
      BY ONLY <2>1, <2>2, j \in 1 .. i - 1
    <3>2. ((crop + 1) + j) - 1 = crop + j
      BY <2>1
    <3> QED BY <3>1, <3>2
  <2> QED BY <2>2, <2>3
<1>7. u = v
  <2>1. \A j \in 1 .. i - 1 : u[j] = v[j]
    BY <1>1, <1>3, <1>4, <1>5, <1>6
  <2> HIDE DEF u, v
  <2> QED BY <1>5, <1>6, <2>1, SeqEqual
<1> QED BY <1>2, <1>3, <1>4, <1>7 DEF crop

LEMMA LossTyped ==
  ASSUME NEW before \in Seq(Nat), before # <<>>, NEW token \in Nat
  PROVE  LossAfter(before, token) \in 0 .. 4
<1>1. Len(before) \in Nat /\ before[Len(before)] \in Nat
  <2>1. Len(before) \in 1 .. Len(before)
    OBVIOUS
  <2> QED BY <2>1
<1> DEFINE x == 2 * Len(before) + before[Len(before)] + token
<1>2. x \in Nat
  BY <1>1
<1> HIDE DEF x
<1>3. x % 5 \in 0 .. 4
  BY <1>2
<1> QED BY <1>3 DEF LossAfter, x

LEMMA LossIsMean ==
  ASSUME NEW row \in Seq(Nat), NEW a \in 0 .. Len(row), NEW stack, HoldsRow(stack, row), NEW span,
         span.start = a - CropOf(row), span.end = Len(row) - CropOf(row), 1 <= span.start
  PROVE  /\ SpanLoss(stack, span) = MeanOf(row, a + 1 .. Len(row))
         /\ Counted(SpanLoss(stack, span))
         /\ SpanLoss(stack, span)[2] = Len(row) - a
<1> DEFINE crop == CropOf(row)
           m == Len(row) - a
           cost == [j \in 1 .. m |-> LossAfter(Visible(row, a + j), row[a + j])]
<1>1. crop \in Nat /\ Len(row) \in Nat /\ crop <= Len(row) /\ a \in Nat /\ a - crop >= 1
      /\ m \in Nat /\ a + m = Len(row)
  BY CropIs
<1>2. span.start \in Nat /\ span.end = span.start + m /\ span.start = a - crop
  BY <1>1
<1> HIDE DEF crop
<1>3. ASSUME NEW j \in 1 .. m
      PROVE  /\ SubSeq(stack, 1, (span.start + j) - 1) = Visible(row, a + j)
             /\ stack[span.start + j] = row[a + j]
             /\ Visible(row, a + j) \in Seq(Nat) /\ Visible(row, a + j) # <<>>
             /\ row[a + j] \in Nat
  <2> DEFINE i == span.start + j
  <2>1. i \in 1 .. Len(row) - crop /\ crop + i = a + j /\ i - 1 >= 1
    <3>1. j \in Nat /\ 1 <= j /\ j <= Len(row) - a
      BY <1>1
    <3>2. i = (a - crop) + j
      BY <1>2
    <3> HIDE DEF i, m
    <3> QED BY ONLY <1>1, <3>1, <3>2
  <2> HIDE DEF i
  <2>2. SubSeq(stack, 1, i - 1) = Visible(row, crop + i) /\ stack[i] = row[crop + i]
    BY <2>1, SeenIs DEF crop
  <2>3. stack \in Seq(Nat) /\ Len(stack) >= Len(row) - crop
    BY DEF HoldsRow, crop
  <2>4. i - 1 \in 1 .. Len(stack)
    BY <1>1, <2>1, <2>3
  <2>5. SubSeq(stack, 1, i - 1) \in Seq(Nat) /\ Len(SubSeq(stack, 1, i - 1)) = i - 1
    BY ONLY <2>3, <2>4
  <2>6. SubSeq(stack, 1, i - 1) # <<>>
    <3>1. Len(<<>>) = 0 /\ i - 1 # 0
      BY <2>1
    <3> DEFINE u == SubSeq(stack, 1, i - 1)
    <3> HIDE DEF u
    <3>2. u # <<>>
      BY ONLY <2>5, <3>1 DEF u
    <3> QED BY <3>2 DEF u
  <2>7. a + j \in 1 .. Len(row)
    BY <1>1
  <2>8. row[a + j] \in Nat
    BY <2>7
  <2>9. SubSeq(stack, 1, i - 1) = Visible(row, a + j) /\ stack[i] = row[a + j]
    BY <2>1, <2>2
  <2>10. Visible(row, a + j) \in Seq(Nat) /\ Visible(row, a + j) # <<>>
    BY <2>5, <2>6, <2>9
  <2> QED BY <2>8, <2>9, <2>10 DEF i
<1>4. cost \in [1 .. m -> 0 .. 4]
  BY <1>3, LossTyped
<1>5. \A j \in 1 .. m : cost[j] = LossAfter(Visible(row, a + j), row[a + j])
  OBVIOUS
<1>6. \A j \in 1 .. m :
        cost[j] = LossAfter(SubSeq(stack, 1, (span.start + j) - 1), stack[span.start + j])
  BY <1>3
<1> HIDE DEF cost, m
<1>7. SpanLoss(stack, span) = <<Cardinality(Cells(m, cost)), m>>
  <2>1. m \in Nat /\ span.start \in Nat /\ span.end = span.start + m
    BY <1>1, <1>2
  <2> QED BY ONLY <1>4, <1>6, <2>1, SpanLossIs, Zenon
<1>8. MeanOf(row, a + 1 .. a + m) = <<Cardinality(Cells(m, cost)), m>>
  <2>1. a \in Nat /\ m \in Nat
    BY <1>1
  <2> QED BY ONLY <1>4, <1>5, <2>1, MeanIs
<1>9. Cardinality(Cells(m, cost)) \in Nat
  BY <1>1, CellsFinite, FS_CardinalityType
<1> QED BY <1>1, <1>7, <1>8, <1>9 DEF Counted, m

LEMMA StackedIs ==
  ASSUME NEW batch, NEW n \in Nat \ {0}, DOMAIN batch = 1 .. n,
         \A k \in 1 .. n : batch[k].row \in Seq(Nat)
  PROVE  /\ DOMAIN Stacked(batch) = 1 .. n
         /\ \A k \in 1 .. n :
              /\ Stacked(batch)[k] \in Seq(Nat)
              /\ Len(Stacked(batch)[k]) >= Len(batch[k].row)
              /\ \A i \in 1 .. Len(batch[k].row) : Stacked(batch)[k][i] = batch[k].row[i]
<1> DEFINE S == {Len(batch[k].row) : k \in DOMAIN batch}
           f == [k \in 1 .. n |-> Len(batch[k].row)]
           width == Max(S)
<1>1. f \in [1 .. n -> Nat] /\ \A k \in 1 .. n : f[k] = Len(batch[k].row)
  OBVIOUS
<1>2. \A x : x \in S <=> \E k \in 1 .. n : f[k] = x
  OBVIOUS
<1> HIDE DEF f, S
<1>3. PICK r \in 1 .. n : \A s \in 1 .. n : f[s] <= f[r]
  BY <1>1, GreatestNatural
<1>4. f[r] \in S /\ \A y \in S : f[r] >= y
  BY <1>1, <1>2, <1>3
<1>5. Max(S) \in S /\ \A y \in S : Max(S) >= y
  BY <1>4 DEF Max
<1>6. width \in Nat /\ \A k \in 1 .. n : Len(batch[k].row) <= width /\ Len(batch[k].row) \in Nat
  BY <1>1, <1>2, <1>5
<1>7. Stacked(batch) = [k \in 1 .. n |->
          [i \in 1 .. width |-> IF i <= Len(batch[k].row) THEN batch[k].row[i] ELSE CoreBOS]]
  BY DEF Stacked, S
<1> HIDE DEF width
<1>8. ASSUME NEW k \in 1 .. n
      PROVE  /\ Stacked(batch)[k] \in Seq(Nat)
             /\ Len(Stacked(batch)[k]) >= Len(batch[k].row)
             /\ \A i \in 1 .. Len(batch[k].row) : Stacked(batch)[k][i] = batch[k].row[i]
  <2> DEFINE row == batch[k].row
             st  == [i \in 1 .. width |-> IF i <= Len(row) THEN row[i] ELSE CoreBOS]
  <2>1. row \in Seq(Nat) /\ Len(row) \in Nat /\ Len(row) <= width
    BY <1>6
  <2>2. Stacked(batch)[k] = st
    BY <1>7
  <2> HIDE DEF row
  <2>3. \A i \in 1 .. Len(row) : st[i] = row[i] /\ row[i] \in Nat
    BY <1>6, <2>1
  <2>4. st \in [1 .. width -> Nat]
    <3>1. ASSUME NEW i \in 1 .. width PROVE (IF i <= Len(row) THEN row[i] ELSE CoreBOS) \in Nat
      <4>1. CASE i <= Len(row)
        BY <2>1, <2>3, <4>1
      <4>2. CASE ~(i <= Len(row))
        BY <4>2 DEF CoreBOS
      <4> QED BY <4>1, <4>2
    <3> QED BY <3>1
  <2> HIDE DEF st
  <2>5. st \in Seq(Nat) /\ Len(st) = width
    BY <1>6, <2>4, LenProperties, SeqDef
  <2> QED BY <2>1, <2>2, <2>3, <2>5 DEF row
<1> QED BY <1>7, <1>8

\* What the cut leaves.
LEMMA CutIs ==
  ASSUME NEW row \in Seq(Nat), NEW a, NEW b
  PROVE  LET span == Truncated([row |-> row, start |-> a, end |-> b]) IN
         /\ span.start = a - CropOf(row) /\ span.end = b - CropOf(row)
         /\ span.row \in Seq(Nat) /\ Len(span.row) = Len(row) - CropOf(row)
         /\ \A i \in 1 .. Len(row) - CropOf(row) : span.row[i] = row[CropOf(row) + i]
<1> DEFINE crop == CropOf(row)
           cut  == SubSeq(row, crop + 1, Len(row))
           span == Truncated([row |-> row, start |-> a, end |-> b])
<1>1. crop \in Nat /\ crop <= Len(row) /\ Len(row) \in Nat
  BY CropIs
<1>2. span = [row |-> cut, start |-> a - crop, end |-> b - crop]
  BY DEF Truncated, CropOf
<1> HIDE DEF crop
<1>3. cut \in Seq(Nat) /\ Len(cut) = Len(row) - crop
      /\ \A i \in 1 .. Len(row) - crop : cut[i] = row[crop + i]
  <2>1. CASE crop = Len(row)
    <3>1. cut = <<>>
      BY <1>1, <2>1
    <3> QED BY <1>1, <2>1, <3>1
  <2>2. CASE crop < Len(row)
    <3>1. crop + 1 \in 1 .. Len(row) /\ Len(row) \in 0 .. Len(row)
      BY <1>1, <2>2
    <3>2. cut \in Seq(Nat) /\ Len(cut) = Len(row) - crop
      BY ONLY <1>1, <3>1, row \in Seq(Nat)
    <3>3. ASSUME NEW i \in 1 .. Len(row) - crop PROVE cut[i] = row[crop + i]
      <4>1. cut[i] = row[((crop + 1) + i) - 1]
        BY ONLY <1>1, <3>1, <3>2, row \in Seq(Nat), i \in 1 .. Len(row) - crop
      <4>2. ((crop + 1) + i) - 1 = crop + i
        BY <1>1
      <4> QED BY <4>1, <4>2
    <3> QED BY <3>2, <3>3
  <2> QED BY <1>1, <2>1, <2>2
<1> HIDE DEF cut
<1> QED BY <1>2, <1>3 DEF crop

\* The answer to a categorical example is one of the reference.
LEMMA CategoricalAnswer ==
  ASSUME NEW rows, NEW n, OptionsOK(rows, n), NEW type \in Categorical,
         Scorable(type, BatchOf(type, rows))
  PROVE  Answer(type, BatchOf(type, rows)) \in ReferenceAnswers(type, rows)
<1> DEFINE batch  == BatchOf(type, rows)
           stack  == Stacked(batch)
           spans  == Spans(type, rows)
           losses == [k \in 1 .. n |-> SpanLoss(stack[k], batch[k])]
           scored == [k \in 1 .. n |-> ScoredOf(type, rows, k)]
<1>1. /\ n \in Nat \ {0} /\ DOMAIN rows = 1 .. n /\ 1 \in 1 .. n
      /\ \A k \in 1 .. n : rows[k] \in Seq(Nat) /\ Len(rows[k]) \in Nat
  BY DEF OptionsOK
<1>2. /\ DOMAIN spans = 1 .. n
      /\ \A k \in 1 .. n : \E a \in 0 .. Len(rows[k]) :
              /\ spans[k] = [row |-> rows[k], start |-> a, end |-> Len(rows[k])]
              /\ ScoredOf(type, rows, k) = a + 1 .. Len(rows[k])
  BY SpanIs
<1>3. DOMAIN batch = 1 .. n /\ \A k \in 1 .. n : batch[k] = Truncated(spans[k])
  <2>1. batch = [k \in DOMAIN spans |-> Truncated(spans[k])]
    BY DEF BatchOf
  <2> HIDE DEF spans, batch
  <2> QED BY <1>2, <2>1
<1>4. \A k \in 1 .. n : 1 <= batch[k].start
  BY <1>3 DEF Scorable
<1> HIDE DEF spans, batch
<1>5. ASSUME NEW k \in 1 .. n
      PROVE  /\ batch[k].row \in Seq(Nat) /\ Len(batch[k].row) = Len(rows[k]) - CropOf(rows[k])
             /\ \A i \in 1 .. Len(rows[k]) - CropOf(rows[k]) :
                  batch[k].row[i] = rows[k][CropOf(rows[k]) + i]
             /\ \E a \in 0 .. Len(rows[k]) :
                  /\ batch[k].start = a - CropOf(rows[k])
                  /\ batch[k].end = Len(rows[k]) - CropOf(rows[k])
                  /\ ScoredOf(type, rows, k) = a + 1 .. Len(rows[k])
  <2>1. PICK a \in 0 .. Len(rows[k]) :
              /\ spans[k] = [row |-> rows[k], start |-> a, end |-> Len(rows[k])]
              /\ ScoredOf(type, rows, k) = a + 1 .. Len(rows[k])
    BY <1>2
  <2>2. batch[k] = Truncated([row |-> rows[k], start |-> a, end |-> Len(rows[k])])
    BY <1>3, <2>1
  <2> DEFINE len == Len(rows[k])
             crop == CropOf(rows[k])
             span == Truncated([row |-> rows[k], start |-> a, end |-> len])
  <2>3. /\ span.start = a - crop /\ span.end = len - crop
        /\ span.row \in Seq(Nat) /\ Len(span.row) = len - crop
        /\ \A i \in 1 .. len - crop : span.row[i] = rows[k][crop + i]
    BY <1>1, CutIs
  <2>4. batch[k] = span
    BY <2>2
  <2> HIDE DEF span
  <2> QED BY <2>1, <2>3, <2>4
<1>6. DOMAIN stack = 1 .. n /\ \A k \in 1 .. n : HoldsRow(stack[k], rows[k])
  <2>1. \A k \in 1 .. n : batch[k].row \in Seq(Nat)
    BY <1>5
  <2>2. /\ DOMAIN stack = 1 .. n
        /\ \A k \in 1 .. n :
              /\ stack[k] \in Seq(Nat)
              /\ Len(stack[k]) >= Len(batch[k].row)
              /\ \A i \in 1 .. Len(batch[k].row) : stack[k][i] = batch[k].row[i]
    BY <1>1, <1>3, <2>1, StackedIs
  <2> HIDE DEF stack
  <2> QED BY <1>5, <2>2 DEF HoldsRow
<1> HIDE DEF stack
<1>7. ASSUME NEW k \in 1 .. n
      PROVE  /\ losses[k] = MeanOf(rows[k], scored[k])
             /\ Counted(losses[k])
             /\ losses[k][2] = 0 <=> scored[k] = {}
  <2>1. PICK a \in 0 .. Len(rows[k]) :
          /\ batch[k].start = a - CropOf(rows[k])
          /\ batch[k].end = Len(rows[k]) - CropOf(rows[k])
          /\ ScoredOf(type, rows, k) = a + 1 .. Len(rows[k])
    BY <1>5
  <2>2. /\ SpanLoss(stack[k], batch[k]) = MeanOf(rows[k], a + 1 .. Len(rows[k]))
        /\ Counted(SpanLoss(stack[k], batch[k]))
        /\ SpanLoss(stack[k], batch[k])[2] = Len(rows[k]) - a
    BY <1>1, <1>4, <1>6, <2>1, LossIsMean
  <2>3. Len(rows[k]) - a = 0 <=> a + 1 .. Len(rows[k]) = {}
    <3>1. Len(rows[k]) \in Nat /\ a \in Nat /\ a <= Len(rows[k])
      BY <1>1
    <3>2. CASE a = Len(rows[k])
      BY ONLY <3>1, <3>2
    <3>3. CASE a # Len(rows[k])
      <4>1. a + 1 \in a + 1 .. Len(rows[k]) /\ Len(rows[k]) - a # 0
        BY ONLY <3>1, <3>3
      <4> QED BY <4>1
    <3> QED BY <3>2, <3>3
  <2> QED BY <2>1, <2>2, <2>3
<1>8. type # "language_modeling"
  BY DEF Categorical
<1>9. Answer(type, batch) = FirstLeast(losses)
  BY <1>3, <1>8 DEF Answer, stack
<1> DEFINE full == {k \in 1 .. n : scored[k] # {}}
<1>10. ReferenceAnswers(type, rows) =
         IF 1 \notin full THEN {1}
         ELSE {k \in full : \A j \in full :
                 ~Below(MeanOf(rows[j], scored[j]), MeanOf(rows[k], scored[k]))}
  BY <1>1, <1>8 DEF ReferenceAnswers
<1>11. DOMAIN losses = 1 .. n
  OBVIOUS
<1> HIDE DEF losses, scored
<1>12. \A k \in 1 .. n : k \in full <=> losses[k][2] # 0
  BY <1>7
<1>13. /\ FirstLeast(losses) \in 1 .. n
       /\ losses[1][2] = 0 => FirstLeast(losses) = 1
       /\ losses[1][2] # 0 =>
            /\ losses[FirstLeast(losses)][2] # 0
            /\ \A j \in 1 .. n : losses[j][2] # 0 => ~Below(losses[j], losses[FirstLeast(losses)])
  BY <1>1, <1>7, <1>11, FirstLeastIs
<1> DEFINE first == FirstLeast(losses)
<1>14. CASE 1 \notin full
  BY <1>1, <1>9, <1>10, <1>12, <1>13, <1>14 DEF batch
<1>15. CASE 1 \in full
  <2>1. first \in full
    BY <1>12, <1>13, <1>15
  <2>2. \A j \in full : ~Below(losses[j], losses[first])
    BY <1>12, <1>13, <1>15
  <2> HIDE DEF first
  <2>3. \A k \in full : losses[k] = MeanOf(rows[k], scored[k])
    BY <1>7
  <2> HIDE DEF full
  <2>4. first \in ReferenceAnswers(type, rows)
    BY <1>10, <1>15, <2>1, <2>2, <2>3
  <2> QED BY <1>9, <2>4 DEF first, batch
<1> QED BY <1>14, <1>15

\* The answer to a language-modeling example is that of the reference.
LEMMA ContinuationAnswer ==
  ASSUME NEW rows, OptionsOK(rows, 2), Len(rows[1]) <= Len(rows[2]),
         NEW type, type = "language_modeling", Scorable(type, BatchOf(type, rows))
  PROVE  Answer(type, BatchOf(type, rows)) \in ReferenceAnswers(type, rows)
<1> DEFINE batch == BatchOf(type, rows)
           stack == Stacked(batch)
           row   == rows[2]
           a     == Len(rows[1])
           crop  == CropOf(row)
<1>1. /\ DOMAIN rows = 1 .. 2 /\ row \in Seq(Nat) /\ Len(row) \in Nat /\ a \in Nat /\ a <= Len(row)
      /\ DOMAIN rows[1] = 1 .. a /\ DOMAIN rows[2] = 1 .. Len(row)
  BY DEF OptionsOK
<1>2. crop \in Nat /\ crop <= Len(row)
  BY <1>1, CropIs
<1>3. Spans(type, rows) = <<[row |-> row, start |-> a, end |-> Len(row)]>>
  BY DEF Spans
<1>4. DOMAIN batch = 1 .. 1 /\ batch[1] = Truncated([row |-> row, start |-> a, end |-> Len(row)])
  BY <1>3 DEF BatchOf
<1>5. 1 <= batch[1].start
  BY <1>4 DEF Scorable
<1> HIDE DEF batch
<1>6. /\ batch[1].start = a - crop /\ batch[1].end = Len(row) - crop
      /\ batch[1].row \in Seq(Nat) /\ Len(batch[1].row) = Len(row) - crop
      /\ \A i \in 1 .. Len(row) - crop : batch[1].row[i] = row[crop + i]
  BY <1>1, <1>4, CutIs
<1>7. HoldsRow(stack[1], row)
  <2>1. /\ stack[1] \in Seq(Nat)
        /\ Len(stack[1]) >= Len(batch[1].row)
        /\ \A i \in 1 .. Len(batch[1].row) : stack[1][i] = batch[1].row[i]
    <3> DEFINE n == 1
    <3>1. n \in Nat \ {0} /\ 1 \in 1 .. n /\ DOMAIN batch = 1 .. n
      BY <1>4
    <3>2. \A k \in 1 .. n : batch[k].row \in Seq(Nat)
      BY <1>6
    <3> HIDE DEF n
    <3>3. \A k \in 1 .. n :
            /\ stack[k] \in Seq(Nat)
            /\ Len(stack[k]) >= Len(batch[k].row)
            /\ \A i \in 1 .. Len(batch[k].row) : stack[k][i] = batch[k].row[i]
      BY <3>1, <3>2, StackedIs
    <3> QED BY <3>1, <3>3
  <2> HIDE DEF stack
  <2> QED BY <1>6, <2>1 DEF HoldsRow
<1> HIDE DEF stack
<1> DEFINE told == \A i \in batch[1].start + 1 .. batch[1].end :
                     PredictedAfter(SubSeq(stack[1], 1, i - 1)) = stack[1][i]
           known == \A i \in ScoredOf(type, rows, 2) : PredictedAfter(Visible(row, i)) = row[i]
<1>8. ScoredOf(type, rows, 2) = a + 1 .. Len(row)
  <2>1. ScoredOf(type, rows, 2) = DOMAIN rows[2] \ DOMAIN rows[1]
    BY DEF ScoredOf
  <2>2. (1 .. Len(row)) \ (1 .. a) = a + 1 .. Len(row)
    <3> HIDE DEF a, row
    <3> QED BY ONLY <1>1
  <2> QED BY <1>1, <2>1, <2>2
<1>9. \A i \in 1 .. Len(row) - crop :
        SubSeq(stack[1], 1, i - 1) = Visible(row, crop + i) /\ stack[1][i] = row[crop + i]
  BY <1>1, <1>7, SeenIs
<1>10. told <=> known
  <2>1. ASSUME told, NEW i \in a + 1 .. Len(row)
        PROVE  PredictedAfter(Visible(row, i)) = row[i]
    <3>1. /\ i - crop \in batch[1].start + 1 .. batch[1].end
          /\ i - crop \in 1 .. Len(row) - crop /\ crop + (i - crop) = i
      <4> HIDE DEF crop, a, row
      <4>1. i \in Nat /\ a + 1 <= i /\ i <= Len(row) /\ 1 <= a - crop
        BY <1>1, <1>5, <1>6
      <4>2. /\ i - crop \in a - crop + 1 .. Len(row) - crop
            /\ i - crop \in 1 .. Len(row) - crop /\ crop + (i - crop) = i
        BY ONLY <1>1, <1>2, <4>1
      <4> QED BY <1>6, <4>2
    <3> QED BY <1>9, <2>1, <3>1
  <2>2. ASSUME known, NEW i \in batch[1].start + 1 .. batch[1].end
        PROVE  PredictedAfter(SubSeq(stack[1], 1, i - 1)) = stack[1][i]
    <3>1. crop + i \in a + 1 .. Len(row) /\ i \in 1 .. Len(row) - crop
      <4> HIDE DEF crop, a, row
      <4>1. i \in a - crop + 1 .. Len(row) - crop /\ 1 <= a - crop
        BY <1>5, <1>6
      <4>2. /\ i \in Int /\ a - crop + 1 <= i /\ i <= Len(row) - crop /\ 1 <= a - crop
            /\ crop \in Nat /\ a \in Nat /\ Len(row) \in Nat
        BY <1>1, <1>2, <4>1
      <4> QED BY ONLY <4>2
    <3> QED BY <1>8, <1>9, <2>2, <3>1
  <2> QED BY <1>8, <2>1, <2>2
<1>11. Answer(type, batch) = IF told THEN 1 ELSE 0
  BY DEF Answer, stack
<1>12. ReferenceAnswers(type, rows) = {IF known THEN 1 ELSE 0}
  BY DEF ReferenceAnswers
<1> HIDE DEF told, known
<1> QED BY <1>10, <1>11, <1>12 DEF batch

-----------------------------------------------------------------------------
(* The prompts of a case.                                                  *)

LEMMA TaskIs ==
  ASSUME NEW t \in CoreTasks
  PROVE  /\ t.type \in Categorical \cup {"language_modeling"} /\ t.fewshot \in Nat
         /\ t.examples \in Seq([context : Seq(Nat), options : Seq(Seq(Nat)), gold : Nat])
         /\ \A e \in DOMAIN t.examples :
              /\ t.examples[e].context \in Seq(Nat) /\ t.examples[e].gold \in Nat
              /\ t.examples[e].options \in Seq(Seq(Nat)) /\ t.examples[e].options # <<>>
<1> DEFINE R == [context : Seq(Nat), options : Seq(Seq(Nat)), gold : Nat]
<1>1. /\ t.type \in {"multiple_choice", "schema", "language_modeling"} /\ t.fewshot \in Nat
      /\ t.examples \in Seq(R)
      /\ \A e \in DOMAIN t.examples : t.examples[e].options # <<>>
  BY CoreAssumption
<1>2. \A e \in DOMAIN t.examples : t.examples[e] \in R
  <2> HIDE DEF R
  <2> QED BY <1>1
<1> QED BY <1>1, <1>2 DEF Categorical

LEMMA RenderedIs ==
  ASSUME NEW S \in SUBSET Nat, NEW shots \in Seq(S),
         NEW context \in Seq(Nat), NEW continuation \in Seq(Nat)
  PROVE  /\ Rendered(shots, context, continuation) \in Seq(Nat)
         /\ Len(Rendered(shots, context, continuation))
              = 1 + Len(shots) + Len(context) + Len(continuation)
<1> DEFINE cells == [i \in DOMAIN shots |-> ShotCell(shots[i])]
           head  == <<CoreBOS>>
<1>1. cells \in Seq(Nat) /\ Len(cells) = Len(shots)
  <2>1. DOMAIN shots = 1 .. Len(shots) /\ Len(shots) \in Nat
        /\ \A i \in 1 .. Len(shots) : shots[i] \in Nat
    <3>1. DOMAIN shots = 1 .. Len(shots) /\ Len(shots) \in Nat
          /\ \A i \in 1 .. Len(shots) : shots[i] \in S
      BY ONLY shots \in Seq(S)
    <3> QED BY <3>1
  <2>2. \A i \in 1 .. Len(shots) : ShotCell(shots[i]) \in Nat
    BY <2>1 DEF ShotCell
  <2>3. cells \in [1 .. Len(shots) -> Nat]
    BY <2>1, <2>2
  <2> DEFINE m == Len(shots)
  <2> HIDE DEF cells, m
  <2>4. m \in Nat /\ cells \in [1 .. m -> Nat]
    BY <2>1, <2>3 DEF m
  <2>5. cells \in Seq(Nat) /\ Len(cells) = m
    BY ONLY <2>4, LenProperties, SeqDef
  <2> QED BY <2>5 DEF m
<1>2. head \in Seq(Nat) /\ Len(head) = 1
  BY DEF CoreBOS
<1>3. Rendered(shots, context, continuation) = (head \o cells) \o context \o continuation
  BY DEF Rendered, Prefix
<1> HIDE DEF cells, head
<1>4. head \o cells \in Seq(Nat) /\ Len(head \o cells) = 1 + Len(shots)
  <2>1. head \o cells \in Seq(Nat) /\ Len(head \o cells) = Len(head) + Len(cells)
    BY ONLY <1>1, <1>2, ConcatProperties
  <2> QED BY <1>1, <1>2, <2>1
<1> DEFINE p == head \o cells
<1> HIDE DEF p
<1>5. p \o context \in Seq(Nat) /\ Len(p \o context) = 1 + Len(shots) + Len(context)
  <2>1. p \in Seq(Nat) /\ Len(p) = 1 + Len(shots)
    BY <1>4 DEF p
  <2>2. p \o context \in Seq(Nat) /\ Len(p \o context) = Len(p) + Len(context)
    BY ONLY <2>1, context \in Seq(Nat), ConcatProperties
  <2> QED BY <2>1, <2>2
<1> DEFINE q == p \o context
<1> HIDE DEF q
<1>6. q \o continuation \in Seq(Nat)
      /\ Len(q \o continuation) = 1 + Len(shots) + Len(context) + Len(continuation)
  <2>1. q \in Seq(Nat) /\ Len(q) = 1 + Len(shots) + Len(context)
    BY <1>5 DEF q
  <2>2. /\ q \o continuation \in Seq(Nat)
        /\ Len(q \o continuation) = Len(q) + Len(continuation)
    BY ONLY <2>1, continuation \in Seq(Nat), ConcatProperties
  <2> QED BY <2>1, <2>2
<1> QED BY <1>3, <1>6 DEF p, q

LEMMA PromptsAre ==
  ASSUME NEW t \in CoreTasks, NEW e \in DOMAIN t.examples, NEW shots \in Seq(DOMAIN t.examples)
  PROVE  LET rows == CorePrompts(t.type, t.examples[e], shots) IN
         /\ t.type \in Categorical => \E n \in Nat : OptionsOK(rows, n)
         /\ t.type = "language_modeling" => OptionsOK(rows, 2) /\ Len(rows[1]) <= Len(rows[2])
<1> DEFINE x    == t.examples[e]
           rows == CorePrompts(t.type, x, shots)
           n    == Len(x.options)
           S    == DOMAIN t.examples
<1>1. x.context \in Seq(Nat) /\ x.options \in Seq(Seq(Nat)) /\ x.options # <<>>
  BY TaskIs
<1>2. S \in SUBSET Nat
  <2>1. S = 1 .. Len(t.examples)
    BY TaskIs
  <2> QED BY <2>1
<1> HIDE DEF S
<1>3. n \in Nat \ {0} /\ DOMAIN x.options = 1 .. n /\ \A k \in 1 .. n : x.options[k] \in Seq(Nat)
  <2> DEFINE o == x.options
  <2>1. o \in Seq(Seq(Nat)) /\ o # <<>>
    BY <1>1
  <2> HIDE DEF o
  <2>2. Len(o) \in Nat \ {0} /\ DOMAIN o = 1 .. Len(o) /\ \A k \in 1 .. Len(o) : o[k] \in Seq(Nat)
    BY <2>1
  <2> QED BY <2>2 DEF o
<1> HIDE DEF x, n
<1>4. shots \in Seq(S)
  BY DEF S
<1>5. CASE t.type = "multiple_choice"
  <2>1. rows = [k \in DOMAIN x.options |-> Rendered(shots, x.context, x.options[k])]
    BY <1>5 DEF CorePrompts
  <2>2. \A k \in 1 .. n : Rendered(shots, x.context, x.options[k]) \in Seq(Nat)
    BY <1>1, <1>2, <1>3, <1>4, RenderedIs
  <2>3. OptionsOK(rows, n)
    BY <1>3, <2>1, <2>2 DEF OptionsOK
  <2> QED BY <1>3, <1>5, <2>3 DEF x
<1>6. CASE t.type = "schema"
  <2>1. rows = [k \in DOMAIN x.options |-> Rendered(shots, x.options[k], x.context)]
    BY <1>6 DEF CorePrompts
  <2>2. \A k \in 1 .. n : Rendered(shots, x.options[k], x.context) \in Seq(Nat)
    BY <1>1, <1>2, <1>3, <1>4, RenderedIs
  <2>3. OptionsOK(rows, n)
    BY <1>3, <2>1, <2>2 DEF OptionsOK
  <2> QED BY <1>3, <1>6, <2>3 DEF x
<1>7. CASE t.type = "language_modeling"
  <2> DEFINE without == Rendered(shots, x.context, <<>>)
             whole   == Rendered(shots, x.context, x.options[1])
  <2>1. rows = <<without, whole>>
    BY <1>7 DEF CorePrompts
  <2>2. x.options[1] \in Seq(Nat) /\ <<>> \in Seq(Nat) /\ Len(<<>>) = 0
    BY <1>3
  <2>3. /\ without \in Seq(Nat) /\ Len(without) = 1 + Len(shots) + Len(x.context) + Len(<<>>)
        /\ whole \in Seq(Nat) /\ Len(whole) = 1 + Len(shots) + Len(x.context) + Len(x.options[1])
    <3> DEFINE c == x.context
               o == x.options[1]
    <3>1. /\ S \in SUBSET Nat /\ shots \in Seq(S) /\ c \in Seq(Nat) /\ o \in Seq(Nat)
          /\ <<>> \in Seq(Nat)
      BY <1>1, <1>2, <1>4, <2>2
    <3> HIDE DEF c, o, S
    <3>2. /\ Rendered(shots, c, <<>>) \in Seq(Nat)
          /\ Len(Rendered(shots, c, <<>>)) = 1 + Len(shots) + Len(c) + Len(<<>>)
      BY ONLY <3>1, RenderedIs
    <3>3. /\ Rendered(shots, c, o) \in Seq(Nat)
          /\ Len(Rendered(shots, c, o)) = 1 + Len(shots) + Len(c) + Len(o)
      BY ONLY <3>1, RenderedIs
    <3> QED BY <3>2, <3>3 DEF c, o
  <2> HIDE DEF without, whole
  <2>4. Len(without) <= Len(whole)
    <3>1. Len(shots) \in Nat /\ Len(x.context) \in Nat /\ Len(x.options[1]) \in Nat
      BY <1>1, <2>2
    <3> QED BY <2>2, <2>3, <3>1
  <2>5. DOMAIN rows = 1 .. 2 /\ rows[1] = without /\ rows[2] = whole
    BY <2>1
  <2>6. OptionsOK(rows, 2)
    <3>1. \A k \in 1 .. 2 : k = 1 \/ k = 2
      OBVIOUS
    <3> HIDE DEF rows
    <3> QED BY <2>3, <2>5, <3>1 DEF OptionsOK
  <2>7. "language_modeling" \notin Categorical
    BY DEF Categorical
  <2> QED BY <1>7, <2>4, <2>5, <2>6, <2>7 DEF x
<1> QED BY <1>5, <1>6, <1>7, TaskIs DEF Categorical

\* The prompts of a case c of the task t, what it may be answered, and what
\* it should be.
RowsOf(t, c)   == CorePrompts(t.type, t.examples[c.example], c.shots)
Expected(t, c) == ReferenceAnswers(t.type, RowsOf(t, c))
Gold(t, c)     == t.examples[c.example].gold

LEMMA ExpectedTyped ==
  ASSUME NEW t \in CoreTasks, NEW c, c.example \in DOMAIN t.examples,
         c.shots \in Seq(DOMAIN t.examples)
  PROVE  Expected(t, c) \subseteq Nat
<1> DEFINE rows == RowsOf(t, c)
<1>1. CASE t.type = "language_modeling"
  BY <1>1 DEF Expected, ReferenceAnswers
<1>2. CASE t.type \in Categorical
  <2>1. PICK n \in Nat : OptionsOK(rows, n)
    BY <1>2, PromptsAre DEF RowsOf
  <2>2. DOMAIN rows = 1 .. n
    BY <2>1 DEF OptionsOK
  <2>3. t.type # "language_modeling"
    BY <1>2 DEF Categorical
  <2> HIDE DEF rows
  <2>4. ReferenceAnswers(t.type, rows) \subseteq DOMAIN rows \cup {1}
    BY <2>3 DEF ReferenceAnswers
  <2> QED BY <2>2, <2>4 DEF Expected, rows
<1> QED BY <1>1, <1>2, TaskIs

LEMMA AnswerIsExpected ==
  ASSUME NEW t \in CoreTasks, NEW c, c.example \in DOMAIN t.examples,
         c.shots \in Seq(DOMAIN t.examples),
         Scorable(t.type, BatchOf(t.type, RowsOf(t, c)))
  PROVE  Answer(t.type, BatchOf(t.type, RowsOf(t, c))) \in Expected(t, c)
<1> DEFINE rows == RowsOf(t, c)
<1>1. CASE t.type = "language_modeling"
  <2>1. OptionsOK(rows, 2) /\ Len(rows[1]) <= Len(rows[2])
    BY <1>1, PromptsAre DEF RowsOf
  <2> HIDE DEF rows
  <2>2. Answer(t.type, BatchOf(t.type, rows)) \in ReferenceAnswers(t.type, rows)
    BY <1>1, <2>1, ContinuationAnswer DEF rows
  <2> QED BY <2>2 DEF rows, Expected
<1>2. CASE t.type \in Categorical
  <2>1. PICK n \in Nat : OptionsOK(rows, n)
    BY <1>2, PromptsAre DEF RowsOf
  <2> HIDE DEF rows
  <2>2. Answer(t.type, BatchOf(t.type, rows)) \in ReferenceAnswers(t.type, rows)
    BY <1>2, <2>1, CategoricalAnswer DEF rows
  <2> QED BY <2>2 DEF rows, Expected
<1> QED BY <1>1, <1>2, TaskIs

-----------------------------------------------------------------------------
(* The inductive invariant.                                                *)

\* A case of the task t, and a list of cases.
CaseOK(t, c) ==
  /\ c.example \in DOMAIN t.examples /\ c.shots \in Seq(DOMAIN t.examples)
  /\ c.example \notin ToSet(c.shots) /\ Len(c.shots) = t.fewshot

PoolSize(t, limit) ==
  IF limit = 0 THEN Cardinality(DOMAIN t.examples)
  ELSE Min({limit, Cardinality(DOMAIN t.examples)})

CasesOK(t, limit, cases) ==
  /\ Len(cases) \in Nat /\ DOMAIN cases = 1 .. Len(cases) /\ Len(cases) = PoolSize(t, limit)
  /\ \A m, n \in DOMAIN cases : cases[m].example = cases[n].example => m = n
  /\ \A n \in DOMAIN cases : CaseOK(t, cases[n])

\* The first cases are answered, and the right answers counted.
Right(t, cases, answers) == {n \in 1 .. Len(answers) : answers[n] = Gold(t, cases[n])}

AnswersOK(t, cases, answers, correct) ==
  /\ answers \in Seq(Nat) /\ Len(answers) <= Len(cases)
  /\ \A n \in 1 .. Len(answers) : answers[n] \in Expected(t, cases[n])
  /\ correct = Cardinality(Right(t, cases, answers))

CoreFields == {"at", "limit", "cases", "answers", "correct"}

CoreInv ==
  /\ coreTask \in CoreTasks
  /\ DOMAIN core = CoreFields /\ core = [f \in CoreFields |-> core[f]]
  /\ core.at \in {"open", "cases", "result", "error"} /\ core.limit \in Nat
  /\ core.at = "open" => core.answers = <<>> /\ core.correct = 0
  /\ core.at \in {"cases", "result"} =>
       /\ CasesOK(coreTask, core.limit, core.cases)
       /\ AnswersOK(coreTask, core.cases, core.answers, core.correct)
  /\ core.at = "result" => Len(core.answers) = Len(core.cases)

LEMMA CoreInvInit == CoreInit => CoreInv
<1> SUFFICES ASSUME CoreInit PROVE CoreInv
  OBVIOUS
<1>1. coreTask \in CoreTasks
  BY DEF CoreInit
<1>2. PICK limit \in CoreLimits :
        core = [at |-> "open", limit |-> limit, cases |-> <<>>, answers |-> <<>>, correct |-> 0]
  BY DEF CoreInit
<1>3. limit \in Nat
  BY <1>2, CoreAssumption
<1> QED BY <1>1, <1>2, <1>3 DEF CoreInv, CoreFields

\* The size of the pool.
LEMMA PoolSizeIs ==
  ASSUME NEW t \in CoreTasks, NEW limit \in Nat
  PROVE  /\ DOMAIN t.examples = 1 .. Len(t.examples) /\ Len(t.examples) \in Nat
         /\ Cardinality(DOMAIN t.examples) = Len(t.examples)
         /\ PoolSize(t, limit) = IF limit = 0 THEN Len(t.examples)
                                 ELSE Min({limit, Len(t.examples)})
         /\ PoolSize(t, limit) \in 0 .. Len(t.examples)
<1> DEFINE L == Len(t.examples)
           S == {limit, L}
<1>1. DOMAIN t.examples = 1 .. L /\ L \in Nat
  BY TaskIs
<1> HIDE DEF L
<1>2. Cardinality(1 .. L) = L
  <2>1. 1 \in Int /\ L \in Int
    BY <1>1
  <2>2. Cardinality(1 .. L) = IF 1 > L THEN 0 ELSE L - 1 + 1
    BY <2>1, FS_Interval
  <2> QED BY <1>1, <2>2
<1>3. Min(S) \in 0 .. L
  <2>1. \E x \in S : \A y \in S : x <= y
    <3>1. CASE limit <= L
      BY <1>1, <3>1
    <3>2. CASE ~(limit <= L)
      BY <1>1, <3>2
    <3> QED BY <3>1, <3>2
  <2>2. Min(S) \in S /\ \A y \in S : Min(S) <= y
    <3> HIDE DEF S
    <3> QED BY <2>1 DEF Min
  <2>3. Min(S) \in Nat /\ Min(S) <= L
    BY <1>1, <2>2
  <2> QED BY <1>1, <2>3
<1>4. Cardinality(DOMAIN t.examples) = L
  BY <1>1, <1>2
<1>5. PoolSize(t, limit) = IF limit = 0 THEN L ELSE Min(S)
  BY <1>4 DEF PoolSize
<1>6. PoolSize(t, limit) \in 0 .. L
  <2> HIDE DEF S
  <2>1. L \in 0 .. L
    BY <1>1
  <2> QED BY <1>3, <1>5, <2>1
<1> QED BY <1>1, <1>4, <1>5, <1>6 DEF L

\* The cases that are made of a pool.
CasesOf(pool, drawn) ==
  [n \in DOMAIN pool |-> [example |-> pool[n],
                          shots |-> [k \in DOMAIN drawn[n] |-> pool[drawn[n][k]]]]]
Prepared(pool) ==
  \E drawn \in [DOMAIN pool -> UNION {Samples(pool, n) : n \in DOMAIN pool}] :
    /\ \A n \in DOMAIN pool : drawn[n] \in Samples(pool, n)
    /\ core' = [core EXCEPT !.at = "cases", !.cases = CasesOf(pool, drawn)]

LEMMA PrepareKeeps == ASSUME CoreInv, PrepareCases PROVE CoreInv'
<1> DEFINE t == coreTask
           L == Len(t.examples)
           N == PoolSize(t, core.limit)
<1>1. t \in CoreTasks /\ core.limit \in Nat /\ core.at = "open" /\ coreTask' = t
      /\ core.answers = <<>> /\ core.correct = 0
      /\ DOMAIN core = CoreFields /\ core = [f \in CoreFields |-> core[f]]
  BY DEF CoreInv, PrepareCases
<1>2. /\ DOMAIN t.examples = 1 .. L /\ L \in Nat
      /\ N = IF core.limit = 0 THEN L ELSE Min({core.limit, L})
      /\ N \in 0 .. L
  BY <1>1, PoolSizeIs
<1>3. Examples = 1 .. L
  BY <1>2 DEF Examples
<1>4. t.fewshot \in Nat
  BY <1>1, TaskIs
<1>5. PICK all \in Shuffles :
        Prepared(SubSeq(all, 1, IF core.limit = 0 THEN Len(all) ELSE Min({core.limit, Len(all)})))
  BY DEF PrepareCases, Prepared, CasesOf
<1>6. all \in [1 .. L -> 1 .. L] /\ IsInjective(all)
  BY <1>3, <1>5 DEF Shuffles
<1> HIDE DEF L, N, t
<1>7. all \in Seq(1 .. L) /\ Len(all) = L
  BY <1>2, <1>6, LenProperties, SeqDef
<1> DEFINE pool == SubSeq(all, 1, N)
<1>8. pool \in Seq(1 .. L) /\ Len(pool) = N /\ \A i \in 1 .. N : pool[i] = all[i]
  <2>1. N \in 0 .. Len(all)
    BY <1>2, <1>7
  <2> QED BY ONLY <1>7, <2>1
<1>9. DOMAIN pool = 1 .. N /\ N \in Nat /\ \A i \in 1 .. N : pool[i] \in 1 .. L
  <2> HIDE DEF pool
  <2>1. N \in Nat
    BY <1>2
  <2>2. DOMAIN pool = 1 .. N
    BY ONLY <1>8, LenProperties
  <2>3. \A i \in DOMAIN pool : pool[i] \in 1 .. L
    BY ONLY <1>8, ElementOfSeq, <2>2
  <2> QED BY <2>1, <2>2, <2>3
<1>10. \A i, j \in 1 .. N : pool[i] = pool[j] => i = j
  <2>1. \A i \in 1 .. N : i \in 1 .. L
    BY <1>2
  <2> HIDE DEF pool
  <2> QED BY <1>6, <1>8, <2>1 DEF IsInjective
<1>11. PICK drawn :
         /\ \A n \in DOMAIN pool : drawn[n] \in Samples(pool, n)
         /\ core' = [core EXCEPT !.at = "cases", !.cases = CasesOf(pool, drawn)]
  <2>1. N = IF core.limit = 0 THEN Len(all) ELSE Min({core.limit, Len(all)})
    BY <1>2, <1>7
  <2>2. Prepared(pool)
    BY <1>5, <2>1
  <2> HIDE DEF pool
  <2> QED BY <2>2 DEF Prepared
<1> HIDE DEF pool
<1> DEFINE cases == CasesOf(pool, drawn)
<1> USE DEF CasesOf
<1>12. ASSUME NEW n \in 1 .. N PROVE CaseOK(t, cases[n])
  <2>1. drawn[n] \in [1 .. t.fewshot -> (1 .. N) \ {n}]
    BY <1>9, <1>11 DEF Samples, Others, t
  <2> DEFINE shots == [k \in DOMAIN drawn[n] |-> pool[drawn[n][k]]]
             m == t.fewshot
  <2>2. cases[n].example = pool[n] /\ cases[n].shots = shots
    BY <1>9
  <2>3. DOMAIN drawn[n] = 1 .. m /\ m \in Nat
        /\ \A k \in 1 .. m : drawn[n][k] \in 1 .. N /\ drawn[n][k] # n
    BY <1>4, <2>1
  <2>4. \A k \in 1 .. m : shots[k] = pool[drawn[n][k]] /\ shots[k] \in 1 .. L /\ shots[k] # pool[n]
    BY <1>9, <1>10, <2>3
  <2>5. shots \in [1 .. m -> 1 .. L]
    BY <2>3, <2>4
  <2> HIDE DEF shots, m, cases
  <2>6. shots \in Seq(1 .. L) /\ Len(shots) = m
    <3> DEFINE S == 1 .. L
    <3>1. m \in Nat /\ shots \in [1 .. m -> S]
      BY <2>3, <2>5
    <3> HIDE DEF S
    <3>2. shots \in Seq(S) /\ Len(shots) = m
      BY ONLY <3>1, LenProperties, SeqDef
    <3> QED BY <3>2 DEF S
  <2>7. pool[n] \notin ToSet(shots)
    BY <2>4, <2>5 DEF ToSet
  <2> QED BY <1>2, <1>9, <2>2, <2>6, <2>7 DEF CaseOK, m
<1>13. DOMAIN cases = 1 .. N /\ \A n \in 1 .. N : cases[n].example = pool[n]
  BY <1>9
<1>14. Len(cases) = N
  <2>1. cases = [n \in 1 .. N |-> [example |-> pool[n],
                 shots |-> [k \in DOMAIN drawn[n] |-> pool[drawn[n][k]]]]]
    BY <1>9
  <2> HIDE DEF cases
  <2> QED BY <1>9, <2>1
<1>15. core' = [core EXCEPT !.at = "cases", !.cases = cases]
  BY <1>11
<1> HIDE DEF cases
<1>16. CasesOK(t, core.limit, cases)
  BY <1>9, <1>10, <1>12, <1>13, <1>14 DEF CasesOK, N
<1>17. AnswersOK(t, cases, <<>>, 0)
  <2>1. <<>> \in Seq(Nat) /\ Len(<<>>) = 0
    OBVIOUS
  <2>2. Right(t, cases, <<>>) = {}
    BY <2>1 DEF Right
  <2>3. Cardinality(Right(t, cases, <<>>)) = 0
    BY <2>2, FS_EmptySet
  <2> QED BY <1>9, <1>14, <2>1, <2>3 DEF AnswersOK
<1>18. /\ core'.at = "cases" /\ core'.limit = core.limit /\ core'.cases = cases
       /\ core'.answers = <<>> /\ core'.correct = 0
       /\ DOMAIN core' = CoreFields /\ core' = [f \in CoreFields |-> core'[f]]
  BY <1>1, <1>15 DEF CoreFields
<1> QED BY <1>1, <1>16, <1>17, <1>18 DEF CoreInv, t

LEMMA ScoreCaseKeeps == ASSUME CoreInv, ScoreCase PROVE CoreInv'
<1> DEFINE t == coreTask
           m == Len(core.answers) + 1
           c == core.cases[m]
           batch == BatchOf(t.type, RowsOf(t, c))
           answer == Answer(t.type, batch)
<1>1. /\ t \in CoreTasks /\ core.limit \in Nat /\ core.at = "cases" /\ coreTask' = t
      /\ DOMAIN core = CoreFields /\ core = [f \in CoreFields |-> core[f]]
      /\ CasesOK(t, core.limit, core.cases)
      /\ AnswersOK(t, core.cases, core.answers, core.correct)
      /\ Len(core.answers) < Len(core.cases)
  BY DEF CoreInv, ScoreCase
<1>2. /\ Len(core.cases) \in Nat /\ DOMAIN core.cases = 1 .. Len(core.cases)
      /\ \A n \in DOMAIN core.cases : CaseOK(t, core.cases[n])
      /\ core.answers \in Seq(Nat) /\ Len(core.answers) \in Nat
      /\ \A n \in 1 .. Len(core.answers) : core.answers[n] \in Expected(t, core.cases[n])
      /\ core.correct = Cardinality(Right(t, core.cases, core.answers))
  <2>1. /\ Len(core.cases) \in Nat /\ DOMAIN core.cases = 1 .. Len(core.cases)
        /\ \A n \in DOMAIN core.cases : CaseOK(t, core.cases[n])
    BY <1>1 DEF CasesOK
  <2>2. /\ core.answers \in Seq(Nat)
        /\ \A n \in 1 .. Len(core.answers) : core.answers[n] \in Expected(t, core.cases[n])
        /\ core.correct = Cardinality(Right(t, core.cases, core.answers))
    BY <1>1 DEF AnswersOK
  <2>3. Len(core.answers) \in Nat
    BY <2>2, LenProperties
  <2> QED BY <2>1, <2>2, <2>3
<1>3. m \in DOMAIN core.cases
  BY <1>1, <1>2
<1>4. c.example \in DOMAIN t.examples /\ c.shots \in Seq(DOMAIN t.examples)
  BY <1>2, <1>3 DEF CaseOK
<1>5. core' = IF Scorable(t.type, batch)
              THEN [core EXCEPT !.answers = Append(@, answer),
                     !.correct = @ + (IF answer = Gold(t, c) THEN 1 ELSE 0)]
              ELSE [core EXCEPT !.at = "error"]
  BY DEF ScoreCase, Type, PromptsOf, Example, RowsOf, Gold
<1> HIDE DEF batch, answer, t, c, m
<1>6. CASE ~Scorable(t.type, batch)
  <2>1. /\ core'.at = "error" /\ core'.limit = core.limit
        /\ DOMAIN core' = CoreFields /\ core' = [f \in CoreFields |-> core'[f]]
    BY <1>1, <1>5, <1>6 DEF CoreFields
  <2> QED BY <1>1, <2>1 DEF CoreInv
<1>7. CASE Scorable(t.type, batch)
  <2>1. answer \in Expected(t, c)
    BY <1>1, <1>4, <1>7, AnswerIsExpected DEF answer, batch
  <2>2. answer \in Nat
    BY <1>1, <1>4, <2>1, ExpectedTyped
  <2> DEFINE answers == Append(core.answers, answer)
             right   == Right(t, core.cases, core.answers)
             correct == core.correct + (IF answer = Gold(t, c) THEN 1 ELSE 0)
  <2>3. answers \in Seq(Nat) /\ Len(answers) = m /\ answers[m] = answer
        /\ \A n \in 1 .. Len(core.answers) : answers[n] = core.answers[n]
    BY <1>2, <2>2 DEF m
  <2>4. /\ core'.at = "cases" /\ core'.limit = core.limit /\ core'.cases = core.cases
        /\ core'.answers = answers /\ core'.correct = correct
        /\ DOMAIN core' = CoreFields /\ core' = [f \in CoreFields |-> core'[f]]
    BY <1>1, <1>5, <1>7 DEF CoreFields
  <2> HIDE DEF answers
  <2>5. \A n \in 1 .. m : n = m \/ n \in 1 .. Len(core.answers)
    BY <1>2 DEF m
  <2>6. \A n \in 1 .. m : answers[n] \in Expected(t, core.cases[n])
    BY <1>2, <2>1, <2>3, <2>5 DEF c
  <2>7. Right(t, core.cases, answers) = IF answer = Gold(t, c) THEN right \cup {m} ELSE right
    <3>1. \A n : n \in right <=>
            n \in 1 .. Len(core.answers) /\ core.answers[n] = Gold(t, core.cases[n])
      BY DEF Right
    <3>2. \A n : n \in Right(t, core.cases, answers) <=>
            n \in 1 .. m /\ answers[n] = Gold(t, core.cases[n])
      BY <2>3 DEF Right
    <3>3. m \in 1 .. m /\ m \notin 1 .. Len(core.answers)
          /\ \A n \in 1 .. Len(core.answers) : n \in 1 .. m
      BY <1>2 DEF m
    <3>4. answers[m] = Gold(t, core.cases[m]) <=> answer = Gold(t, c)
      BY <2>3 DEF c
    <3> HIDE DEF right
    <3> QED BY <2>3, <2>5, <3>1, <3>2, <3>3, <3>4
  <2>8. m \notin right /\ IsFiniteSet(right) /\ Cardinality(right) \in Nat
    <3>1. right \in SUBSET (1 .. Len(core.answers)) /\ m \notin 1 .. Len(core.answers)
      BY <1>2 DEF Right, m
    <3>2. IsFiniteSet(1 .. Len(core.answers))
      <4>1. 1 \in Int /\ Len(core.answers) \in Int
        BY <1>2
      <4> QED BY ONLY <4>1, FS_Interval
    <3> HIDE DEF right
    <3> QED BY <3>1, <3>2, FS_Subset, FS_CardinalityType
  <2>9. correct = Cardinality(Right(t, core.cases, answers))
    <3>1. Cardinality(right \cup {m}) = Cardinality(right) + 1
      <4> HIDE DEF right
      <4> QED BY <2>8, FS_AddElement
    <3>2. core.correct = Cardinality(right)
      BY <1>2
    <3>3. correct = core.correct + (IF answer = Gold(t, c) THEN 1 ELSE 0)
      OBVIOUS
    <3>4. /\ answer = Gold(t, c) => correct = Cardinality(right) + 1
          /\ answer # Gold(t, c) => correct = Cardinality(right)
      BY ONLY <2>8, <3>2, <3>3
    <3> HIDE DEF right, correct
    <3> QED BY ONLY <2>7, <3>1, <3>4
  <2>10. m <= Len(core.cases)
    BY <1>2, <1>3
  <2> HIDE DEF correct
  <2>11. AnswersOK(t, core.cases, answers, correct)
    BY <2>3, <2>6, <2>9, <2>10 DEF AnswersOK
  <2> QED BY <1>1, <2>4, <2>11 DEF CoreInv
<1> QED BY <1>6, <1>7

LEMMA CoreInvStep == CoreInv /\ [CoreNext]_coreVars => CoreInv'
<1> SUFFICES ASSUME CoreInv, [CoreNext]_coreVars PROVE CoreInv'
  OBVIOUS
<1>1. CASE PrepareCases
  BY <1>1, PrepareKeeps
<1>2. CASE RefuseCore
  <2>1. /\ core'.at = "error" /\ core'.limit = core.limit /\ coreTask' = coreTask
        /\ DOMAIN core' = CoreFields /\ core' = [f \in CoreFields |-> core'[f]]
    BY <1>2 DEF RefuseCore, CoreInv, CoreFields
  <2> QED BY <2>1 DEF CoreInv
<1>3. CASE ScoreCase
  BY <1>3, ScoreCaseKeeps
<1>4. CASE FinishCore
  <2>1. /\ core'.at = "result" /\ core'.limit = core.limit /\ core'.cases = core.cases
        /\ core'.answers = core.answers /\ core'.correct = core.correct /\ coreTask' = coreTask
        /\ DOMAIN core' = CoreFields /\ core' = [f \in CoreFields |-> core'[f]]
    BY <1>4 DEF FinishCore, CoreInv, CoreFields
  <2>2. core.at = "cases" /\ Len(core.answers) = Len(core.cases)
    BY <1>4 DEF FinishCore
  <2> QED BY <2>1, <2>2 DEF CoreInv
<1>5. CASE UNCHANGED coreVars
  BY <1>5 DEF coreVars, CoreInv
<1> QED BY <1>1, <1>2, <1>3, <1>4, <1>5 DEF CoreNext

LEMMA CoreInvAlways == CoreSpec => []CoreInv
<1>1. CoreInit => CoreInv
  BY CoreInvInit
<1>2. CoreInv /\ [CoreNext]_coreVars => CoreInv'
  BY CoreInvStep
<1> QED BY <1>1, <1>2, PTL DEF CoreSpec

\* A CORE result (evaluation/core) is exact: every case is a different
\* example of the pool and none of its own shots, every answer is the one of
\* options that are scored alone, whole and unpadded, and the right ones are
\* counted, for any task, examples, context length and limit.
THEOREM CoreIsExactHolds == CoreSpec => []CoreIsExact
<1>1. CoreInv => CoreIsExact
  <2> SUFFICES ASSUME CoreInv, core.at = "result" PROVE CoreIsExact
    BY DEF CoreIsExact
  <2> DEFINE t == coreTask
  <2>1. /\ t \in CoreTasks /\ core.limit \in Nat /\ Len(core.answers) = Len(core.cases)
        /\ CasesOK(t, core.limit, core.cases)
        /\ AnswersOK(t, core.cases, core.answers, core.correct)
    BY DEF CoreInv
  <2>2. \A m, n \in DOMAIN core.cases : core.cases[m].example = core.cases[n].example => m = n
    BY <2>1 DEF CasesOK
  <2>3. Len(core.cases) = IF core.limit = 0 THEN Cardinality(Examples)
                          ELSE Min({core.limit, Cardinality(Examples)})
    BY <2>1 DEF CasesOK, PoolSize, Examples
  <2>4. DOMAIN core.cases = 1 .. Len(core.answers)
    BY <2>1 DEF CasesOK
  <2>5. ASSUME NEW n \in DOMAIN core.cases
        PROVE  /\ core.cases[n].example \notin ToSet(core.cases[n].shots)
               /\ Len(core.cases[n].shots) = coreTask.fewshot
               /\ core.answers[n] \in ReferenceAnswers(Type, PromptsOf(core.cases[n]))
    <3>1. CaseOK(t, core.cases[n])
      BY <2>1 DEF CasesOK
    <3>2. core.answers[n] \in Expected(t, core.cases[n])
      BY <2>1, <2>4 DEF AnswersOK
    <3> QED BY <3>1, <3>2 DEF CaseOK, Expected, RowsOf, Type, PromptsOf, Example
  <2>6. core.correct = Cardinality({n \in DOMAIN core.cases :
           core.answers[n] = Example(core.cases[n].example).gold})
    BY <2>1, <2>4 DEF AnswersOK, Right, Gold, Example
  <2> QED BY <2>2, <2>3, <2>5, <2>6 DEF CoreIsExact
<1> QED BY <1>1, CoreInvAlways, PTL
=============================================================================
