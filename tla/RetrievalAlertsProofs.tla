------------------------ MODULE RetrievalAlertsProofs -------------------------
(***************************************************************************)
(* Proofs about Retrieval and about Alerts, the two ends where the program *)
(* talks to people.  They share nothing but the module.                    *)
(*                                                                         *)
(* Retrieval, for any finite tables of products and symbols, any texts,    *)
(* limits and sizes of the pools: an answer fits the request, what it      *)
(* shows against it a sync has changed meanwhile, its picks are spread,    *)
(* its confidence is honest and its ranking fair.                          *)
(*                                                                         *)
(* Alerts, for any priority, cooldown and bound on the count: what is      *)
(* counted and stamped survives from run to run, each transition is told   *)
(* once, and the operator knows how the sync stands.                       *)
(***************************************************************************)
EXTENDS Retrieval, Alerts, FiniteSetTheorems, TLAPS

-------------------------------------------------------------------------------
(* Retrieval: requests and signals *)

\* What the tools' parameters may be.
LEMMA RequestFacts ==
  ASSUME req \in Requests
  PROVE  /\ req # NoRequest
         /\ req.kind \in {"pair", "semantic", "similar"}
         /\ req.text \in TextType
         /\ req.hint \subseteq Symbols
         /\ req.within \subseteq Products
         /\ req.limit \in Nat \ {0}
         /\ req.min \in 0 .. Unit
         /\ req.kind \in {"pair", "similar"} => req.min = 0
<1>1. \/ req.kind = "pair" /\ req.hint \in Hints /\ req.min = 0
      \/ req.kind = "semantic" /\ req.hint = {} /\ req.min \in Mins
      \/ req.kind = "similar" /\ req.hint = {} /\ req.min = 0
  BY DEF Requests, Asked
<1>2. req.text \in Texts /\ req.within \in Columns /\ req.limit \in Limits
  BY DEF Requests, Asked
<1>3. req.text \in TextType /\ req.within \subseteq Products /\ req.hint \subseteq Symbols
  BY <1>1, <1>2, TablesAssumption
<1>4. req.limit \in Nat \ {0}
  BY <1>2, NumbersAssumption
<1>5. req.min \in 0 .. Unit
  <2>1. Mins \subseteq 0 .. Unit
    BY NumbersAssumption
  <2>2. 0 \in 0 .. Unit
    BY DEF Unit
  <2> QED BY <1>1, <2>1, <2>2
<1>6. req # NoRequest
  BY <1>1 DEF NoRequest
<1> QED BY <1>1, <1>3, <1>4, <1>5, <1>6

\* Similarities are shares of a unit; the symbols inferred are symbols, and not more
\* than a unit has parts.
LEMMA SignalTypes ==
  ASSUME req \in Requests
  PROVE  /\ Words("sim") \in [Products -> 0 .. Unit]
         /\ \A c \in Products : Sim(c) \in 0 .. Unit
         /\ Inferred \subseteq Symbols
         /\ IsFiniteSet(Inferred) /\ Cardinality(Inferred) \in 0 .. Unit
<1>1. req.text \in TextType /\ req.hint \subseteq Symbols
  BY RequestFacts
<1>2. Words("sim") \in [Products -> 0 .. Unit] /\ Words("keys") \subseteq DOMAIN Keywords
  BY <1>1 DEF Words, TextType
<1>3. Inferred \subseteq Symbols
  BY <1>1, <1>2, TablesAssumption DEF Inferred
<1>4. /\ IsFiniteSet(Inferred) /\ Cardinality(Inferred) <= Cardinality(Symbols)
      /\ Cardinality(Inferred) \in Nat /\ Cardinality(Symbols) \in Nat
  BY <1>3, SizesAssumption, FS_Subset, FS_CardinalityType
<1>5. Cardinality(Inferred) \in 0 .. Unit
  BY <1>4, SizesAssumption DEF Unit
<1> QED BY <1>2, <1>3, <1>4, <1>5 DEF Sim

\* Division rounds down, and to zero only what is smaller than the divisor.
LEMMA Quotients ==
  ASSUME NEW a \in Nat, NEW b \in Nat \ {0}
  PROVE  /\ a \div b \in Nat
         /\ a >= b => a \div b >= 1
         /\ a = 0 => a \div b = 0
OBVIOUS

\* A candidate's symbol match is positive iff it shares a symbol with the text: the
\* division in score_candidates does not round a shared symbol away.
LEMMA SharedCounts ==
  ASSUME req \in Requests, NEW c \in Products
  PROVE  /\ SymbolMatch(c) \in Nat
         /\ SymbolMatch(c) > 0 <=> Tags[c] \cap Inferred # {}
<1> DEFINE shared == Inferred \cap Tags[c]
<1>1. /\ IsFiniteSet(Inferred) /\ Cardinality(Inferred) \in 0 .. Unit
  BY SignalTypes
<1>2. /\ IsFiniteSet(shared) /\ Cardinality(shared) \in Nat
      /\ Cardinality(shared) = 0 <=> shared = {}
      /\ Cardinality(Inferred) = 0 <=> Inferred = {}
  <2>1. shared \in SUBSET Inferred
    OBVIOUS
  <2>2. IsFiniteSet(shared)
    BY <1>1, <2>1, FS_Subset
  <2> QED BY <1>1, <2>2, FS_CardinalityType, FS_EmptySet
<1>3. CASE Inferred = {}
  BY <1>3 DEF SymbolMatch
<1>4. CASE Inferred # {}
  <2> DEFINE a == Unit * Cardinality(shared)
             b == Cardinality(Inferred)
  <2>1. SymbolMatch(c) = a \div b
    BY <1>4 DEF SymbolMatch
  <2>2. a \in Nat /\ b \in Nat \ {0} /\ (shared = {} => a = 0) /\ (shared # {} => a >= b)
    BY <1>1, <1>2, <1>4 DEF Unit
  <2> HIDE DEF a, b
  <2>3. /\ a \div b \in Nat
        /\ a >= b => a \div b >= 1
        /\ a = 0 => a \div b = 0
    BY <2>2, Quotients
  <2> QED BY <2>1, <2>2, <2>3
<1> QED BY <1>3, <1>4

-------------------------------------------------------------------------------
(* Retrieval: rankings, nearest products, sequences *)

\* s holds each member of the set once, by falling totals, then similarities.
IsRanking(s, set, total) ==
  /\ s \in Seq(set) /\ s \in Seq(Products)
  /\ Len(s) = Cardinality(set) /\ Len(s) \in Nat
  /\ \A i, j \in 1 .. Len(s) : s[i] = s[j] => i = j
  /\ ToSet(s) = set
  /\ \A i, j \in 1 .. Len(s) :
       i < j => \/ total[s[i]] > total[s[j]]
                \/ total[s[i]] = total[s[j]] /\ Sim(s[i]) >= Sim(s[j])

\* The stable sort of score_candidates, and the ORDER BY of the searches, give such.
LEMMA RankedFacts ==
  ASSUME NEW set \in SUBSET Products, NEW total, NEW s \in Ranked(set, total)
  PROVE  IsRanking(s, set, total)
<1> DEFINE n == Cardinality(set)
<1>1. IsFiniteSet(set) /\ n \in Nat
  BY SizesAssumption, FS_Subset, FS_CardinalityType
<1>2. /\ s \in [1 .. n -> set]
      /\ \A i, j \in 1 .. n : i # j => s[i] # s[j]
  BY DEF Ranked, SetToSeqs
<1>3. Len(s) = n /\ s \in Seq(set) /\ s \in Seq(Products)
  BY <1>1, <1>2
<1>4. s \in Injection(1 .. n, set)
  BY <1>2 DEF Injection, IsInjective
<1>5. Cardinality(1 .. n) = n
  BY <1>1, FS_Interval
<1>6. s \in Surjection(1 .. n, set)
  BY <1>1, <1>4, <1>5, FS_Injection
<1>7. ToSet(s) = set
  BY <1>2, <1>6 DEF Surjection, ToSet
<1>8. \A i, j \in 1 .. Len(s) :
              i < j => \/ total[s[i]] > total[s[j]]
                       \/ total[s[i]] = total[s[j]] /\ Sim(s[i]) >= Sim(s[j])
  BY DEF Ranked
<1> QED BY <1>1, <1>2, <1>3, <1>7, <1>8 DEF IsRanking

\* ORDER BY distance LIMIT n takes n, or all there are, and leaves nothing nearer out.
LEMMA NearestFacts ==
  ASSUME NEW set \in SUBSET Products, NEW n \in Nat \ {0}, NEW near \in Nearest(set, n)
  PROVE  /\ near \in SUBSET set
         /\ Cardinality(near) \in Nat /\ Cardinality(near) <= n
         /\ set # {} => near # {}
         /\ near = set \/ Cardinality(near) = n
         /\ \A p \in near : \A q \in set \ near : Sim(p) >= Sim(q)
<1>1. IsFiniteSet(set) /\ Cardinality(set) \in Nat
  BY SizesAssumption, FS_Subset, FS_CardinalityType
<1>2. /\ near \in SUBSET set
      /\ Cardinality(near) = IF Cardinality(set) < n THEN Cardinality(set) ELSE n
      /\ \A p \in near : \A q \in set \ near : Sim(p) >= Sim(q)
  BY DEF Nearest
<1>3. Cardinality(set) = Cardinality(near) => set = near
  BY <1>1, <1>2, FS_Subset
<1>4. set # {} => Cardinality(set) # 0
  BY <1>1, FS_EmptySet
<1>5. near = {} => Cardinality(near) = 0
  BY FS_EmptySet
<1> QED BY <1>1, <1>2, <1>3, <1>4, <1>5

\* A sequence without repetitions has as many members as places.
LEMMA SequenceOfSet ==
  ASSUME NEW s \in Seq(Products), \A i, j \in 1 .. Len(s) : s[i] = s[j] => i = j
  PROVE  Cardinality(ToSet(s)) = Len(s)
<1>1. s \in [1 .. Len(s) -> ToSet(s)] /\ Len(s) \in Nat
  BY DEF ToSet
<1>2. s \in Injection(1 .. Len(s), ToSet(s))
  BY <1>1 DEF Injection, IsInjective
<1>3. s \in Surjection(1 .. Len(s), ToSet(s))
  BY <1>1 DEF Surjection, ToSet
<1>4. ASSUME NEW n \in Nat PROVE IsFiniteSet(1 .. n) /\ Cardinality(1 .. n) = n
  BY FS_Interval
<1>5. IsFiniteSet(1 .. Len(s)) /\ Cardinality(1 .. Len(s)) = Len(s)
  BY <1>1, <1>4, Zenon
<1> QED BY <1>2, <1>3, <1>5, FS_Surjection

-------------------------------------------------------------------------------
(* Retrieval: the inductive invariant *)

\* The product carries a symbol of the text.
Shared(p) == Tags[p] \cap Inferred # {}

\* What a call has not got to yet is empty, and each stage is for some tools only.
Waiting ==
  /\ stage = "idle" <=> req = NoRequest
  /\ stage \in {"idle", "embed", "rank", "score", "rows"} => at = 1 /\ picked = <<>>
  /\ stage \in {"idle", "embed", "rank", "score"} => order = <<>>
  /\ stage \in {"score", "spread", "fill"} => req.kind = "pair"
  /\ stage = "rows" => req.kind = "semantic"

\* Candidates are allowed; and if anything allowed carries a symbol, one of them does:
\* the second query of _fetch_candidates injects it.
CandsAreFit ==
  stage \in {"score", "spread", "fill"} =>
    /\ cands \subseteq fits
    /\ (\E p \in fits : Shared(p)) => \E c \in cands : Shared(c)

\* The pool holds nothing twice and only what is allowed.
OrderIsFit ==
  stage \in {"spread", "fill", "rows"} =>
    /\ \A i, j \in 1 .. Len(order) : order[i] = order[j] => i = j
    /\ \A i \in 1 .. Len(order) : order[i] \in fits

\* The ids that wait for the second connection are the nearest of what is allowed.
RowsAreNearest ==
  stage = "rows" =>
    /\ Len(order) <= req.limit
    /\ ~Words("smoky") =>
         \A p \in fits :
           \/ \E i \in 1 .. Len(order) : order[i] = p
           \/ Sim(p) < req.min
           \/ Len(order) = req.limit /\ \A i \in 1 .. Len(order) : Sim(order[i]) >= Sim(p)

\* The first loop of diversify has taken the first of each category among the places it
\* has passed, in order.
SpreadSoFar ==
  stage = "spread" =>
    /\ Len(picked) < req.limit
    /\ \E place \in [1 .. Len(picked) -> 1 .. at - 1] :
         /\ \A n \in 1 .. Len(picked) : picked[n] = order[place[n]] /\ First(place[n])
         /\ \A m, n \in 1 .. Len(picked) : m < n => place[m] < place[n]
         /\ \A i \in 1 .. at - 1 : First(i) => \E n \in 1 .. Len(picked) : place[n] = i
         /\ \A i \in 1 .. at - 1 : \E n \in 1 .. Len(picked) : Bucket[picked[n]] = Bucket[order[i]]

\* The second loop has the first of each category, then everything it has passed.
FillSoFar ==
  stage = "fill" =>
    /\ Len(picked) < req.limit
    /\ \E place \in [1 .. Len(picked) -> 1 .. Len(order)] :
         /\ \A n \in 1 .. Len(picked) : picked[n] = order[place[n]]
         /\ \A m, n \in 1 .. Len(picked) : m < n => Before(place[m], place[n])
         /\ \A n \in 1 .. Len(picked) : First(place[n]) \/ place[n] < at
         /\ \A i \in 1 .. Len(order) : First(i) \/ i < at => \E n \in 1 .. Len(picked) : place[n] = i

\* All of it, with the properties.
RetIInv ==
  /\ RetTypeOK
  /\ Waiting
  /\ CandsAreFit
  /\ OrderIsFit
  /\ RowsAreNearest
  /\ SpreadSoFar
  /\ FillSoFar
  /\ PicksAreSpread
  /\ AnswerFits
  /\ ConfidenceIsHonest
  /\ NoLexicalLuck

-------------------------------------------------------------------------------
(* Retrieval: picks and their places in the pool *)

\* The picks s come from the places of a pool o, none of them beyond m.
Placed(place, s, o, m) ==
  /\ place \in [1 .. Len(s) -> 1 .. m]
  /\ \A n \in 1 .. Len(s) : s[n] = o[place[n]]

\* No two picks have one place.
Distinct(place, s) == \A m, n \in 1 .. Len(s) : m < n => place[m] # place[n]

\* t is s and one more pick, from place i of the pool; the others keep their places.
Grown(place, s, t, o, i, m) ==
  /\ t \in Seq(Products) /\ Len(t) = Len(s) + 1 /\ Len(t) \in 1 .. Len(t)
  /\ \A k \in 1 .. Len(s) : t[k] = s[k]
  /\ \A k \in 1 .. Len(t) : k = Len(t) \/ k \in 1 .. Len(s)
  /\ \E q : /\ Placed(q, t, o, m)
           /\ q[Len(t)] = i
           /\ \A k \in 1 .. Len(s) : q[k] = place[k]

\* Pool o holds nothing twice and nothing that is not allowed.
PoolFits(o, allowed) ==
  /\ o \in Seq(Products)
  /\ \A i, j \in 1 .. Len(o) : o[i] = o[j] => i = j
  /\ \A i \in 1 .. Len(o) : o[i] \in allowed

\* What the answer of a pairing owes to the places it takes its picks from.
LEMMA PicksFit ==
  ASSUME NEW o, NEW s \in Seq(Products), NEW allowed, NEW place,
         PoolFits(o, allowed), Placed(place, s, o, Len(o)), Distinct(place, s)
  PROVE  ToSet(s) \subseteq allowed /\ Cardinality(ToSet(s)) = Len(s)
<1> USE DEF PoolFits, Placed, Distinct
<1>1. ToSet(s) \subseteq allowed
  BY DEF ToSet
<1>2. \A i, j \in 1 .. Len(s) : s[i] = s[j] => i = j
  <2> SUFFICES ASSUME NEW i \in 1 .. Len(s), NEW j \in 1 .. Len(s), s[i] = s[j], i # j PROVE FALSE
    OBVIOUS
  <2>1. place[i] = place[j]
    OBVIOUS
  <2>2. i < j \/ j < i
    OBVIOUS
  <2> QED BY <2>1, <2>2
<1> QED BY <1>1, <1>2, SequenceOfSet

\* One more pick takes the place it is picked from.
LEMMA PlacesGrow ==
  ASSUME NEW o \in Seq(Products), NEW s \in Seq(Products), NEW i \in 1 .. Len(o),
         NEW n \in Nat, NEW m \in Nat, n <= m, i \in 1 .. m,
         NEW place, Placed(place, s, o, n)
  PROVE  Grown(place, s, Append(s, o[i]), o, i, m)
<1> USE DEF Placed
<1> DEFINE t == Append(s, o[i])
           q == [k \in 1 .. Len(t) |-> IF k = Len(t) THEN i ELSE place[k]]
<1>1. /\ t \in Seq(Products) /\ Len(t) = Len(s) + 1 /\ Len(t) \in 1 .. Len(t)
      /\ t[Len(t)] = o[i] /\ \A k \in 1 .. Len(s) : t[k] = s[k]
      /\ \A k \in 1 .. Len(t) : k = Len(t) \/ k \in 1 .. Len(s)
      /\ \A k \in 1 .. Len(s) : k \in 1 .. Len(t) /\ k # Len(t)
  OBVIOUS
<1> HIDE DEF t
<1>2. q[Len(t)] = i /\ \A k \in 1 .. Len(s) : q[k] = place[k]
  BY <1>1
<1>3. q \in [1 .. Len(t) -> 1 .. m]
  <2>1. ASSUME NEW k \in 1 .. Len(t)
        PROVE  (IF k = Len(t) THEN i ELSE place[k]) \in 1 .. m
    BY <1>1
  <2> QED BY <2>1
<1>4. \A k \in 1 .. Len(t) : t[k] = o[q[k]]
  BY <1>1, <1>2
<1>5. \E f :
        /\ Placed(f, t, o, m)
        /\ f[Len(t)] = i
        /\ \A k \in 1 .. Len(s) : f[k] = place[k]
  <2> HIDE DEF q
  <2> QED BY <1>2, <1>3, <1>4
<1> QED BY <1>1, <1>5 DEF t, Grown

\* The same where any place of the pool will do.
LEMMA PlacesGrowInPool ==
  ASSUME NEW o \in Seq(Products), NEW s \in Seq(Products), NEW i \in 1 .. Len(o),
         NEW place, Placed(place, s, o, Len(o))
  PROVE  Grown(place, s, Append(s, o[i]), o, i, Len(o))
<1>1. Len(o) \in Nat /\ Len(o) <= Len(o)
  OBVIOUS
<1>2. i \in 1 .. Len(o)
  OBVIOUS
<1> QED BY <1>1, <1>2, PlacesGrow, Zenon

-------------------------------------------------------------------------------
(* Retrieval: the call begins, candidates are fetched *)

\* The first state.
LEMMA RetInitStep == RetInit => RetIInv
<1> SUFFICES ASSUME RetInit PROVE RetIInv
  OBVIOUS
<1> USE DEF RetInit
<1>1. order \in Seq(Products) /\ picked \in Seq(Products) /\ Len(order) = 0 /\ Len(picked) = 0
  OBVIOUS
<1>2. RetTypeOK
  BY <1>1 DEF RetTypeOK
<1>3. Waiting /\ CandsAreFit /\ OrderIsFit /\ RowsAreNearest /\ SpreadSoFar /\ FillSoFar
  BY DEF Waiting, CandsAreFit, OrderIsFit, RowsAreNearest, SpreadSoFar, FillSoFar
<1>4. PicksAreSpread /\ AnswerFits /\ ConfidenceIsHonest /\ NoLexicalLuck
  BY DEF PicksAreSpread, AnswerFits, ConfidenceIsHonest, NoLexicalLuck
<1> QED BY <1>2, <1>3, <1>4 DEF RetIInv

\* In a call, the request is one.
LEMMA InACall ==
  ASSUME RetIInv, stage # "idle"
  PROVE  req \in Requests /\ req # NoRequest /\ req.limit \in Nat \ {0}
BY RequestFacts DEF RetIInv, RetTypeOK, Waiting

\* An empty answer fits.
LEMMA NothingFits ==
  ASSUME NEW s, s = <<>>, NEW allowed
  PROVE  /\ ToSet(s) \subseteq allowed /\ Cardinality(ToSet(s)) = Len(s)
<1>1. ToSet(s) = {} /\ Len(s) = 0
  BY DEF ToSet
<1> QED BY <1>1, FS_EmptySet

\* The WHERE clause, and the symbols of the text, select products.
LEMMA FittingFacts ==
  ASSUME req \in Requests
  PROVE  Fitting \in SUBSET Products /\ Tagged \in SUBSET Fitting
BY RequestFacts DEF Fitting, Tagged

\* max(50, limit * 5) is a number of candidates.
LEMMA PoolSizes ==
  ASSUME req.limit \in Nat \ {0}
  PROVE  PoolSize \in Nat \ {0}
<1> DEFINE n == PerPick * req.limit
<1>1. Pool \in Nat \ {0} /\ PerPick \in Nat
  BY NumbersAssumption
<1>2. n \in Int
  BY <1>1
<1>3. PoolSize = IF Pool < n THEN n ELSE Pool
  BY DEF PoolSize
<1> HIDE DEF n
<1> QED BY <1>1, <1>2, <1>3

\* Candidates are fetched: what the pool of nearest products misses is injected.
LEMMA PairFetchStep == RetIInv /\ PairFetch => RetIInv'
<1> SUFFICES ASSUME RetIInv, PairFetch PROVE RetIInv'
  OBVIOUS
<1> USE DEF PairFetch, RetIInv, Goto
<1>1. req \in Requests /\ req # NoRequest /\ req.limit \in Nat \ {0}
  BY InACall
<1>2. Fitting \in SUBSET Products /\ Tagged \in SUBSET Fitting
  BY <1>1, FittingFacts
<1>3. PICK pool \in Nearest(Fitting, PoolSize), injected \in Nearest(Tagged, InjectN) : cands' = pool \cup injected
  OBVIOUS
<1>4. PoolSize \in Nat \ {0} /\ InjectN \in Nat \ {0}
  BY <1>1, PoolSizes, NumbersAssumption
<1>5. pool \in SUBSET Fitting
  BY <1>2, <1>4, NearestFacts
<1>6. injected \in SUBSET Tagged /\ (Tagged # {} => injected # {})
  <2>1. Tagged \in SUBSET Products
    BY <1>2
  <2> QED BY <1>4, <2>1, NearestFacts
<1>7. cands' \in SUBSET Fitting
  BY <1>2, <1>3, <1>5, <1>6
<1>8. (\E p \in Fitting : Shared(p)) => \E c \in cands' : Shared(c)
  BY <1>2, <1>3, <1>6 DEF Tagged, Shared
<1>9. order = <<>> /\ picked = <<>> /\ at = 1 /\ stage' \in {"done", "score"} /\ req' = req
  BY DEF Waiting
<1>10. RetTypeOK'
  BY <1>1, <1>2, <1>7, <1>9 DEF RetTypeOK, Belied
<1>11. Waiting' /\ OrderIsFit' /\ RowsAreNearest' /\ SpreadSoFar' /\ FillSoFar'
  BY <1>1, <1>9 DEF Waiting, OrderIsFit, RowsAreNearest, SpreadSoFar, FillSoFar
<1>12. CandsAreFit'
  BY <1>7, <1>8, <1>9 DEF CandsAreFit, Shared, Inferred, Words
<1>13. PicksAreSpread' /\ ConfidenceIsHonest' /\ NoLexicalLuck'
  BY <1>9 DEF PicksAreSpread, ConfidenceIsHonest, NoLexicalLuck
<1>14. AnswerFits'
  BY <1>9, NothingFits DEF AnswerFits
<1> QED BY <1>10, <1>11, <1>12, <1>13, <1>14

-------------------------------------------------------------------------------
(* Retrieval: candidates are scored *)

\* Every signal is a number, and the guard against names strikes just the candidates
\* that only echo the text.
LEMMA SignalsAdd ==
  ASSUME req \in Requests, NEW c \in Products
  PROVE  /\ Sim(c) \in Nat /\ SymbolMatch(c) \in Nat /\ ClockFit(c) \in Nat /\ CategoryPrior(c) \in Nat
         /\ Points(c) = 9 * Sim(c) + 6 * SymbolMatch(c) + 3 * ClockFit(c) + 2 * CategoryPrior(c)
         /\ Points(c) \in Nat
         /\ OnlyEchoes(c) <=> Lexical(c)
         /\ Total(c) = IF Lexical(c) THEN Points(c) ELSE 2 * Points(c)
         /\ Total(c) \in Nat
<1>1. Sim(c) \in Nat
  BY SignalTypes DEF Unit
<1>2. SymbolMatch(c) \in Nat /\ (SymbolMatch(c) > 0 <=> Tags[c] \cap Inferred # {})
  BY SharedCounts
<1>3. ClockFit(c) \in Nat
  <2>1. Body[c] \in (0 .. 12) \cup {Unknown}
    BY TablesAssumption
  <2>2. BodyTarget = Unknown \/ BodyTarget \in {4, 6, 9, 10}
    BY DEF BodyTarget, DefaultBody
  <2>3. CASE BodyTarget = Unknown
    BY <2>3 DEF ClockFit, Unit
  <2>4. CASE BodyTarget # Unknown /\ Body[c] = Unknown
    BY <2>4 DEF ClockFit
  <2>5. CASE BodyTarget # Unknown /\ Body[c] # Unknown
    <3> DEFINE b == BodyTarget
               d == Body[c]
    <3>1. b \in Nat /\ d \in Nat
      BY <2>1, <2>2, <2>5
    <3>2. ClockFit(c) = LET steps == IF d > b THEN d - b ELSE b - d
                        IN  IF steps > 6 THEN 0 ELSE Unit - 10 * steps
      BY <2>5 DEF ClockFit
    <3> HIDE DEF b, d
    <3> QED BY <3>1, <3>2 DEF Unit
  <2> QED BY <2>3, <2>4, <2>5
<1>4. CategoryPrior(c) \in Nat
  BY DEF CategoryPrior, Unit
<1>5. OnlyEchoes(c) <=> Lexical(c)
  BY <1>2 DEF OnlyEchoes, Lexical
<1>6. Points(c) = 9 * Sim(c) + 6 * SymbolMatch(c) + 3 * ClockFit(c) + 2 * CategoryPrior(c)
  BY DEF Points
<1>7. Points(c) \in Nat
  BY <1>1, <1>2, <1>3, <1>4, <1>6
<1>8. Total(c) = IF Lexical(c) THEN Points(c) ELSE 2 * Points(c)
  BY <1>5 DEF Total
<1> QED BY <1>1, <1>2, <1>3, <1>4, <1>5, <1>6, <1>7, <1>8

\* Of two candidates, the one NoLexicalLuck calls better has the greater total.
LEMMA BetterScoresMore ==
  ASSUME req \in Requests, NEW c \in Products, NEW d \in Products,
         AsGood(c, d), Lexical(c) => Lexical(d),
         ~AsGood(d, c) \/ (Lexical(d) /\ ~Lexical(c) /\ Points(c) > 0)
  PROVE  Total(c) > Total(d)
<1>1. /\ Sim(c) \in Nat /\ SymbolMatch(c) \in Nat /\ ClockFit(c) \in Nat /\ CategoryPrior(c) \in Nat
      /\ Points(c) = 9 * Sim(c) + 6 * SymbolMatch(c) + 3 * ClockFit(c) + 2 * CategoryPrior(c)
      /\ Points(c) \in Nat
      /\ Total(c) = IF Lexical(c) THEN Points(c) ELSE 2 * Points(c)
  BY SignalsAdd
<1>2. /\ Sim(d) \in Nat /\ SymbolMatch(d) \in Nat /\ ClockFit(d) \in Nat /\ CategoryPrior(d) \in Nat
      /\ Points(d) = 9 * Sim(d) + 6 * SymbolMatch(d) + 3 * ClockFit(d) + 2 * CategoryPrior(d)
      /\ Points(d) \in Nat
      /\ Total(d) = IF Lexical(d) THEN Points(d) ELSE 2 * Points(d)
  BY SignalsAdd
<1>3. Points(c) >= Points(d)
  BY <1>1, <1>2 DEF AsGood
<1>4. ~AsGood(d, c) => Points(c) > Points(d)
  BY <1>1, <1>2 DEF AsGood
<1> QED BY <1>1, <1>2, <1>3, <1>4

\* What the tool finds in a request does not change while it answers.
LEMMA SignalsStand ==
  ASSUME UNCHANGED req
  PROVE  /\ Inferred' = Inferred
         /\ \A f : Words(f)' = Words(f)
         /\ \A c : Sim(c)' = Sim(c)
         /\ \A c : Points(c)' = Points(c)
         /\ \A c : Lexical(c)' <=> Lexical(c)
         /\ \A c : Shared(c)' <=> Shared(c)
         /\ \A c, d : AsGood(c, d)' <=> AsGood(c, d)
<1>1. \A f : Words(f)' = Words(f)
  BY DEF Words
<1>2. Inferred' = Inferred
  BY <1>1 DEF Inferred
<1>3. \A c : Sim(c)' = Sim(c)
  BY <1>1 DEF Sim
<1>4. \A c : SymbolMatch(c)' = SymbolMatch(c) /\ CategoryPrior(c)' = CategoryPrior(c)
  BY <1>2 DEF SymbolMatch, CategoryPrior
<1>5. \A c : ClockFit(c)' = ClockFit(c)
  <2>1. BodyTarget' = BodyTarget
    BY <1>1, <1>2 DEF BodyTarget, DefaultBody
  <2> QED BY <2>1 DEF ClockFit
<1>6. \A c : Points(c)' = Points(c)
  BY <1>3, <1>4, <1>5 DEF Points
<1>7. \A c : Lexical(c)' <=> Lexical(c)
  BY <1>1, <1>2 DEF Lexical
<1>8. \A c, d : AsGood(c, d)' <=> AsGood(c, d)
  BY <1>3, <1>4, <1>5 DEF AsGood
<1>9. \A c : Shared(c)' <=> Shared(c)
  BY <1>2 DEF Shared
<1> QED BY <1>1, <1>2, <1>3, <1>6, <1>7, <1>8, <1>9

\* Confidence is low just when nothing allowed carries a symbol of the text.
LEMMA LowMeansNothing ==
  ASSUME RetIInv, stage = "score"
  PROVE  /\ Confidence \in {"low", "medium", "high"}
         /\ Confidence = "low" <=> \A p \in fits : ~Shared(p)
<1> DEFINE matching == {c \in cands : SymbolMatch(c) > 0}
           strong   == {c \in matching : Sim(c) >= Strong}
<1> USE DEF RetIInv
<1>1. req \in Requests /\ cands \subseteq Products /\ cands \subseteq fits
  BY InACall DEF RetTypeOK, CandsAreFit
<1>2. matching = {c \in cands : Shared(c)}
  BY <1>1, SharedCounts DEF Shared
<1>3. Confidence = CASE HasSignal /\ Cardinality(strong) >= HighAt -> "high"
        [] HasSignal /\ Cardinality(strong) < HighAt /\ matching # {} -> "medium"
        [] OTHER -> "low"
  BY DEF Confidence
<1>4. Cardinality(strong) \in Nat /\ HighAt \in Nat \ {0}
  <2>1. strong \in SUBSET Products
    BY <1>1
  <2> QED BY <2>1, SizesAssumption, NumbersAssumption, FS_Subset, FS_CardinalityType
<1>5. matching = {} => Cardinality(strong) = 0
  BY FS_EmptySet
<1>6. CASE \E p \in fits : Shared(p)
  <2>1. matching # {}
    BY <1>2, <1>6 DEF CandsAreFit
  <2>2. HasSignal
    BY <1>6 DEF HasSignal, Shared
  <2> HIDE DEF matching, strong
  <2> QED BY <1>3, <1>4, <1>6, <2>1, <2>2
<1>7. CASE ~ \E p \in fits : Shared(p)
  <2>1. matching = {}
    BY <1>1, <1>2, <1>7
  <2>2. Cardinality(strong) = 0
    BY <1>5, <2>1
  <2> HIDE DEF matching, strong
  <2> QED BY <1>3, <1>4, <1>7, <2>1, <2>2
<1> QED BY <1>6, <1>7

\* Candidates are ranked: the order is by totals, so nothing better is behind.
LEMMA PairScoreStep == RetIInv /\ PairScore => RetIInv'
<1> SUFFICES ASSUME RetIInv, PairScore PROVE RetIInv'
  OBVIOUS
<1> USE DEF PairScore, RetIInv, Goto
<1> DEFINE kept  == IF Relevant = {} THEN cands ELSE Relevant
           total == [c \in cands |-> Total(c)]
<1>1. req \in Requests /\ req # NoRequest /\ req.limit \in Nat \ {0}
  BY InACall
<1>2. cands \subseteq Products /\ cands \subseteq fits /\ kept \subseteq cands
  BY DEF RetTypeOK, CandsAreFit, Relevant
<1>3. order' \in Ranked(kept, total)
  OBVIOUS
<1> HIDE DEF kept
<1>4. /\ order' \in Seq(Products)
      /\ \A i, j \in 1 .. Len(order') : order'[i] = order'[j] => i = j
      /\ ToSet(order') = kept
      /\ \A i, j \in 1 .. Len(order') :
           i < j => \/ total[order'[i]] > total[order'[j]]
                    \/ total[order'[i]] = total[order'[j]] /\ Sim(order'[i]) >= Sim(order'[j])
  <2>1. kept \in SUBSET Products
    BY <1>2
  <2> HIDE DEF total
  <2>2. IsRanking(order', kept, total)
    BY <1>3, <2>1, RankedFacts, Zenon
  <2> QED BY <2>2 DEF IsRanking
<1>5. \A i \in 1 .. Len(order') : order'[i] \in cands
  BY <1>2, <1>4 DEF ToSet
<1>6. order = <<>> /\ picked = <<>> /\ Len(picked) = 0 /\ at = 1 /\ req.kind = "pair"
      /\ picked' = picked /\ at' = 1 /\ stage' = "spread" /\ req' = req /\ fits' = fits /\ cands' = cands
      /\ belied' = belied /\ changed' = changed
  BY DEF Waiting, recorded
<1>7. RetTypeOK'
  BY <1>1, <1>4, <1>6, LowMeansNothing DEF RetTypeOK
<1>8. Waiting'
  BY <1>1, <1>6 DEF Waiting
<1>9. CandsAreFit'
  BY <1>6, SignalsStand DEF CandsAreFit
<1>10. OrderIsFit'
  BY <1>2, <1>4, <1>5, <1>6 DEF OrderIsFit
<1>11. SpreadSoFar'
  <2> DEFINE none == [n \in 1 .. Len(picked') |-> n]
  <2>1. Len(picked') = 0 /\ 1 .. Len(picked') = {} /\ 1 .. at' - 1 = {}
    BY <1>6
  <2>2. none \in [1 .. Len(picked') -> 1 .. at' - 1]
    BY <2>1
  <2>3. /\ \A n \in 1 .. Len(picked') : FALSE
        /\ \A i \in 1 .. at' - 1 : FALSE
        /\ Len(picked') < req'.limit
    BY <1>1, <1>6, <2>1
  <2> HIDE DEF none
  <2> QED BY <2>2, <2>3 DEF SpreadSoFar
<1>12. RowsAreNearest' /\ FillSoFar' /\ PicksAreSpread' /\ AnswerFits'
  BY <1>6 DEF RowsAreNearest, FillSoFar, PicksAreSpread, AnswerFits
<1>13. ConfidenceIsHonest'
  <2>1. confidence' = Confidence
    OBVIOUS
  <2> QED BY <1>6, <2>1, LowMeansNothing, SignalsStand DEF ConfidenceIsHonest, Shared
<1>14. NoLexicalLuck'
  <2> SUFFICES ASSUME NEW i \in 1 .. Len(order'), NEW j \in 1 .. Len(order'), i < j,
                      AsGood(order'[j], order'[i]),
                      Lexical(order'[j]) => Lexical(order'[i]),
                      \/ ~AsGood(order'[i], order'[j])
                      \/ Lexical(order'[i]) /\ ~Lexical(order'[j]) /\ Points(order'[j]) > 0
               PROVE  FALSE
    BY <1>6, SignalsStand DEF NoLexicalLuck
  <2> DEFINE c == order'[j]
             d == order'[i]
  <2>1. c \in cands /\ d \in cands /\ c \in Products /\ d \in Products
    BY <1>2, <1>5
  <2>2. total[c] = Total(c) /\ total[d] = Total(d)
    BY <2>1
  <2>3. total[d] >= total[c]
    <3> HIDE DEF total
    <3>1. total[d] > total[c] \/ total[d] = total[c]
      BY <1>4
    <3>2. total[c] \in Nat /\ total[d] \in Nat
      BY <1>1, <2>1, <2>2, SignalsAdd
    <3> QED BY <3>1, <3>2
  <2> HIDE DEF total, c, d
  <2>4. Total(c) > Total(d)
    BY <1>1, <2>1, BetterScoresMore DEF c, d
  <2>5. Total(c) \in Nat /\ Total(d) \in Nat
    BY <1>1, <2>1, SignalsAdd
  <2> QED BY <2>2, <2>3, <2>4, <2>5
<1> QED BY <1>7, <1>8, <1>9, <1>10, <1>11, <1>12, <1>13, <1>14

-------------------------------------------------------------------------------
(* Retrieval: picks are spread over the categories *)

\* Places are first, and before each other, as long as the pool stays.
LEMMA PlacesStand ==
  ASSUME UNCHANGED order
  PROVE  /\ \A i : First(i)' <=> First(i)
         /\ \A i, j : Before(i, j)' <=> Before(i, j)
<1>1. \A i : First(i)' <=> First(i)
  BY DEF First
<1> QED BY <1>1 DEF Before

\* Where nothing but picks and place changes, the rest of the invariant stands.
LEMMA PickingStands ==
  ASSUME RetIInv, stage \in {"spread", "fill"}, stage' \in {"spread", "fill", "done"},
         UNCHANGED <<gone, stocked, req, cands, order, confidence, belied, recorded>>,
         at' \in 1 .. Len(order) + 1, picked' \in Seq(Products), Len(picked') <= req.limit,
         stage' = "spread" => stage = "spread"
  PROVE  /\ RetTypeOK' /\ Waiting' /\ CandsAreFit' /\ OrderIsFit' /\ RowsAreNearest'
         /\ ConfidenceIsHonest' /\ NoLexicalLuck'
<1> USE DEF RetIInv, recorded
<1>1. RetTypeOK'
  BY DEF RetTypeOK
<1>2. Waiting' /\ OrderIsFit' /\ RowsAreNearest'
  BY InACall DEF Waiting, OrderIsFit, RowsAreNearest
<1>3. CandsAreFit' /\ ConfidenceIsHonest'
  BY SignalsStand DEF CandsAreFit, ConfidenceIsHonest, Shared
<1>4. NoLexicalLuck'
  <2> SUFFICES ASSUME stage' = "spread" PROVE NoLexicalLuck'
    BY DEF NoLexicalLuck
  <2>1. stage = "spread" /\ order' = order
    OBVIOUS
  <2> QED BY <2>1, SignalsStand DEF NoLexicalLuck
<1> QED BY <1>1, <1>2, <1>3, <1>4

\* An answer to a pairing fits if its picks have places of their own.
LEMMA PlacedPicksFit ==
  ASSUME RetIInv, req.kind = "pair", stage \in {"spread", "fill"}, UNCHANGED <<req, order, fits>>,
         picked' \in Seq(Products),
         NEW place \in [1 .. Len(picked') -> 1 .. Len(order)],
         \A n \in 1 .. Len(picked') : picked'[n] = order[place[n]],
         \A m, n \in 1 .. Len(picked') : m < n => Before(place[m], place[n])
  PROVE  AnswerFits'
<1>1. /\ order \in Seq(Products)
      /\ \A i, j \in 1 .. Len(order) : order[i] = order[j] => i = j
      /\ \A i \in 1 .. Len(order) : order[i] \in fits
  BY DEF RetIInv, RetTypeOK, OrderIsFit
<1>2. \A m, n \in 1 .. Len(picked') : m < n => place[m] # place[n]
  BY DEF Before
<1>3. ToSet(picked') \subseteq fits /\ Cardinality(ToSet(picked')) = Len(picked')
  <2>1. PoolFits(order, fits)
    BY <1>1 DEF PoolFits
  <2>2. Placed(place, picked', order, Len(order)) /\ Distinct(place, picked')
    BY <1>2 DEF Placed, Distinct
  <2> QED BY <2>1, <2>2, PicksFit
<1> QED BY <1>3 DEF AnswerFits

\* The first loop passes a place: its category is taken already, or is taken now.
LEMMA SpreadStep == RetIInv /\ Spread => RetIInv'
<1> SUFFICES ASSUME RetIInv, Spread PROVE RetIInv'
  OBVIOUS
<1>1. /\ req \in Requests /\ req.limit \in Nat \ {0} /\ req.kind = "pair"
      /\ stage = "spread" /\ at \in 1 .. Len(order) /\ at \in Nat \ {0}
      /\ order \in Seq(Products) /\ picked \in Seq(Products) /\ Len(picked) < req.limit
  BY InACall DEF RetIInv, RetTypeOK, Waiting, SpreadSoFar, Spread
<1>2. PICK place \in [1 .. Len(picked) -> 1 .. at - 1] :
         /\ \A n \in 1 .. Len(picked) : picked[n] = order[place[n]] /\ First(place[n])
         /\ \A m, n \in 1 .. Len(picked) : m < n => place[m] < place[n]
         /\ \A i \in 1 .. at - 1 : First(i) => \E n \in 1 .. Len(picked) : place[n] = i
         /\ \A i \in 1 .. at - 1 : \E n \in 1 .. Len(picked) : Bucket[picked[n]] = Bucket[order[i]]
  BY DEF RetIInv, SpreadSoFar, Spread
<1>3. UNCHANGED <<gone, stocked, req, cands, order, confidence, belied, recorded, fits>> /\ at' = at + 1
  BY DEF Spread, Put, recorded
<1>4. (\A i : First(i)' <=> First(i)) /\ (\A i, j : Before(i, j)' <=> Before(i, j))
  BY <1>3, PlacesStand
<1>5. CASE Bucket[order[at]] \in Seen
  <2>1. stage' = "spread" /\ picked' = picked /\ at' = at + 1
    BY <1>1, <1>5 DEF Spread
  <2>2. PICK k \in 1 .. Len(picked) : Bucket[picked[k]] = Bucket[order[at]]
    BY <1>5 DEF Seen
  <2>3. ~First(at)
    <3>1. place[k] \in 1 .. at - 1 /\ Bucket[order[place[k]]] = Bucket[order[at]]
      BY <1>2, <2>2
    <3> QED BY <3>1 DEF First
  <2>4. at' - 1 = at /\ \A i \in 1 .. at : i = at \/ i \in 1 .. at - 1
    BY <1>1, <2>1
  <2>5. place \in [1 .. Len(picked) -> 1 .. at]
    BY <1>1, <1>2
  <2>6. /\ \A i \in 1 .. at : First(i) => \E n \in 1 .. Len(picked) : place[n] = i
        /\ \A i \in 1 .. at : \E n \in 1 .. Len(picked) : Bucket[picked[n]] = Bucket[order[i]]
    BY <1>2, <2>2, <2>3, <2>4
  <2>7. SpreadSoFar'
    BY <1>1, <1>2, <1>3, <1>4, <2>1, <2>4, <2>5, <2>6 DEF SpreadSoFar
  <2>8. FillSoFar' /\ PicksAreSpread' /\ AnswerFits'
    BY <2>1 DEF FillSoFar, PicksAreSpread, AnswerFits
  <2>9. at' \in 1 .. Len(order) + 1 /\ picked' \in Seq(Products) /\ Len(picked') <= req.limit
    BY <1>1, <2>1
  <2> QED BY <1>1, <1>3, <2>1, <2>7, <2>8, <2>9, PickingStands DEF RetIInv
<1>6. CASE Bucket[order[at]] \notin Seen
  <2>1. picked' = Append(picked, order[at]) /\ stage' = IF Len(picked') >= req.limit THEN "done" ELSE "spread"
    BY <1>1, <1>6 DEF Spread, Put, Goto
  <2>2. First(at)
    <3> SUFFICES ASSUME NEW j \in 1 .. at - 1, Bucket[order[j]] = Bucket[order[at]] PROVE FALSE
      BY DEF First
    <3>1. PICK n \in 1 .. Len(picked) : Bucket[picked[n]] = Bucket[order[j]]
      BY <1>2
    <3> QED BY <1>6, <3>1 DEF Seen
  <2>a. at - 1 \in Nat /\ at \in Nat /\ at - 1 <= at /\ at \in 1 .. at
    BY <1>1
  <2>b. Placed(place, picked, order, at - 1)
    BY <1>2 DEF Placed
  <2>c. Grown(place, picked, picked', order, at, at)
    BY <1>1, <2>1, <2>a, <2>b, PlacesGrow, Zenon
  <2>d. /\ picked' \in Seq(Products) /\ Len(picked') = Len(picked) + 1 /\ Len(picked') \in 1 .. Len(picked')
        /\ \A k \in 1 .. Len(picked) : picked'[k] = picked[k]
        /\ \A k \in 1 .. Len(picked') : k = Len(picked') \/ k \in 1 .. Len(picked)
        /\ \E q :
             /\ Placed(q, picked', order, at)
             /\ q[Len(picked')] = at
             /\ \A k \in 1 .. Len(picked) : q[k] = place[k]
    BY <2>c, Zenon DEF Grown
  <2>3. PICK q \in [1 .. Len(picked') -> 1 .. at] :
        /\ picked' \in Seq(Products) /\ Len(picked') = Len(picked) + 1 /\ Len(picked') \in 1 .. Len(picked')
        /\ \A k \in 1 .. Len(picked') : picked'[k] = order[q[k]]
        /\ q[Len(picked')] = at
        /\ \A k \in 1 .. Len(picked) : q[k] = place[k] /\ picked'[k] = picked[k]
        /\ \A k \in 1 .. Len(picked') : k = Len(picked') \/ k \in 1 .. Len(picked)
    BY <2>d, Zenon DEF Placed
  <2>4. \A k \in 1 .. Len(picked) : k \in 1 .. Len(picked')
    BY <1>1, <2>3
  <2>5. /\ \A n \in 1 .. Len(picked') : First(q[n])
        /\ \A m, n \in 1 .. Len(picked') : m < n => q[m] < q[n]
    <3>1. \A n \in 1 .. Len(picked') : First(q[n])
      BY <1>2, <2>2, <2>3
    <3>2. ASSUME NEW m \in 1 .. Len(picked'), NEW n \in 1 .. Len(picked'), m < n PROVE q[m] < q[n]
      <4>1. m \in 1 .. Len(picked)
        <5>1. m # Len(picked')
          BY <1>1, <2>3, <3>2
        <5> QED BY <2>3, <5>1
      <4>2. CASE n = Len(picked')
        <5>1. q[m] = place[m] /\ place[m] \in 1 .. at - 1 /\ q[n] = at
          BY <1>2, <2>3, <4>1, <4>2
        <5> QED BY <1>1, <5>1
      <4>3. CASE n \in 1 .. Len(picked)
        <5>1. q[m] = place[m] /\ q[n] = place[n] /\ place[m] < place[n]
          BY <1>2, <2>3, <3>2, <4>1, <4>3
        <5> QED BY <5>1
      <4> QED BY <2>3, <4>2, <4>3
    <3> QED BY <3>1, <3>2
  <2>6. \A i \in 1 .. at : i = at \/ i \in 1 .. at - 1
    BY <1>1
  <2>7. \A i \in 1 .. at : First(i) => \E n \in 1 .. Len(picked') : q[n] = i
    BY <1>2, <2>3, <2>4, <2>6
  <2>8. \A i \in 1 .. at : \E n \in 1 .. Len(picked') : Bucket[picked'[n]] = Bucket[order[i]]
    <3> SUFFICES ASSUME NEW i \in 1 .. at
                 PROVE  \E n \in 1 .. Len(picked') : Bucket[picked'[n]] = Bucket[order[i]]
      OBVIOUS
    <3>1. CASE i = at
      BY <2>3, <3>1
    <3>2. CASE i \in 1 .. at - 1
      <4>1. PICK n \in 1 .. Len(picked) : Bucket[picked[n]] = Bucket[order[i]]
        BY <1>2, <3>2
      <4>2. n \in 1 .. Len(picked') /\ picked'[n] = picked[n]
        BY <2>3, <2>4
      <4> QED BY <4>1, <4>2
    <3> QED BY <2>6, <3>1, <3>2
  <2>9. at' - 1 = at /\ at' \in 1 .. Len(order) + 1 /\ Len(picked') <= req.limit
    BY <1>1, <1>3, <2>3
  <2>10. SpreadSoFar'
    <3>1. stage' = "spread" => Len(picked') < req'.limit
      BY <1>1, <1>3, <2>1, <2>3
    <3>2. q \in [1 .. Len(picked') -> 1 .. at' - 1]
      BY <2>9
    <3>3. \A n \in 1 .. Len(picked') : picked'[n] = order'[q[n]] /\ First(q[n])'
      BY <1>3, <1>4, <2>3, <2>5
    <3>4. \A i \in 1 .. at' - 1 : First(i)' => \E n \in 1 .. Len(picked') : q[n] = i
      BY <1>4, <2>7, <2>9
    <3>5. \A i \in 1 .. at' - 1 : \E n \in 1 .. Len(picked') : Bucket[picked'[n]] = Bucket[order'[i]]
      BY <1>3, <2>8, <2>9
    <3> QED BY <2>5, <3>1, <3>2, <3>3, <3>4, <3>5 DEF SpreadSoFar
  <2>11. stage' # "fill" /\ FillSoFar'
    BY <1>1, <2>1 DEF FillSoFar
  <2>12. q \in [1 .. Len(picked') -> 1 .. Len(order)]
    BY <1>1, <2>3
  <2>13. \A m, n \in 1 .. Len(picked') : m < n => Before(q[m], q[n])
    BY <2>5 DEF Before
  <2>14. AnswerFits'
    BY <1>1, <1>3, <2>3, <2>12, <2>13, PlacedPicksFit
  <2>15. PicksAreSpread'
    <3> SUFFICES ASSUME stage' = "done" PROVE PicksAreSpread'
      BY DEF PicksAreSpread
    <3>1. Len(picked') = req.limit
      BY <1>1, <2>1, <2>3
    <3>2. ASSUME NEW i \in 1 .. Len(order), ~ \E n \in 1 .. Len(picked') : q[n] = i
          PROVE  \A n \in 1 .. Len(picked') : Before(q[n], i)
      <4>1. First(i) => i > at
        BY <1>1, <2>7, <3>2
      <4>2. \A n \in 1 .. Len(picked') : q[n] \in 1 .. at /\ First(q[n])
        BY <2>3, <2>5
      <4> QED BY <1>1, <4>1, <4>2 DEF Before
    <3>3. q \in [1 .. Len(picked') -> 1 .. Len(order')] /\ Len(picked') = req'.limit
      BY <1>3, <2>12, <3>1
    <3>4. /\ \A n \in 1 .. Len(picked') : picked'[n] = order'[q[n]]
          /\ \A m, n \in 1 .. Len(picked') : m < n => Before(q[m], q[n])'
      BY <1>3, <1>4, <2>3, <2>13
    <3>5. \A i \in 1 .. Len(order') :
            \/ \E n \in 1 .. Len(picked') : q[n] = i
            \/ \A n \in 1 .. Len(picked') : Before(q[n], i)'
      BY <1>3, <1>4, <3>2
    <3> QED BY <3>3, <3>4, <3>5 DEF PicksAreSpread
  <2>16. stage' \in {"spread", "fill", "done"}
    BY <2>1
  <2> QED BY <1>1, <1>3, <2>3, <2>9, <2>10, <2>11, <2>14, <2>15, <2>16, PickingStands DEF RetIInv
<1> QED BY <1>5, <1>6

\* The second loop begins with what the first has taken.
LEMMA SpreadDoneStep == RetIInv /\ SpreadDone => RetIInv'
<1> SUFFICES ASSUME RetIInv, SpreadDone PROVE RetIInv'
  OBVIOUS
<1>1. /\ req.kind = "pair" /\ stage = "spread" /\ at = Len(order) + 1
      /\ order \in Seq(Products) /\ picked \in Seq(Products) /\ Len(picked) < req.limit
  BY DEF RetIInv, RetTypeOK, Waiting, SpreadSoFar, SpreadDone
<1>2. PICK place \in [1 .. Len(picked) -> 1 .. at - 1] :
         /\ \A n \in 1 .. Len(picked) : picked[n] = order[place[n]] /\ First(place[n])
         /\ \A m, n \in 1 .. Len(picked) : m < n => place[m] < place[n]
         /\ \A i \in 1 .. at - 1 : First(i) => \E n \in 1 .. Len(picked) : place[n] = i
  BY <1>1 DEF RetIInv, SpreadSoFar
<1>3. /\ UNCHANGED <<gone, stocked, req, cands, order, confidence, belied, recorded, fits, picked>>
      /\ at' = 1 /\ stage' = "fill"
  BY DEF SpreadDone, Goto, recorded
<1>4. (\A i : First(i)' <=> First(i)) /\ (\A i, j : Before(i, j)' <=> Before(i, j))
  BY <1>3, PlacesStand
<1>5. Len(order) \in Nat /\ at - 1 = Len(order) /\ at' \in 1 .. Len(order) + 1
  BY <1>1, <1>3
<1>6. place \in [1 .. Len(picked) -> 1 .. Len(order)]
  BY <1>2, <1>5
<1>7. \A m, n \in 1 .. Len(picked) : m < n => Before(place[m], place[n])
  BY <1>2 DEF Before
<1>8. \A i \in 1 .. Len(order) : First(i) \/ i < 1 => \E n \in 1 .. Len(picked) : place[n] = i
  <2>1. \A i \in 1 .. Len(order) : ~(i < 1) /\ i \in 1 .. at - 1
    BY <1>5
  <2> QED BY <1>2, <2>1
<1>9. FillSoFar'
  BY <1>1, <1>2, <1>3, <1>4, <1>6, <1>7, <1>8 DEF FillSoFar
<1>10. SpreadSoFar' /\ PicksAreSpread' /\ AnswerFits'
  BY <1>3 DEF SpreadSoFar, PicksAreSpread, AnswerFits
<1>11. picked' \in Seq(Products) /\ Len(picked') <= req.limit
  BY <1>1, <1>3 DEF RetIInv, RetTypeOK, Waiting
<1> QED BY <1>1, <1>3, <1>5, <1>9, <1>10, <1>11, PickingStands DEF RetIInv

\* The second loop passes a place: it is taken already, or is taken now.
LEMMA FillStep == RetIInv /\ Fill => RetIInv'
<1> SUFFICES ASSUME RetIInv, Fill PROVE RetIInv'
  OBVIOUS
<1>1. /\ req \in Requests /\ req.limit \in Nat \ {0} /\ req.kind = "pair"
      /\ stage = "fill" /\ at \in 1 .. Len(order) /\ at \in Nat \ {0} /\ Len(order) \in Nat
      /\ order \in Seq(Products) /\ picked \in Seq(Products) /\ Len(picked) < req.limit
  BY InACall DEF RetIInv, RetTypeOK, Waiting, FillSoFar, Fill
<1>2. PICK place \in [1 .. Len(picked) -> 1 .. Len(order)] :
         /\ \A n \in 1 .. Len(picked) : picked[n] = order[place[n]]
         /\ \A m, n \in 1 .. Len(picked) : m < n => Before(place[m], place[n])
         /\ \A n \in 1 .. Len(picked) : First(place[n]) \/ place[n] < at
         /\ \A i \in 1 .. Len(order) : First(i) \/ i < at => \E n \in 1 .. Len(picked) : place[n] = i
  BY <1>1 DEF RetIInv, FillSoFar
<1>3. UNCHANGED <<gone, stocked, req, cands, order, confidence, belied, recorded, fits>> /\ at' = at + 1
  BY DEF Fill, Put, recorded
<1>4. (\A i : First(i)' <=> First(i)) /\ (\A i, j : Before(i, j)' <=> Before(i, j))
  BY <1>3, PlacesStand
<1>5. at' \in 1 .. Len(order) + 1 /\ \A i \in 1 .. Len(order) : i < at + 1 => i = at \/ i < at
  BY <1>1, <1>3
<1>6. CASE ~LeftOut(order[at])
  <2>1. stage' = "fill" /\ picked' = picked
    BY <1>1, <1>6 DEF Fill
  <2>2. PICK k \in 1 .. Len(picked) : place[k] = at
    <3>0. order[at] \in ToSet(picked)
      BY <1>6 DEF LeftOut
    <3>1. PICK k \in 1 .. Len(picked) : picked[k] = order[at]
      BY <3>0 DEF ToSet
    <3>2. place[k] \in 1 .. Len(order) /\ order[place[k]] = order[at]
      BY <1>2, <3>1
    <3>3. place[k] = at
      BY <1>1, <3>2 DEF RetIInv, OrderIsFit
    <3> QED BY <3>3
  <2>3. \A i \in 1 .. Len(order) : First(i) \/ i < at + 1 => \E n \in 1 .. Len(picked) : place[n] = i
    BY <1>2, <1>5, <2>2
  <2>4. \A n \in 1 .. Len(picked) : First(place[n]) \/ place[n] < at + 1
    <3> TAKE n \in 1 .. Len(picked)
    <3>1. place[n] \in 1 .. Len(order) /\ (First(place[n]) \/ place[n] < at)
      BY <1>2
    <3> QED BY <1>1, <3>1
  <2>5. FillSoFar'
    <3>1. /\ Len(picked') < req'.limit
          /\ place \in [1 .. Len(picked') -> 1 .. Len(order')]
          /\ \A n \in 1 .. Len(picked') : picked'[n] = order'[place[n]]
      BY <1>1, <1>2, <1>3, <2>1
    <3>2. \A m, n \in 1 .. Len(picked') : m < n => Before(place[m], place[n])'
      BY <1>2, <1>4, <2>1
    <3>3. \A n \in 1 .. Len(picked') : First(place[n])' \/ place[n] < at'
      BY <1>3, <1>4, <2>1, <2>4
    <3>4. \A i \in 1 .. Len(order') : First(i)' \/ i < at' => \E n \in 1 .. Len(picked') : place[n] = i
      BY <1>3, <1>4, <2>1, <2>3
    <3> QED BY <3>1, <3>2, <3>3, <3>4 DEF FillSoFar
  <2>6. SpreadSoFar' /\ PicksAreSpread' /\ AnswerFits'
    BY <2>1 DEF SpreadSoFar, PicksAreSpread, AnswerFits
  <2>7. picked' \in Seq(Products) /\ Len(picked') <= req.limit
    BY <1>1, <2>1
  <2> QED BY <1>1, <1>3, <1>5, <2>1, <2>5, <2>6, <2>7, PickingStands DEF RetIInv
<1>7. CASE LeftOut(order[at])
  <2>1. picked' = Append(picked, order[at]) /\ stage' = IF Len(picked') >= req.limit THEN "done" ELSE "fill"
    BY <1>1, <1>7 DEF Fill, Put, Goto
  <2>2. ~First(at)
    <3> SUFFICES ASSUME First(at) PROVE FALSE
      OBVIOUS
    <3>1. PICK n \in 1 .. Len(picked) : place[n] = at
      BY <1>1, <1>2
    <3> QED BY <1>1, <1>2, <1>7, <3>1 DEF LeftOut, ToSet
  <2>a. Placed(place, picked, order, Len(order))
    BY <1>2 DEF Placed
  <2>c. Grown(place, picked, picked', order, at, Len(order))
    BY <1>1, <2>1, <2>a, PlacesGrowInPool, Zenon
  <2>d. /\ picked' \in Seq(Products) /\ Len(picked') = Len(picked) + 1 /\ Len(picked') \in 1 .. Len(picked')
        /\ \A k \in 1 .. Len(picked) : picked'[k] = picked[k]
        /\ \A k \in 1 .. Len(picked') : k = Len(picked') \/ k \in 1 .. Len(picked)
        /\ \E q :
             /\ Placed(q, picked', order, Len(order))
             /\ q[Len(picked')] = at
             /\ \A k \in 1 .. Len(picked) : q[k] = place[k]
    BY <2>c, Zenon DEF Grown
  <2>3. PICK q \in [1 .. Len(picked') -> 1 .. Len(order)] :
        /\ \A k \in 1 .. Len(picked') : picked'[k] = order[q[k]]
        /\ q[Len(picked')] = at
        /\ \A k \in 1 .. Len(picked) : q[k] = place[k] /\ picked'[k] = picked[k]
    BY <2>d, Zenon DEF Placed
  <2>4. \A k \in 1 .. Len(picked) : k \in 1 .. Len(picked')
    BY <1>1, <2>d
  <2>5. ASSUME NEW m \in 1 .. Len(picked'), NEW n \in 1 .. Len(picked'), m < n
        PROVE  Before(q[m], q[n])
    <3>1. m \in 1 .. Len(picked)
      <4>1. m # Len(picked')
        BY <1>1, <2>d, <2>5
      <4> QED BY <2>d, <4>1
    <3>2. CASE n = Len(picked')
      <4>1. q[m] = place[m] /\ q[n] = at /\ (First(place[m]) \/ place[m] < at)
        BY <1>2, <2>3, <3>1, <3>2
      <4> QED BY <2>2, <4>1 DEF Before
    <3>3. CASE n \in 1 .. Len(picked)
      <4>1. q[m] = place[m] /\ q[n] = place[n] /\ Before(place[m], place[n])
        BY <1>2, <2>3, <2>5, <3>1, <3>3
      <4> QED BY <4>1
    <3> QED BY <2>d, <3>2, <3>3
  <2>6. \A i \in 1 .. Len(order) : First(i) \/ i < at + 1 => \E n \in 1 .. Len(picked') : q[n] = i
    <3> SUFFICES ASSUME NEW i \in 1 .. Len(order), First(i) \/ i < at + 1
                 PROVE  \E n \in 1 .. Len(picked') : q[n] = i
      OBVIOUS
    <3>1. CASE i = at
      BY <2>d, <2>3, <3>1
    <3>2. CASE First(i) \/ i < at
      <4>1. PICK n \in 1 .. Len(picked) : place[n] = i
        BY <1>2, <3>2
      <4>2. n \in 1 .. Len(picked') /\ q[n] = i
        BY <2>3, <2>4, <4>1
      <4> QED BY <4>2
    <3> QED BY <1>5, <3>1, <3>2
  <2>7. \A n \in 1 .. Len(picked') : q[n] \in 1 .. Len(order) /\ (First(q[n]) \/ q[n] < at + 1)
    <3> TAKE n \in 1 .. Len(picked')
    <3>1. q[n] \in 1 .. Len(order)
      BY <2>3
    <3>2. CASE n = Len(picked')
      BY <1>1, <2>3, <3>1, <3>2
    <3>3. CASE n \in 1 .. Len(picked)
      <4>1. q[n] = place[n] /\ (First(place[n]) \/ place[n] < at)
        BY <1>2, <2>3, <3>3
      <4> QED BY <1>1, <3>1, <4>1
    <3> QED BY <2>d, <3>2, <3>3
  <2>8. FillSoFar'
    <3>1. stage' = "fill" => Len(picked') < req'.limit
      BY <1>1, <1>3, <2>1, <2>d
    <3>2. q \in [1 .. Len(picked') -> 1 .. Len(order')]
      BY <1>3
    <3>3. \A n \in 1 .. Len(picked') : picked'[n] = order'[q[n]]
      BY <1>3, <2>3
    <3>4. \A m, n \in 1 .. Len(picked') : m < n => Before(q[m], q[n])'
      BY <1>4, <2>5
    <3>5. \A n \in 1 .. Len(picked') : First(q[n])' \/ q[n] < at'
      BY <1>3, <1>4, <2>7
    <3>6. \A i \in 1 .. Len(order') : First(i)' \/ i < at' => \E n \in 1 .. Len(picked') : q[n] = i
      BY <1>3, <1>4, <2>6
    <3> QED BY <3>1, <3>2, <3>3, <3>4, <3>5, <3>6 DEF FillSoFar
  <2>9. AnswerFits'
    BY <1>1, <1>3, <2>d, <2>3, <2>5, PlacedPicksFit
  <2>10. PicksAreSpread'
    <3> SUFFICES ASSUME stage' = "done" PROVE PicksAreSpread'
      BY DEF PicksAreSpread
    <3>1. Len(picked') = req.limit
      BY <1>1, <2>1, <2>d
    <3>2. ASSUME NEW i \in 1 .. Len(order), ~ \E n \in 1 .. Len(picked') : q[n] = i
          PROVE  \A n \in 1 .. Len(picked') : Before(q[n], i)
      <4>1. ~First(i) /\ i >= at + 1
        BY <1>1, <2>6, <3>2
      <4> TAKE n \in 1 .. Len(picked')
      <4>2. q[n] \in 1 .. Len(order) /\ (First(q[n]) \/ q[n] < at + 1)
        BY <2>7
      <4> QED BY <1>1, <4>1, <4>2 DEF Before
    <3>3. /\ q \in [1 .. Len(picked') -> 1 .. Len(order')]
          /\ \A n \in 1 .. Len(picked') : picked'[n] = order'[q[n]]
      BY <1>3, <2>3
    <3>4. \A m, n \in 1 .. Len(picked') : m < n => Before(q[m], q[n])'
      BY <1>4, <2>5
    <3>5. \A i \in 1 .. Len(order') :
            \/ \E n \in 1 .. Len(picked') : q[n] = i
            \/ Len(picked') = req'.limit /\ \A n \in 1 .. Len(picked') : Before(q[n], i)'
      BY <1>3, <1>4, <3>1, <3>2
    <3> QED BY <3>3, <3>4, <3>5 DEF PicksAreSpread
  <2>11. stage' \in {"fill", "done"} /\ SpreadSoFar' /\ Len(picked') <= req.limit
    BY <1>1, <2>1, <2>d DEF SpreadSoFar
  <2> QED BY <1>1, <1>3, <1>5, <2>d, <2>8, <2>9, <2>10, <2>11, PickingStands DEF RetIInv
<1> QED BY <1>6, <1>7

\* At the end of the pool everything in it is taken.
LEMMA FillDoneStep == RetIInv /\ FillDone => RetIInv'
<1> SUFFICES ASSUME RetIInv, FillDone PROVE RetIInv'
  OBVIOUS
<1>1. /\ req.kind = "pair" /\ stage = "fill" /\ at = Len(order) + 1
      /\ order \in Seq(Products) /\ picked \in Seq(Products) /\ Len(picked) < req.limit
  BY DEF RetIInv, RetTypeOK, Waiting, FillSoFar, FillDone
<1>2. PICK place \in [1 .. Len(picked) -> 1 .. Len(order)] :
         /\ \A n \in 1 .. Len(picked) : picked[n] = order[place[n]]
         /\ \A m, n \in 1 .. Len(picked) : m < n => Before(place[m], place[n])
         /\ \A i \in 1 .. Len(order) : First(i) \/ i < at => \E n \in 1 .. Len(picked) : place[n] = i
  BY <1>1 DEF RetIInv, FillSoFar
<1>3. /\ UNCHANGED <<gone, stocked, req, cands, order, confidence, belied, recorded, fits, picked, at>>
      /\ stage' = "done"
  BY DEF FillDone, Goto, call, recorded
<1>4. (\A i : First(i)' <=> First(i)) /\ (\A i, j : Before(i, j)' <=> Before(i, j))
  BY <1>3, PlacesStand
<1>5. \A i \in 1 .. Len(order) : \E n \in 1 .. Len(picked) : place[n] = i
  BY <1>1, <1>2
<1>6. PicksAreSpread'
  BY <1>2, <1>3, <1>4, <1>5 DEF PicksAreSpread
<1>7. AnswerFits'
  BY <1>1, <1>2, <1>3, PlacedPicksFit
<1>8. SpreadSoFar' /\ FillSoFar'
  BY <1>3 DEF SpreadSoFar, FillSoFar
<1>9. at' \in 1 .. Len(order) + 1 /\ picked' \in Seq(Products) /\ Len(picked') <= req.limit
  BY <1>1, <1>3 DEF RetIInv, RetTypeOK, Waiting
<1> QED BY <1>1, <1>3, <1>6, <1>7, <1>8, <1>9, PickingStands DEF RetIInv

-------------------------------------------------------------------------------
(* Retrieval: search and neighbours *)

\* The first places of a sequence.
LEMMA CutFacts ==
  ASSUME req.limit \in Nat \ {0}, NEW s \in Seq(Products)
  PROVE  /\ Cut(s) \in Seq(Products)
         /\ Len(Cut(s)) <= req.limit /\ Len(Cut(s)) <= Len(s)
         /\ \A i \in 1 .. Len(Cut(s)) : i \in 1 .. Len(s) /\ Cut(s)[i] = s[i]
         /\ Len(s) <= req.limit => Len(Cut(s)) = Len(s)
<1> DEFINE n == IF Len(s) < req.limit THEN Len(s) ELSE req.limit
<1>1. n \in Nat /\ n <= Len(s) /\ n <= req.limit /\ (Len(s) <= req.limit => n = Len(s))
  OBVIOUS
<1>2. Cut(s) = [i \in 1 .. n |-> s[i]]
  BY DEF Cut
<1> HIDE DEF n
<1>3. \A i \in 1 .. n : i \in 1 .. Len(s) /\ s[i] \in Products
  BY <1>1
<1>4. Cut(s) \in Seq(Products) /\ Len(Cut(s)) = n
  BY <1>1, <1>2, <1>3
<1> QED BY <1>1, <1>2, <1>3, <1>4

\* A search ranks what the n nearest leave it; without smoke n is the limit, so what is
\* left out is below min_similarity or no nearer than what is in.
LEMMA SearchRankStep == RetIInv /\ SearchRank => RetIInv'
<1> SUFFICES ASSUME RetIInv, SearchRank PROVE RetIInv'
  OBVIOUS
<1> USE DEF RetIInv
<1> DEFINE n == IF Words("smoky") THEN PoolSize ELSE req.limit
           score == [c \in Fitting |-> IF Words("smoky") THEN Boosted(c) ELSE Sim(c)]
           Kept(near) == {c \in near : score[c] >= req.min}
<1>1. /\ req \in Requests /\ req # NoRequest /\ req.limit \in Nat \ {0} /\ stage = "rank"
      /\ req.min \in Nat
  <2>1. stage = "rank"
    BY DEF SearchRank
  <2>2. req \in Requests /\ req # NoRequest /\ req.limit \in Nat \ {0}
    BY <2>1, InACall
  <2>3. req.min \in 0 .. Unit
    BY <2>2, RequestFacts
  <2> QED BY <2>1, <2>2, <2>3 DEF Unit
<1>2. Fitting \in SUBSET Products
  BY <1>1, FittingFacts
<1>3. n \in Nat \ {0} /\ (~Words("smoky") => n = req.limit)
  BY <1>1, PoolSizes
<1>a. PICK near \in Nearest(Fitting, n) : \E s \in Ranked(Kept(near), score) : order' = Cut(s)
  BY DEF SearchRank
<1>4. PICK s \in Ranked(Kept(near), score) : order' = Cut(s)
  BY <1>a
<1> DEFINE kept == Kept(near)
<1> HIDE DEF n
<1>5. /\ near \in SUBSET Fitting
      /\ near = Fitting \/ Cardinality(near) = n
      /\ Cardinality(near) \in Nat /\ Cardinality(near) <= n
      /\ \A p \in near : \A q \in Fitting \ near : Sim(p) >= Sim(q)
  BY <1>2, <1>3, <1>4, NearestFacts
<1>6. kept \in SUBSET near /\ kept \in SUBSET Fitting /\ kept \in SUBSET Products
  BY <1>2, <1>5
<1>7. ~Words("smoky") => kept = {c \in near : Sim(c) >= req.min}
  BY <1>5
<1>s. s \in Ranked(kept, score)
  BY <1>4
<1> HIDE DEF score, Kept, kept
<1>8. /\ s \in Seq(Products) /\ Len(s) = Cardinality(kept)
      /\ \A i, j \in 1 .. Len(s) : s[i] = s[j] => i = j
      /\ ToSet(s) = kept
  <2>1. IsRanking(s, kept, score)
    BY <1>6, <1>s, RankedFacts, Zenon
  <2> QED BY <2>1 DEF IsRanking
<1>9. \A i \in 1 .. Len(s) : s[i] \in kept
  BY <1>8 DEF ToSet
<1>10. /\ order' \in Seq(Products)
       /\ Len(order') <= req.limit /\ Len(order') <= Len(s)
       /\ \A i \in 1 .. Len(order') : i \in 1 .. Len(s) /\ order'[i] = s[i]
       /\ Len(s) <= req.limit => Len(order') = Len(s)
  BY <1>1, <1>4, <1>8, CutFacts
<1>11. /\ order = <<>> /\ picked = <<>> /\ Len(picked) = 0 /\ at = 1 /\ req.kind = "semantic"
       /\ UNCHANGED <<gone, stocked, req, cands, at, picked, confidence, belied, changed>> /\ fits' = Fitting
       /\ stage' = IF order' = <<>> THEN "done" ELSE "rows"
  BY <1>1 DEF SearchRank, Waiting, Goto
<1>12. Len(order') \in Nat /\ at' \in 1 .. Len(order') + 1
  BY <1>10, <1>11
<1>13. RetTypeOK'
  BY <1>1, <1>2, <1>10, <1>11, <1>12 DEF RetTypeOK
<1>14. Waiting'
  BY <1>1, <1>11 DEF Waiting
<1>15. CandsAreFit' /\ SpreadSoFar' /\ FillSoFar' /\ PicksAreSpread' /\ ConfidenceIsHonest' /\ NoLexicalLuck'
  BY <1>11 DEF CandsAreFit, SpreadSoFar, FillSoFar, PicksAreSpread, ConfidenceIsHonest, NoLexicalLuck
<1>16. OrderIsFit'
  <2>1. \A i, j \in 1 .. Len(order') : order'[i] = order'[j] => i = j
    BY <1>8, <1>10
  <2>2. \A i \in 1 .. Len(order') : order'[i] \in fits'
    BY <1>6, <1>9, <1>10, <1>11
  <2> QED BY <2>1, <2>2 DEF OrderIsFit
<1>17. RowsAreNearest'
  <2>1. ASSUME ~Words("smoky"), NEW p \in Fitting
        PROVE  \/ \E i \in 1 .. Len(order') : order'[i] = p
               \/ Sim(p) < req.min
               \/ Len(order') = req.limit /\ \A i \in 1 .. Len(order') : Sim(order'[i]) >= Sim(p)
    <3>1. n = req.limit /\ kept = {c \in near : Sim(c) >= req.min}
      BY <1>3, <1>7, <2>1
    <3>2. IsFiniteSet(near)
      BY <1>2, <1>5, SizesAssumption, FS_Subset
    <3>3. /\ Cardinality(kept) <= Cardinality(near) /\ Cardinality(kept) \in Nat
          /\ IsFiniteSet(kept)
      BY <1>6, <3>2, FS_Subset, FS_CardinalityType
    <3>4. Len(order') = Len(s) /\ Len(s) \in Nat
      BY <1>1, <1>5, <1>8, <1>10, <3>1, <3>3
    <3>5. \A q \in Fitting : Sim(q) \in Nat
      BY <1>1, <1>2, SignalTypes DEF Unit
    <3>6. CASE p \in kept
      <4>1. PICK i \in 1 .. Len(s) : s[i] = p
        BY <1>8, <3>6 DEF ToSet
      <4> QED BY <1>10, <3>4, <4>1
    <3>7. CASE p \in near /\ p \notin kept
      BY <1>1, <3>1, <3>5, <3>7
    <3>8. CASE p \notin near
      <4>1. \A q \in near : Sim(q) >= Sim(p)
        BY <1>5, <3>8
      <4>2. Cardinality(near) = n
        BY <1>5, <3>8
      <4>3. CASE kept = near
        <5>1. Len(order') = req.limit
          BY <1>8, <3>1, <3>4, <4>2, <4>3
        <5>2. \A i \in 1 .. Len(order') : order'[i] \in near
          BY <1>6, <1>9, <1>10
        <5> QED BY <4>1, <5>1, <5>2
      <4>4. CASE kept # near
        <5>1. PICK q \in near : q \notin kept
          BY <1>6, <4>4
        <5>2. Sim(q) < req.min /\ Sim(q) >= Sim(p)
          BY <1>1, <1>5, <3>1, <3>5, <4>1, <5>1
        <5> QED BY <1>1, <1>5, <3>5, <5>1, <5>2
      <4> QED BY <4>3, <4>4
    <3> QED BY <3>6, <3>7, <3>8
  <2> QED BY <1>10, <1>11, <2>1, SignalsStand DEF RowsAreNearest
<1>18. AnswerFits'
  <2> SUFFICES ASSUME stage' = "done" PROVE AnswerFits'
    BY DEF AnswerFits
  <2>1. picked' = <<>>
    BY <1>11
  <2> QED BY <2>1, NothingFits DEF AnswerFits
<1> QED BY <1>13, <1>14, <1>15, <1>16, <1>17, <1>18

\* The second connection finds the rows again, whatever has been committed since.
LEMMA SearchRowsStep == RetIInv /\ SearchRows => RetIInv'
<1> SUFFICES ASSUME RetIInv, SearchRows PROVE RetIInv'
  OBVIOUS
<1> USE DEF RetIInv
<1>1. /\ req \in Requests /\ req # NoRequest /\ stage = "rows" /\ req.kind = "semantic"
      /\ order \in Seq(Products) /\ Len(order) <= req.limit /\ at = 1
  BY InACall DEF SearchRows, RetTypeOK, Waiting, RowsAreNearest
<1>2. /\ UNCHANGED <<gone, stocked, req, cands, order, at, confidence, recorded, fits, changed>>
      /\ picked' = order /\ stage' = "done" /\ belied' = Belied(ToSet(order))
  BY DEF SearchRows, Goto, recorded
<1>3. RetTypeOK'
  <2>1. ToSet(order) \in SUBSET Products
    BY <1>1 DEF ToSet
  <2>2. belied' \in SUBSET Products
    BY <1>2, <2>1 DEF Belied
  <2> QED BY <1>1, <1>2, <2>2 DEF RetTypeOK
<1>4. /\ Waiting' /\ CandsAreFit' /\ OrderIsFit' /\ RowsAreNearest' /\ SpreadSoFar' /\ FillSoFar'
      /\ ConfidenceIsHonest' /\ NoLexicalLuck' /\ PicksAreSpread'
  BY <1>1, <1>2 DEF Waiting, CandsAreFit, OrderIsFit, RowsAreNearest, SpreadSoFar, FillSoFar,
     ConfidenceIsHonest, NoLexicalLuck, PicksAreSpread
<1>5. Cardinality(ToSet(order)) = Len(order) /\ ToSet(order) \subseteq fits
  <2>1. \A i, j \in 1 .. Len(order) : order[i] = order[j] => i = j
    BY <1>1 DEF OrderIsFit
  <2>2. \A i \in 1 .. Len(order) : order[i] \in fits
    BY <1>1 DEF OrderIsFit
  <2> QED BY <1>1, <2>1, <2>2, SequenceOfSet DEF ToSet
<1>6. ~Words("smoky") =>
         \A p \in fits \ ToSet(order) :
           \/ Sim(p) < req.min
           \/ Len(order) = req.limit /\ \A q \in ToSet(order) : Sim(q) >= Sim(p)
  BY <1>1 DEF RowsAreNearest, ToSet
<1>7. AnswerFits'
  BY <1>1, <1>2, <1>5, <1>6, SignalsStand DEF AnswerFits
<1> QED BY <1>3, <1>4, <1>7

\* The neighbours of a product are read on one connection.
LEMMA SimilarStep == RetIInv /\ Similar => RetIInv'
<1> SUFFICES ASSUME RetIInv, Similar PROVE RetIInv'
  OBVIOUS
<1> USE DEF RetIInv
<1>1. /\ req \in Requests /\ req # NoRequest /\ req.limit \in Nat \ {0} /\ stage = "rank"
      /\ req.kind = "similar" /\ order = <<>> /\ at = 1 /\ Len(order) = 0
  BY InACall DEF Similar, Waiting
<1>2. Fitting \in SUBSET Products
  BY <1>1, FittingFacts
<1>a. PICK near \in Nearest(Fitting, req.limit) : \E s \in Ranked(near, Words("sim")) : picked' = s
  BY DEF Similar
<1>3. PICK s \in Ranked(near, Words("sim")) : picked' = s
  BY <1>a
<1>4. /\ near \in SUBSET Fitting
      /\ near = Fitting \/ Cardinality(near) = req.limit
      /\ Cardinality(near) \in Nat /\ Cardinality(near) <= req.limit
      /\ \A p \in near : \A q \in Fitting \ near : Sim(p) >= Sim(q)
  <2> DEFINE n == req.limit
  <2>1. n \in Nat \ {0} /\ near \in Nearest(Fitting, n)
    BY <1>1
  <2> HIDE DEF n
  <2>2. /\ near \in SUBSET Fitting
        /\ near = Fitting \/ Cardinality(near) = n
        /\ Cardinality(near) \in Nat /\ Cardinality(near) <= n
        /\ \A p \in near : \A q \in Fitting \ near : Sim(p) >= Sim(q)
    BY <1>2, <2>1, NearestFacts
  <2> QED BY <2>2 DEF n
<1>5. near \in SUBSET Products
  BY <1>2, <1>4
<1>6. /\ s \in Seq(Products) /\ Len(s) = Cardinality(near)
      /\ \A i, j \in 1 .. Len(s) : s[i] = s[j] => i = j
      /\ ToSet(s) = near
  <2>1. IsRanking(s, near, Words("sim"))
    BY <1>3, <1>5, RankedFacts, Zenon
  <2> QED BY <2>1 DEF IsRanking
<1>7. /\ UNCHANGED <<gone, stocked, req, cands, order, at, confidence, changed>>
      /\ fits' = Fitting /\ stage' = "done" /\ belied' = Belied(ToSet(picked'))
  BY DEF Similar, Goto
<1>8. RetTypeOK'
  <2>1. ToSet(picked') \in SUBSET Products
    BY <1>3, <1>5, <1>6
  <2>2. belied' \in SUBSET Products
    BY <1>7, <2>1 DEF Belied
  <2> QED BY <1>1, <1>2, <1>3, <1>4, <1>6, <1>7, <2>2 DEF RetTypeOK
<1>9. /\ Waiting' /\ CandsAreFit' /\ OrderIsFit' /\ RowsAreNearest' /\ SpreadSoFar' /\ FillSoFar'
      /\ ConfidenceIsHonest' /\ NoLexicalLuck' /\ PicksAreSpread'
  BY <1>1, <1>7 DEF Waiting, CandsAreFit, OrderIsFit, RowsAreNearest, SpreadSoFar, FillSoFar,
     ConfidenceIsHonest, NoLexicalLuck, PicksAreSpread
<1>10. Cardinality(ToSet(s)) = Len(s)
  BY <1>6, SequenceOfSet
<1>11. \A p \in Fitting \ ToSet(s) :
         Len(s) = req.limit /\ \A q \in ToSet(s) : Sim(q) >= Sim(p)
  BY <1>4, <1>6
<1>12. AnswerFits'
  BY <1>1, <1>3, <1>4, <1>6, <1>7, <1>10, <1>11, SignalsStand DEF AnswerFits
<1> QED BY <1>8, <1>9, <1>12

-------------------------------------------------------------------------------
(* Retrieval: every step, and what follows *)

\* Every step keeps the invariant, a sync's commit between two reads among them.
LEMMA RetStep == RetIInv /\ [RetNext]_retVars => RetIInv'
<1> SUFFICES ASSUME RetIInv, [RetNext]_retVars PROVE RetIInv'
  OBVIOUS
<1>1. ASSUME UNCHANGED <<stage, req, cands, order, at, picked, confidence, belied, fits>>,
             gone' \in SUBSET Products, stocked' \in SUBSET Products, changed' \in SUBSET Products
      PROVE  RetIInv'
  <2>1. /\ UNCHANGED <<stage, req, cands, order, at, picked, confidence, belied, fits>>
        /\ \A i : First(i)' <=> First(i)
        /\ \A i, j : Before(i, j)' <=> Before(i, j)
    BY <1>1, PlacesStand
  <2> USE DEF RetIInv
  <2>2. RetTypeOK'
    BY <1>1, <2>1 DEF RetTypeOK
  <2>3. Waiting' /\ OrderIsFit'
    BY <2>1 DEF Waiting, OrderIsFit
  <2>4. CandsAreFit' /\ ConfidenceIsHonest' /\ NoLexicalLuck'
    BY <2>1, SignalsStand DEF CandsAreFit, ConfidenceIsHonest, NoLexicalLuck, Shared
  <2>5. RowsAreNearest' /\ AnswerFits'
    BY <2>1, SignalsStand DEF RowsAreNearest, AnswerFits
  <2>a. SpreadSoFar' /\ FillSoFar'
    BY <2>1 DEF SpreadSoFar, FillSoFar
  <2>b. PicksAreSpread'
    BY <2>1 DEF PicksAreSpread
  <2>6. SpreadSoFar' /\ FillSoFar' /\ PicksAreSpread'
    BY <2>a, <2>b
  <2> QED BY <2>2, <2>3, <2>4, <2>5, <2>6
<1>2. ASSUME UNCHANGED <<gone, stocked>>, picked' = <<>>, order' \in Seq(Products), at' \in 1 .. Len(order') + 1,
             cands' \in SUBSET Products, belied' \in SUBSET Products,
             fits' \in SUBSET Products, changed' \in SUBSET Products,
             confidence' \in {"none", "low", "medium", "high"},
             \/ stage' = "idle" /\ req' = NoRequest /\ order' = <<>> /\ at' = 1
             \/ /\ stage' \in {"embed", "rank"} /\ order' = <<>> /\ at' = 1
                /\ req' \in Requests
             \/ stage' = "done" /\ req' \in Requests /\ (order' = <<>> \/ req'.kind = "semantic")
      PROVE  RetIInv'
  <2>1. Len(picked') = 0 /\ picked' \in Seq(Products)
    BY <1>2
  <2>2. req' \in Requests => req' # NoRequest /\ req'.limit \in Nat
    <3>1. req' \in Requests => req'.kind # "none" /\ req'.limit \in Limits
      BY DEF Requests, Asked
    <3> QED BY <3>1, NumbersAssumption DEF NoRequest
  <2>3. RetTypeOK'
    BY <1>2, <2>1, <2>2 DEF RetIInv, RetTypeOK
  <2>4. /\ Waiting' /\ CandsAreFit' /\ OrderIsFit' /\ RowsAreNearest' /\ SpreadSoFar' /\ FillSoFar'
        /\ PicksAreSpread' /\ ConfidenceIsHonest' /\ NoLexicalLuck'
    BY <1>2, <2>2 DEF Waiting, CandsAreFit, OrderIsFit, RowsAreNearest, SpreadSoFar, FillSoFar, PicksAreSpread,
       ConfidenceIsHonest, NoLexicalLuck
  <2>5. AnswerFits'
    <3>1. ToSet(picked') \subseteq fits' /\ Cardinality(ToSet(picked')) = Len(picked')
      BY <1>2, NothingFits
    <3> QED BY <1>2, <3>1 DEF AnswerFits
  <2> QED BY <2>3, <2>4, <2>5 DEF RetIInv
<1>t. RetTypeOK /\ Waiting
  BY DEF RetIInv
<1>e. <<>> \in Seq(Products) /\ Len(<<>>) = 0 /\ 1 \in 1 .. 0 + 1
  OBVIOUS
<1>3. CASE Ask
  BY <1>2, <1>3, <1>t, <1>e DEF Ask, Goto, RetTypeOK, Waiting, recorded
<1>4. CASE Embedded
  BY <1>2, <1>4, <1>t, <1>e DEF Embedded, Goto, RetTypeOK, Waiting, call, recorded
<1>5. CASE EmbedFails
  BY <1>2, <1>5, <1>t, <1>e DEF EmbedFails, Goto, RetTypeOK, Waiting, recorded
<1>6. CASE ReadFails
  BY <1>2, <1>6, <1>t, <1>e DEF ReadFails, Goto, RetTypeOK, Waiting, recorded
<1>7. CASE Answer
  BY <1>2, <1>7, <1>t, <1>e DEF Answer, Goto, RetTypeOK
<1>8. CASE SyncCommits
  <2>1. gone' \in SUBSET Products /\ stocked' \in SUBSET Products /\ changed' \in SUBSET Products
    BY <1>8, <1>t DEF SyncCommits, RetTypeOK
  <2> QED BY <1>1, <1>8, <2>1 DEF SyncCommits
<1>9. CASE UNCHANGED retVars
  BY <1>1, <1>9, <1>t DEF retVars, call, recorded, RetTypeOK
<1> QED
  BY <1>3, <1>4, <1>5, <1>6, <1>7, <1>8, <1>9, PairFetchStep, PairScoreStep, SpreadStep, SpreadDoneStep,
     FillStep, FillDoneStep, SearchRankStep, SearchRowsStep, SimilarStep
     DEF RetNext, PairStep, SearchStep

\* Until the rows are read they say nothing, and whatever of the ranked products does not
\* fit any more, a sync has changed since.
ShownIInv ==
  /\ stage # "done" => belied = {}
  /\ stage = "rows" => Belied(ToSet(order)) \subseteq changed
  /\ ShownAsAsked

\* What the WHERE clause selects is not belied at that moment.
LEMMA FittingIsTrue ==
  ASSUME NEW set \in SUBSET Fitting
  PROVE  Belied(set) = {}
BY DEF Fitting, Belied

\* A call reads rows with the ranking, or after it on a second connection.
LEMMA ShownStep == RetIInv /\ RetIInv' /\ ShownIInv /\ [RetNext]_retVars => ShownIInv'
<1> SUFFICES ASSUME RetIInv, RetIInv', ShownIInv, [RetNext]_retVars PROVE ShownIInv'
  OBVIOUS
<1>t. RetTypeOK /\ Waiting /\ RetTypeOK'
  BY DEF RetIInv
<1>1. ASSUME picked' = <<>>, stage' # "rows", stage' # "done" => belied' = {} PROVE ShownIInv'
  <2>1. ToSet(picked') = {}
    BY <1>1 DEF ToSet
  <2> QED BY <1>1, <2>1 DEF ShownIInv, ShownAsAsked
<1>2. ASSUME belied' = {}, stage' # "rows" PROVE ShownIInv'
  BY <1>2 DEF ShownIInv, ShownAsAsked
<1>3. CASE Ask
  BY <1>3, <1>2 DEF Ask, Goto, ShownIInv
<1>4. CASE Embedded
  BY <1>4, <1>2 DEF Embedded, Goto, ShownIInv, call
<1>5. CASE EmbedFails
  BY <1>5, <1>2 DEF EmbedFails, Goto, ShownIInv
<1>6. CASE ReadFails
  BY <1>6, <1>1 DEF ReadFails, Goto, ShownIInv
<1>7. CASE Answer
  BY <1>7, <1>2 DEF Answer, Goto
<1>8. CASE PairFetch
  <2>1. req \in Requests
    BY <1>8, InACall DEF PairFetch
  <2>2. cands' \in SUBSET Fitting
    <3>1. PICK pool \in Nearest(Fitting, PoolSize), injected \in Nearest(Tagged, InjectN) : cands' = pool \cup injected
      BY <1>8 DEF PairFetch
    <3>2. pool \in SUBSET Fitting /\ injected \in SUBSET Tagged
      BY DEF Nearest
    <3> QED BY <2>1, <3>1, <3>2, FittingFacts
  <2>3. belied' = {}
    BY <1>8, <2>2, FittingIsTrue DEF PairFetch
  <2> QED BY <1>8, <1>2, <2>3 DEF PairFetch, Goto
<1>9. CASE PairScore \/ Spread \/ SpreadDone \/ Fill \/ FillDone
  <2>1. stage \in {"score", "spread", "fill"} /\ belied' = belied
    BY <1>9 DEF PairScore, Spread, SpreadDone, Fill, FillDone, call
  <2>2. stage' \in {"spread", "fill", "done"}
    BY <1>9 DEF PairScore, Spread, SpreadDone, Fill, FillDone, Goto, Put
  <2> QED BY <1>2, <2>1, <2>2 DEF ShownIInv
<1>10. CASE SearchRank
  <2>1. UNCHANGED <<gone, stocked, req, picked, belied>> /\ stage = "rank" /\ picked = <<>>
        /\ fits' = Fitting /\ stage' \in {"done", "rows"}
    BY <1>10, <1>t DEF SearchRank, Goto, Waiting
  <2>2. CASE stage' = "done"
    BY <1>1, <2>1, <2>2 DEF ShownIInv
  <2>3. CASE stage' = "rows"
    <3>1. \A i \in 1 .. Len(order') : order'[i] \in Fitting
      BY <2>1, <2>3 DEF RetIInv, OrderIsFit
    <3>2. ToSet(order') \in SUBSET Fitting
      BY <3>1 DEF ToSet
    <3>3. Belied(ToSet(order')) = {}
      BY <3>2, FittingIsTrue
    <3>4. Belied(ToSet(order))' = {}
      BY <2>1, <3>3 DEF Belied
    <3> QED BY <2>1, <2>3, <3>4 DEF ShownIInv, ShownAsAsked
  <2> QED BY <2>1, <2>2, <2>3
<1>11. CASE SearchRows
  <2>1. /\ stage' = "done" /\ picked' = order /\ belied' = Belied(ToSet(order)) /\ req' = req
        /\ changed' = changed /\ stage = "rows" /\ req.kind = "semantic"
    BY <1>11, <1>t DEF SearchRows, Goto, Waiting, recorded
  <2>2. belied' \subseteq changed'
    BY <2>1 DEF ShownIInv
  <2> QED BY <2>1, <2>2 DEF ShownIInv, ShownAsAsked
<1>12. CASE Similar
  <2>1. ToSet(picked') \in SUBSET Fitting
    <3>1. ToSet(picked') \subseteq fits' /\ fits' = Fitting
      BY <1>12 DEF Similar, Goto, RetIInv, AnswerFits
    <3> QED BY <3>1
  <2>2. belied' = {}
    BY <1>12, <2>1, FittingIsTrue DEF Similar
  <2> QED BY <1>12, <1>2, <2>2 DEF Similar, Goto
<1>13. CASE SyncCommits
  <2>1. UNCHANGED <<stage, req, order, picked, belied>>
    BY <1>13 DEF SyncCommits
  <2>2. PICK p \in Products :
          /\ gone' \subseteq gone \cup {p} /\ stocked \ {p} \subseteq stocked'
          /\ changed' = IF stage = "rows" /\ p \in ToSet(order) THEN changed \cup {p} ELSE changed
    BY <1>13 DEF SyncCommits
  <2>3. Belied(ToSet(order))' \subseteq Belied(ToSet(order)) \cup ({p} \cap ToSet(order))
    BY <2>1, <2>2 DEF Belied
  <2>4. stage = "rows" => Belied(ToSet(order))' \subseteq changed'
    BY <2>2, <2>3 DEF ShownIInv
  <2>5. ShownAsAsked'
    BY <2>1, <2>2 DEF ShownIInv, ShownAsAsked
  <2> QED BY <2>1, <2>4, <2>5 DEF ShownIInv
<1>14. CASE UNCHANGED retVars
  BY <1>14 DEF retVars, call, recorded, ShownIInv, ShownAsAsked, Belied
<1> QED
  BY <1>3, <1>4, <1>5, <1>6, <1>7, <1>8, <1>9, <1>10, <1>11, <1>12, <1>13, <1>14
     DEF RetNext, PairStep, SearchStep

\* The invariant holds from the first state on.
THEOREM RetInvariant == RetSpec => []RetIInv
BY RetInitStep, RetStep, PTL DEF RetSpec

\* Every variable has its type; above all, no answer is longer than its limit, and no
\* place is read beyond the end of the pool (pairing/scoring.py, diversify).
THEOREM RetTypes == RetSpec => []RetTypeOK
BY RetInvariant, PTL DEF RetIInv

\* The two loops of diversify come to the best of each category by rank, then the rest
\* by rank, cut at the limit (pairing/scoring.py).
THEOREM PicksSpread == RetSpec => []PicksAreSpread
BY RetInvariant, PTL DEF RetIInv

\* Whatever query has brought a product in, the request allowed it when the products were
\* ranked; nothing is named twice, and a search leaves nothing nearer out
\* (pairing/engine.py, mcp_server/tools/semantic_search.py, find_similar_products.py).
THEOREM AnswersFit == RetSpec => []AnswerFits
BY RetInvariant, PTL DEF RetIInv

\* Whatever syncs commit in between, only a search shows a product whose row is against
\* the request, and only one that a sync has changed after the ranking
\* (mcp_server/tools/semantic_search.py, the second connection).
THEOREM AnswersShowWhatWasAsked == RetSpec => []ShownAsAsked
<1>1. RetInit => ShownIInv
  BY DEF RetInit, ShownIInv, ShownAsAsked
<1>2. ShownIInv => ShownAsAsked
  BY DEF ShownIInv
<1> QED BY <1>1, <1>2, RetInvariant, ShownStep, PTL DEF RetSpec

\* Low confidence means that nothing the request allows carries a symbol of the dish
\* (pairing/scoring.py, compute_confidence; pairing/engine.py, _fetch_candidates).
THEOREM HonestConfidence == RetSpec => []ConfidenceIsHonest
BY RetInvariant, PTL DEF RetIInv

\* A candidate as good in every signal and better in one, or as good and without a mere
\* echo in its name, is never ranked behind (pairing/scoring.py, score_candidates).
THEOREM NoLuck == RetSpec => []NoLexicalLuck
BY RetInvariant, PTL DEF RetIInv

-------------------------------------------------------------------------------
(* Alerts: the inductive invariant *)

USE MinPriorityAssumption, CooldownAssumption, ManyAssumption

\* The state that the next evaluation begins with, or that this one has.
State == IF pc \in {"idle", "fire_critical"} THEN Load(file) ELSE mem

\* The alert belongs to the place.
EventOK ==
  /\ pc = "fire" => event \in Transitions
  /\ pc = "fire_critical" => event = Critical
  /\ pc = "idle" => mem = NewState

\* The count is right unless it was lost.
CountOK == "count" \notin unsaved => State.fails = streak

\* So are the stamps of the failures.
StampsOK ==
  \A k \in {"sync_failing", "sync_repeatedly_failing"} :
    k \notin unsaved => State.sent[k] = since[k]

\* What was told needs its failures, or a count that is too high.
ToldOK ==
  /\ told \cap {"sync_failing", "sync_repeatedly_failing"} # {} => streak >= 1
  /\ "sync_repeatedly_failing" \in told =>
       \/ streak >= 2
       \/ "count" \in unsaved /\ (pc \in {"fire", "save", "write"} => State.fails >= 2)
  /\ pc = "fire" /\ State.fails >= 1 => streak >= 1

\* What is about to be told was not told before.
NewsOK == pc = "fire" /\ "count" \notin unsaved => event \notin told

Standing(n) == IF n = 0 THEN "well" ELSE IF n = 1 THEN "failing" ELSE "failing for long"

\* What the operator believes is what the state says, or will be with the next message.
BeliefOK ==
  /\ pc # "fire" /\ ~missed => belief = Standing(State.fails)
  /\ pc = "fire" =>
       /\ event = "sync_failing" <=> mem.fails = 1
       /\ event = "sync_repeatedly_failing" <=> mem.fails >= 2

IInv ==
  /\ TypeOK
  /\ EventOK
  /\ CountOK
  /\ StampsOK
  /\ ToldOK
  /\ NewsOK
  /\ BeliefOK

-------------------------------------------------------------------------------
(* Alerts: types *)

\* Counting and growing old stay within their bounds.
LEMMA Bounds ==
  /\ 0 \in Counts /\ 0 \in Ages /\ Cooldown \in Ages
  /\ \A n \in Counts : OneMore(n) \in Counts
  /\ \A a \in Ages : Older(a) \in Ages
BY DEF Counts, Ages, OneMore, Older

\* The state that is loaded where there is none.
LEMMA NewStateType ==
  /\ NewState \in States /\ NewState.fails = 0
  /\ \A k \in Kinds : NewState.sent[k] = Cooldown
BY Bounds DEF NewState, States

\* What is loaded is a state.
LEMMA LoadType == ASSUME NEW f \in States \cup {Broken} PROVE Load(f) \in States
BY NewStateType DEF Load

\* No two names are mixed up.
LEMMA Names ==
  /\ Transitions \subseteq Kinds /\ Critical \in Kinds /\ Critical \notin Transitions
  /\ Silence \notin Kinds
BY DEF Transitions, Kinds, Critical, Silence

\* The types, to begin with.
LEMMA TypeInit == Init => TypeOK
BY NewStateType, Bounds DEF Init, TypeOK

\* The types, from step to step.
LEMMA TypeStep == TypeOK /\ EventOK /\ [Next]_vars => TypeOK'
<1> SUFFICES ASSUME TypeOK, EventOK, [Next]_vars PROVE TypeOK'
  OBVIOUS
<1> USE DEF TypeOK
<1>0. Load(file) \in States /\ NewState \in States
  BY LoadType, NewStateType
<1>1. ASSUME NEW success \in BOOLEAN, Evaluate(success) PROVE TypeOK'
  <2>1. mem' \in States
    <3>1. mem' = [Load(file) EXCEPT !.fails = IF success THEN 0 ELSE OneMore(Load(file).fails)]
      BY <1>1 DEF Evaluate
    <3>2. Load(file).fails \in Counts
      BY <1>0 DEF States
    <3>3. (IF success THEN 0 ELSE OneMore(Load(file).fails)) \in Counts
      BY <3>2, Bounds
    <3> QED BY <1>0, <3>1, <3>3 DEF States
  <2>2. event' \in Kinds \cup {Silence}
    BY <1>1 DEF Evaluate, Transition, Kinds, Transitions
  <2>3. streak' \in Counts
    BY <1>1, Bounds DEF Evaluate
  <2> QED BY <1>1, <2>1, <2>2, <2>3 DEF Evaluate
<1>2. CASE FireCritical
  BY <1>0, <1>2, Names DEF FireCritical, history
<1>3. CASE Sent \/ SentUnconfirmed \/ NotSent
  <2>1. event \in Kinds
    BY <1>3, Names DEF Sent, SentUnconfirmed, NotSent, Firing, EventOK
  <2>2. mem' \in States
    <3>1. mem' \in {mem, NewState, [mem EXCEPT !.sent = [mem.sent EXCEPT ![event] = 0]]}
      BY <1>3 DEF Sent, SentUnconfirmed, NotSent
    <3>2. mem.sent \in [Kinds -> Ages]
      BY DEF States
    <3>3. [mem.sent EXCEPT ![event] = 0] \in [Kinds -> Ages]
      BY <3>2, Bounds
    <3>4. [mem EXCEPT !.sent = [mem.sent EXCEPT ![event] = 0]] \in States
      BY <3>3 DEF States
    <3> QED BY <1>0, <3>1, <3>4
  <2>3. since' \in [Kinds -> Ages]
    BY <1>3, <2>1, Bounds DEF Sent, SentUnconfirmed, NotSent, Arrives, Missed
  <2>4. told' \in SUBSET Transitions
    <3>1. told' = told \/ (event \in Transitions /\ told' = told \cup {event})
      BY <1>3 DEF Sent, SentUnconfirmed, NotSent, Arrives, Missed
    <3> QED BY <3>1
  <2>5. belief' \in {belief, "well", "failing", "failing for long"}
    BY <1>3 DEF Sent, SentUnconfirmed, NotSent, Arrives, Missed
  <2>6. missed' \in BOOLEAN
    <3>1. missed' \in {missed, FALSE} \/ missed' = (missed \/ event \in Transitions)
      BY <1>3 DEF Sent, SentUnconfirmed, NotSent, Arrives, Missed
    <3> QED BY <3>1
  <2>7. pc' \in {"save", "idle"} /\ event' = Silence /\ file' = file /\ streak' = streak
    BY <1>3 DEF Sent, SentUnconfirmed, NotSent, AfterFire
  <2>8. unsaved' \in SUBSET (Kinds \cup {"count"})
    BY <1>3, <2>1 DEF Sent, SentUnconfirmed, NotSent
  <2> QED BY <2>2, <2>3, <2>4, <2>5, <2>6, <2>7, <2>8
<1>4. CASE OpenFile
  BY <1>4 DEF OpenFile, history
<1>5. CASE WriteFile
  BY <1>0, <1>5 DEF WriteFile, Forget
<1>6. CASE Lost
  BY <1>0, <1>6 DEF Lost, Forget
<1>7. CASE Tick
  <2>1. file' \in States \cup {Broken}
    BY <1>7, Bounds DEF Tick, States
  <2> QED BY <1>7, <2>1, Bounds DEF Tick
<1>8. CASE UNCHANGED vars
  BY <1>8 DEF vars, history
<1> QED BY <1>1, <1>2, <1>3, <1>4, <1>5, <1>6, <1>7, <1>8 DEF Next

-------------------------------------------------------------------------------
(* Alerts: what becomes of the state *)

\* An alert goes out, or does not.
Fire == Sent \/ SentUnconfirmed \/ NotSent

\* A state is not mistaken for a broken file.
LEMMA LoadState == ASSUME NEW f \in States PROVE Load(f) = f
<1>1. DOMAIN f = {"fails", "sent"}
  BY DEF States
<1>2. DOMAIN Broken = {"fails", "sent", "broken"}
  BY DEF Broken
<1>3. f # Broken
  BY <1>1, <1>2
<1> QED BY <1>3 DEF Load

\* Where an evaluation begins and where it goes.
LEMMA EvaluateMoves ==
  ASSUME TypeOK, NEW success \in BOOLEAN, Evaluate(success)
  PROVE  /\ pc = "idle" /\ State = Load(file) /\ State' = mem'
         /\ mem'.fails = (IF success THEN 0 ELSE OneMore(State.fails))
         /\ mem'.sent = State.sent
         /\ State.fails \in Counts
         /\ event' = Transition(State.fails, mem'.fails)
         /\ pc' \in {"save", "fire"}
         /\ pc' = "save" <=> event' = Silence
<1>1. Load(file) \in States /\ pc = "idle"
  BY LoadType DEF Evaluate, TypeOK
<1>2. mem' = [Load(file) EXCEPT !.fails = IF success THEN 0 ELSE OneMore(Load(file).fails)]
  BY DEF Evaluate
<1>3. /\ mem'.fails = (IF success THEN 0 ELSE OneMore(Load(file).fails))
      /\ mem'.sent = Load(file).sent /\ Load(file).fails \in Counts
  BY <1>1, <1>2 DEF States
<1>4. event' = Transition(Load(file).fails, mem'.fails)
  BY <1>3 DEF Evaluate
<1>5. pc' = IF event' = Silence THEN "save" ELSE "fire"
  BY DEF Evaluate
<1> QED BY <1>1, <1>3, <1>4, <1>5 DEF State

\* Sending stamps at most the alert that is sent.
LEMMA FireMoves ==
  ASSUME TypeOK, EventOK, Fire
  PROVE  /\ pc \in {"fire", "fire_critical"}
         /\ pc' = (IF pc = "fire" THEN "save" ELSE "idle")
         /\ UNCHANGED <<file, streak>> /\ unsaved \subseteq unsaved'
         /\ "count" \in unsaved' => "count" \in unsaved
         /\ event \in Kinds
         /\ pc = "fire" => event \in Transitions
         /\ pc = "fire_critical" => event = Critical /\ State' = State
         /\ State'.fails = State.fails
         /\ \A k \in Kinds \ {event} : State'.sent[k] = State.sent[k] /\ since'[k] = since[k]
<1> USE DEF Fire
<1>1. /\ pc \in {"fire", "fire_critical"}
      /\ pc' = (IF pc = "fire" THEN "save" ELSE "idle")
      /\ UNCHANGED <<file, streak>> /\ unsaved \subseteq unsaved'
  BY DEF Sent, SentUnconfirmed, NotSent, Firing, AfterFire
<1>2. event \in Kinds /\ (pc = "fire" => event \in Transitions)
      /\ (pc = "fire_critical" => event = Critical)
  BY <1>1, Names DEF EventOK
<1>3. "count" \in unsaved' => "count" \in unsaved
  <2>1. event # "count"
    BY <1>2 DEF Kinds, Transitions, Critical
  <2> QED BY <2>1 DEF Sent, SentUnconfirmed, NotSent
<1>4. \A k \in Kinds \ {event} : since'[k] = since[k]
  BY DEF Sent, SentUnconfirmed, NotSent, Arrives, Missed, TypeOK
<1>5. CASE pc = "fire"
  <2>1. mem' \in {mem, [mem EXCEPT !.sent = [mem.sent EXCEPT ![event] = 0]]}
    BY <1>5 DEF Sent, SentUnconfirmed, NotSent
  <2>2. mem \in States /\ mem.sent \in [Kinds -> Ages]
    BY DEF TypeOK, States
  <2>3. mem'.fails = mem.fails /\ mem'.sent \in {mem.sent, [mem.sent EXCEPT ![event] = 0]}
    BY <2>1, <2>2 DEF States
  <2>4. \A k \in Kinds \ {event} : mem'.sent[k] = mem.sent[k]
    BY <2>2, <2>3
  <2>5. State = mem /\ State' = mem'
    BY <1>1, <1>5 DEF State
  <2> QED BY <1>1, <1>2, <1>3, <1>4, <1>5, <2>3, <2>4, <2>5
<1>6. CASE pc = "fire_critical"
  <2>1. State' = State
    BY <1>1, <1>6 DEF State
  <2> QED BY <1>1, <1>2, <1>3, <1>4, <1>6, <2>1
<1> QED BY <1>1, <1>5, <1>6

\* The save puts the state into the file.
LEMMA SaveMoves ==
  ASSUME TypeOK, OpenFile \/ WriteFile \/ FireCritical
  PROVE  /\ State' = State /\ UNCHANGED <<streak, since, told, belief, missed>>
         /\ pc' # "fire" /\ pc # "fire"
<1>1. CASE WriteFile
  BY <1>1, LoadState DEF WriteFile, State, TypeOK
<1>2. CASE OpenFile
  BY <1>2 DEF OpenFile, State, history
<1>3. CASE FireCritical
  BY <1>3 DEF FireCritical, State, history
<1> QED BY <1>1, <1>2, <1>3

\* Time goes on for the stamps, not for the count.
LEMMA TickMoves ==
  ASSUME TypeOK, Tick
  PROVE  /\ State'.fails = State.fails
         /\ \A k \in Kinds : State'.sent[k] = Older(State.sent[k]) /\ since'[k] = Older(since[k])
         /\ UNCHANGED <<pc, mem, event, streak, told, belief, missed, unsaved>> /\ pc = "idle"
<1>0. UNCHANGED <<pc, mem, event, streak, told, belief, missed, unsaved>> /\ pc = "idle"
      /\ \A k \in Kinds : since'[k] = Older(since[k])
  BY DEF Tick
<1>1. CASE file = Broken
  <2>1. State = NewState /\ State' = NewState
    BY <1>0, <1>1 DEF Tick, State, Load
  <2>2. Older(Cooldown) = Cooldown
    BY DEF Older
  <2> QED BY <1>0, <2>1, <2>2, NewStateType
<1>2. CASE file # Broken
  <2>1. file \in States
    BY <1>2 DEF TypeOK
  <2>2. file' = [file EXCEPT !.sent = [k \in Kinds |-> Older(file.sent[k])]]
    BY <1>2 DEF Tick
  <2>3. file' \in States
    BY <2>1, <2>2, Bounds DEF States
  <2>4. State = file /\ State' = file'
    BY <1>0, <2>1, <2>3, LoadState DEF State
  <2>5. file'.fails = file.fails /\ file'.sent = [k \in Kinds |-> Older(file.sent[k])]
    BY <2>1, <2>2 DEF States
  <2> QED BY <1>0, <2>4, <2>5
<1> QED BY <1>1, <1>2

-------------------------------------------------------------------------------
(* Alerts: the parts of the invariant *)

\* An alert in flight, and the state that belongs to no evaluation.
LEMMA EventStep == TypeOK /\ EventOK /\ [Next]_vars => EventOK'
<1> SUFFICES ASSUME TypeOK, EventOK, [Next]_vars PROVE EventOK'
  OBVIOUS
<1> USE DEF EventOK
<1>1. ASSUME NEW success \in BOOLEAN, Evaluate(success) PROVE EventOK'
  BY <1>1, EvaluateMoves DEF Transition, Transitions, Silence
<1>2. CASE FireCritical
  BY <1>2 DEF FireCritical
<1>3. CASE Fire
  BY <1>3, FireMoves DEF Fire, Sent, SentUnconfirmed, NotSent
<1>4. CASE OpenFile \/ WriteFile \/ Lost
  BY <1>4 DEF OpenFile, WriteFile, Lost, Forget
<1>5. CASE Tick \/ UNCHANGED vars
  BY <1>5 DEF Tick, vars
<1> QED BY <1>1, <1>2, <1>3, <1>4, <1>5 DEF Next, Fire

\* The count, from step to step.
LEMMA CountStep == IInv /\ [Next]_vars => CountOK'
<1> SUFFICES ASSUME IInv, [Next]_vars, "count" \notin unsaved' PROVE State'.fails = streak'
  BY DEF CountOK
<1> USE DEF IInv
<1>1. ASSUME NEW success \in BOOLEAN, Evaluate(success) PROVE State'.fails = streak'
  <2>1. "count" \notin unsaved /\ streak' = IF success THEN 0 ELSE OneMore(streak)
    BY <1>1 DEF Evaluate
  <2> QED BY <1>1, <2>1, EvaluateMoves DEF CountOK
<1>2. CASE Fire
  BY <1>2, FireMoves DEF CountOK
<1>3. CASE FireCritical \/ OpenFile
  BY <1>3, SaveMoves DEF CountOK, FireCritical, OpenFile, history
<1>4. CASE WriteFile
  <2>1. State = mem
    BY <1>4 DEF WriteFile, State
  <2>2. "count" \in unsaved => mem.fails = streak
    BY <1>4 DEF WriteFile
  <2> QED BY <1>4, <2>1, <2>2, SaveMoves DEF CountOK
<1>5. CASE Lost
  BY <1>5 DEF Lost, CountOK, State
<1>6. CASE Tick
  BY <1>6, TickMoves DEF CountOK
<1>7. CASE UNCHANGED vars
  BY <1>7 DEF vars, CountOK, State
<1> QED BY <1>1, <1>2, <1>3, <1>4, <1>5, <1>6, <1>7 DEF Next, Fire

\* The stamps, from step to step.
LEMMA StampsStep == IInv /\ [Next]_vars => StampsOK'
<1> SUFFICES ASSUME IInv, [Next]_vars, NEW k \in {"sync_failing", "sync_repeatedly_failing"},
                    k \notin unsaved'
             PROVE  State'.sent[k] = since'[k]
  BY DEF StampsOK
<1> USE DEF IInv
<1>0. k \in Kinds /\ k # Critical /\ k # "count"
  BY DEF Kinds, Transitions, Critical
<1>1. ASSUME NEW success \in BOOLEAN, Evaluate(success) PROVE State'.sent[k] = since'[k]
  <2>1. k \notin unsaved /\ since' = since
    BY <1>1 DEF Evaluate
  <2> QED BY <1>1, <2>1, EvaluateMoves DEF StampsOK
<1>2. CASE Fire
  <2>1. k \notin unsaved
    BY <1>2, FireMoves
  <2>2. CASE event # k
    BY <1>0, <1>2, <2>1, <2>2, FireMoves DEF StampsOK
  <2>3. CASE event = k
    <3>1. pc = "fire" /\ pc' = "save"
      BY <1>0, <1>2, <2>3, FireMoves
    <3>2. State = mem /\ State' = mem'
      BY <3>1 DEF State
    <3>3. mem \in States /\ mem.sent \in [Kinds -> Ages] /\ since \in [Kinds -> Ages]
      BY DEF TypeOK, States
    <3>4. CASE Sent
      <4>1. mem' = [mem EXCEPT !.sent = [mem.sent EXCEPT ![event] = 0]]
            /\ since' = [since EXCEPT ![event] = 0]
        BY <3>1, <3>4 DEF Sent, Arrives
      <4>2. mem'.sent = [mem.sent EXCEPT ![event] = 0]
        BY <3>3, <4>1 DEF States
      <4> QED BY <1>0, <2>3, <3>2, <3>3, <4>1, <4>2
    <3>5. CASE SentUnconfirmed
      BY <2>3, <3>5 DEF SentUnconfirmed
    <3>6. CASE NotSent
      BY <2>1, <3>1, <3>2, <3>6 DEF NotSent, Missed, StampsOK
    <3> QED BY <1>2, <3>4, <3>5, <3>6 DEF Fire
  <2> QED BY <2>2, <2>3
<1>3. CASE FireCritical \/ OpenFile
  BY <1>3, SaveMoves DEF StampsOK, FireCritical, OpenFile, history
<1>4. CASE WriteFile
  <2>1. State = mem
    BY <1>4 DEF WriteFile, State
  <2>2. k \in unsaved => mem.sent[k] = since[k]
    BY <1>0, <1>4 DEF WriteFile
  <2> QED BY <1>4, <2>1, <2>2, SaveMoves DEF StampsOK
<1>5. CASE Lost
  BY <1>0, <1>5 DEF Lost, StampsOK, State
<1>6. CASE Tick
  BY <1>0, <1>6, TickMoves DEF StampsOK
<1>7. CASE UNCHANGED vars
  BY <1>7 DEF vars, StampsOK, State
<1> QED BY <1>1, <1>2, <1>3, <1>4, <1>5, <1>6, <1>7 DEF Next, Fire

\* What one more failure does to a count.
LEMMA OneMoreIs ==
  ASSUME NEW n \in Counts
  PROVE  /\ n \in Nat /\ OneMore(n) >= 1
         /\ n = 0 => OneMore(n) = 1
         /\ n >= 1 => OneMore(n) >= 2
BY DEF Counts, OneMore

\* What has been told, from step to step.
LEMMA ToldStep == IInv /\ [Next]_vars => ToldOK'
<1> SUFFICES ASSUME IInv, [Next]_vars PROVE ToldOK'
  OBVIOUS
<1> USE DEF IInv
<1>0. streak \in Counts /\ streak \in Nat
  BY OneMoreIs DEF TypeOK
<1>1. ASSUME NEW success \in BOOLEAN, Evaluate(success) PROVE ToldOK'
  <2>1. CASE success
    <3>1. told' = {} /\ mem'.fails = 0 /\ State' = mem'
      BY <1>1, <2>1, EvaluateMoves DEF Evaluate
    <3> QED BY <3>1 DEF ToldOK
  <2>2. CASE ~success
    <3>1. told' = told /\ streak' = OneMore(streak)
      BY <1>1, <2>2 DEF Evaluate
    <3>2. streak' >= 1 /\ (streak >= 1 => streak' >= 2)
      BY <1>0, <3>1, OneMoreIs
    <3>3. "sync_repeatedly_failing" \in told => streak >= 1
      BY DEF ToldOK
    <3> QED BY <3>1, <3>2, <3>3 DEF ToldOK
  <2> QED BY <2>1, <2>2
<1>2. CASE Fire
  <2>1. CASE pc = "fire_critical"
    <3>1. event = Critical /\ event \notin Transitions /\ pc' = "idle"
      BY <1>2, <2>1, FireMoves, Names
    <3>2. told' = told
      BY <1>2, <3>1 DEF Fire, Sent, SentUnconfirmed, NotSent, Arrives, Missed
    <3> QED BY <1>2, <2>1, <3>1, <3>2, FireMoves DEF ToldOK
  <2>2. CASE pc = "fire"
    <3>1. told' = told \/ told' = told \cup {event}
      BY <1>2 DEF Fire, Sent, SentUnconfirmed, NotSent, Arrives, Missed
    <3>2. /\ pc' = "save" /\ State = mem /\ State'.fails = mem.fails /\ streak' = streak
          /\ "count" \in unsaved <=> "count" \in unsaved'
      BY <1>2, <2>2, FireMoves DEF State
    <3>3. event \in {"sync_failing", "sync_repeatedly_failing"} => mem.fails >= 1
      <4>1. mem.fails \in Nat
        BY OneMoreIs DEF TypeOK, States
      <4> QED BY <2>2, <4>1 DEF BeliefOK
    <3>4. event = "sync_repeatedly_failing" => mem.fails >= 2
      BY <2>2 DEF BeliefOK
    <3>5. "count" \notin unsaved => mem.fails = streak
      BY <3>2 DEF CountOK
    <3>6. told' \cap {"sync_failing", "sync_repeatedly_failing"} # {} => streak' >= 1
      BY <2>2, <3>1, <3>2, <3>3 DEF ToldOK
    <3>7. "sync_repeatedly_failing" \in told' =>
            streak' >= 2 \/ ("count" \in unsaved' /\ State'.fails >= 2)
      BY <2>2, <3>1, <3>2, <3>4, <3>5 DEF ToldOK
    <3> QED BY <3>2, <3>6, <3>7 DEF ToldOK
  <2> QED BY <1>2, <2>1, <2>2, FireMoves
<1>3. CASE FireCritical
  BY <1>3 DEF FireCritical, history, ToldOK
<1>4. CASE OpenFile
  BY <1>4, SaveMoves DEF OpenFile, history, ToldOK
<1>5. CASE WriteFile
  <2>1. State = mem /\ pc = "write" /\ pc' = "idle" /\ UNCHANGED <<told, streak>>
    BY <1>5 DEF WriteFile, State
  <2>2. "count" \in unsaved => "count" \in unsaved' \/ mem.fails = streak
    BY <1>5 DEF WriteFile
  <2> QED BY <2>1, <2>2 DEF ToldOK
<1>6. CASE Lost
  BY <1>6 DEF Lost, ToldOK
<1>7. CASE Tick
  BY <1>7, TickMoves DEF ToldOK
<1>8. CASE UNCHANGED vars
  BY <1>8 DEF vars, ToldOK, State
<1> QED BY <1>1, <1>2, <1>3, <1>4, <1>5, <1>6, <1>7, <1>8 DEF Next, Fire

\* An evaluation only has news that were not told.
LEMMA NewsStep == IInv /\ [Next]_vars => NewsOK'
<1> SUFFICES ASSUME IInv, [Next]_vars, pc' = "fire", "count" \notin unsaved'
             PROVE  event' \notin told'
  BY DEF NewsOK
<1> USE DEF IInv
<1>1. ASSUME NEW success \in BOOLEAN, Evaluate(success) PROVE event' \notin told'
  <2>1. CASE success
    BY <1>1, <2>1 DEF Evaluate
  <2>2. CASE ~success
    <3>1. told' = told /\ unsaved' = unsaved
      BY <1>1, <2>2 DEF Evaluate
    <3>2. /\ State.fails = streak /\ streak \in Counts
          /\ event' = Transition(streak, OneMore(streak))
      BY <1>1, <2>2, <3>1, EvaluateMoves DEF CountOK, TypeOK
    <3>3. event' # Silence
      BY <1>1, EvaluateMoves
    <3>4. \/ event' = "sync_failing" /\ streak = 0
          \/ event' = "sync_repeatedly_failing" /\ streak < 2
      BY <3>2, <3>3, OneMoreIs DEF Transition
    <3> QED BY <3>1, <3>2, <3>4, OneMoreIs DEF ToldOK
  <2> QED BY <2>1, <2>2
<1>2. CASE Fire
  BY <1>2, FireMoves
<1>3. CASE FireCritical \/ OpenFile \/ WriteFile \/ Lost
  BY <1>3 DEF FireCritical, OpenFile, WriteFile, Lost
<1>4. CASE Tick
  BY <1>4 DEF Tick
<1>5. CASE UNCHANGED vars
  BY <1>5 DEF vars, NewsOK
<1> QED BY <1>1, <1>2, <1>3, <1>4, <1>5 DEF Next, Fire

\* What the operator believes, from step to step.
LEMMA BeliefStep == IInv /\ [Next]_vars => BeliefOK'
<1> SUFFICES ASSUME IInv, [Next]_vars PROVE BeliefOK'
  OBVIOUS
<1> USE DEF IInv
<1>1. ASSUME NEW success \in BOOLEAN, Evaluate(success) PROVE BeliefOK'
  <2> DEFINE prev == State.fails
             new  == mem'.fails
  <2>1. /\ pc = "idle" /\ prev \in Counts /\ State' = mem' /\ event' = Transition(prev, new)
        /\ pc' \in {"save", "fire"} /\ (pc' = "save" <=> event' = Silence)
        /\ new = (IF success THEN 0 ELSE OneMore(prev))
        /\ UNCHANGED <<belief, missed>>
    BY <1>1, EvaluateMoves DEF Evaluate
  <2>2. prev \in Nat /\ new \in Nat /\ (new = 0 \/ (prev = 0 /\ new = 1) \/ (prev >= 1 /\ new >= 2))
    BY <2>1, OneMoreIs, Bounds DEF Counts
  <2> HIDE DEF prev, new
  <2>3. event' = Silence => Standing(prev) = Standing(new)
    <3>1. CASE prev = 0 /\ new = 0
      BY <3>1
    <3>2. CASE prev > 0 /\ new = 0
      BY <2>1, <2>2, <3>2 DEF Transition, Silence
    <3>3. CASE prev = 0 /\ new = 1
      BY <2>1, <3>3 DEF Transition, Silence
    <3>4. CASE prev = 1 /\ new >= 2
      BY <2>1, <2>2, <3>4 DEF Transition, Silence
    <3>5. CASE prev >= 2 /\ new >= 2
      <4>1. prev # 0 /\ prev # 1 /\ new # 0 /\ new # 1
        BY <2>2, <3>5
      <4> QED BY <4>1 DEF Standing
    <3> QED BY <2>2, <3>1, <3>2, <3>3, <3>4, <3>5
  <2>4. event' # Silence =>
          (event' = "sync_failing" <=> new = 1) /\ (event' = "sync_repeatedly_failing" <=> new >= 2)
    BY <2>1, <2>2 DEF Transition, Silence
  <2> USE DEF prev, new
  <2> QED BY <2>1, <2>3, <2>4 DEF BeliefOK
<1>2. CASE Fire
  <2>1. CASE pc = "fire_critical"
    <3>1. event \notin Transitions /\ State' = State /\ pc' = "idle"
      BY <1>2, <2>1, FireMoves, Names
    <3>2. belief' = belief /\ (~missed' => ~missed)
      BY <1>2, <3>1 DEF Fire, Sent, SentUnconfirmed, NotSent, Arrives, Missed
    <3> QED BY <2>1, <3>1, <3>2 DEF BeliefOK
  <2>2. CASE pc = "fire"
    <3>1. event \in Transitions /\ State'.fails = mem.fails /\ pc' = "save"
      BY <1>2, <2>2, FireMoves DEF State
    <3>2. CASE NotSent
      BY <3>1, <3>2 DEF NotSent, Missed, BeliefOK
    <3>3. CASE Sent \/ SentUnconfirmed
      <4>1. belief' = IF event = "sync_failing" THEN "failing"
                      ELSE IF event = "sync_repeatedly_failing" THEN "failing for long" ELSE "well"
        BY <3>1, <3>3 DEF Sent, SentUnconfirmed, Arrives
      <4>2. mem.fails \in Nat
        BY OneMoreIs DEF TypeOK, States
      <4>3. (event = "sync_failing" <=> mem.fails = 1)
            /\ (event = "sync_repeatedly_failing" <=> mem.fails >= 2)
        BY <2>2 DEF BeliefOK
      <4>4. belief' = Standing(mem.fails)
        <5>1. CASE mem.fails = 0
          BY <4>1, <4>3, <5>1 DEF Standing
        <5>2. CASE mem.fails = 1
          BY <4>1, <4>3, <5>2 DEF Standing
        <5>3. CASE mem.fails >= 2
          <6>1. mem.fails # 0 /\ mem.fails # 1
            BY <4>2, <5>3
          <6> QED BY <4>1, <4>3, <5>3, <6>1 DEF Standing
        <5> QED BY <4>2, <5>1, <5>2, <5>3
      <4> QED BY <3>1, <4>4 DEF BeliefOK
    <3> QED BY <1>2, <3>2, <3>3 DEF Fire
  <2> QED BY <1>2, <2>1, <2>2, FireMoves
<1>3. CASE OpenFile \/ WriteFile \/ FireCritical
  BY <1>3, SaveMoves DEF BeliefOK
<1>4. CASE Lost
  <2>1. pc' = "idle" /\ belief' = belief /\ file' = file
    BY <1>4 DEF Lost
  <2>2. CASE pc = "fire_critical"
    BY <1>4, <2>1, <2>2 DEF Lost, BeliefOK, State
  <2>3. CASE pc # "fire_critical"
    BY <1>4, <2>1, <2>3 DEF Lost, BeliefOK
  <2> QED BY <2>2, <2>3
<1>5. CASE Tick
  BY <1>5, TickMoves DEF BeliefOK
<1>6. CASE UNCHANGED vars
  BY <1>6 DEF vars, BeliefOK, State
<1> QED BY <1>1, <1>2, <1>3, <1>4, <1>5, <1>6 DEF Next, Fire

-------------------------------------------------------------------------------
(* Alerts: theorems *)

\* The invariant, to begin with.
LEMMA InvInit == Init => IInv
<1> SUFFICES ASSUME Init PROVE IInv
  OBVIOUS
<1>1. State = NewState
  BY DEF Init, State, Load
<1>2. CountOK /\ ToldOK /\ NewsOK /\ EventOK
  BY <1>1, NewStateType DEF Init, CountOK, ToldOK, NewsOK, EventOK
<1>3. StampsOK
  BY <1>1, NewStateType DEF Init, StampsOK, Kinds, Transitions
<1>4. BeliefOK
  BY <1>1, NewStateType DEF Init, BeliefOK, Standing
<1> QED BY <1>2, <1>3, <1>4, TypeInit DEF IInv

\* The invariant, from step to step.
LEMMA InvStep == IInv /\ [Next]_vars => IInv'
BY TypeStep, EventStep, CountStep, StampsStep, ToldStep, NewsStep, BeliefStep DEF IInv

\* The parts of the invariant hold together at all times.
THEOREM Invariant == Spec => []IInv
BY InvInit, InvStep, PTL DEF Spec

\* Every variable keeps its type.
THEOREM TypeCorrect == Spec => []TypeOK
BY Invariant, PTL DEF IInv

\* What _load_state finds is the number of failed runs since the last success.
THEOREM CountIsRight == Spec => []CountIsStreak
<1>1. IInv => CountIsStreak
  BY DEF IInv, CountOK, CountIsStreak, State
<1> QED BY <1>1, Invariant, PTL

\* The operator knows how the sync stands.
THEOREM OperatorIsRight == Spec => []OperatorKnows
<1>1. IInv => OperatorKnows
  BY DEF IInv, CountOK, BeliefOK, OperatorKnows, State, Standing
<1> QED BY <1>1, Invariant, PTL

\* _fire tells each transition once in a streak.
THEOREM TellsOnce == Spec => ToldOnce
<1>1. ASSUME IInv, NEW k \in Transitions, Sent \/ SentUnconfirmed, event = k, "count" \notin unsaved
      PROVE  k \notin told
  <2>1. pc = "fire"
    BY <1>1, FireMoves, Names DEF Fire, IInv
  <2> QED BY <1>1, <2>1 DEF IInv, NewsOK
<1>2. IInv /\ [Next]_vars =>
        [\A k \in Transitions :
           (Sent \/ SentUnconfirmed) /\ event = k /\ "count" \notin unsaved => k \notin told]_vars
  BY <1>1
<1> QED BY <1>2, Invariant, PTL DEF Spec, ToldOnce

\* Two alerts of failure of one kind are a cooldown apart.
THEOREM CooldownKept == Spec => FailuresKeepCooldown
<1>1. ASSUME IInv, [Next]_vars, NEW k \in {"sync_failing", "sync_repeatedly_failing"},
             since'[k] = 0, since[k] # 0, k \notin unsaved
      PROVE  since[k] = Cooldown
  <2> USE DEF IInv
  <2>a. k \in Kinds /\ k # Critical
    BY DEF Kinds, Transitions, Critical
  <2>0. since[k] \in Ages
    BY <1>1, <2>a DEF TypeOK
  <2>1. CASE Fire
    <3>1. event = k
      BY <1>1, <2>a, <2>1, FireMoves
    <3>2. pc = "fire" /\ State = mem
      BY <1>1, <2>a, <2>1, <3>1, FireMoves DEF State
    <3>3. ~NotSent
      BY <1>1 DEF NotSent, Missed
    <3>4. MaySend(k)
      BY <2>1, <3>1, <3>3 DEF Fire, Sent, SentUnconfirmed
    <3>5. mem.sent[k] >= Cooldown
      BY <3>4 DEF MaySend, IgnoresCooldown
    <3>6. mem.sent[k] = since[k]
      BY <1>1, <3>2 DEF StampsOK
    <3> QED BY <2>0, <3>5, <3>6 DEF Ages
  <2>2. CASE Tick
    BY <1>1, <2>a, <2>0, <2>2, TickMoves DEF Ages, Older
  <2>3. CASE since' = since
    BY <1>1, <2>3
  <2> QED
    BY <1>1, <2>1, <2>2, <2>3 DEF Next, Fire, Evaluate, FireCritical, OpenFile, WriteFile, Lost,
       vars, history
<1>2. IInv /\ [Next]_vars =>
        [\A k \in {"sync_failing", "sync_repeatedly_failing"} :
           since'[k] = 0 /\ since[k] # 0 /\ k \notin unsaved => since[k] = Cooldown]_vars
  BY <1>1
<1> QED BY <1>2, Invariant, PTL DEF Spec, FailuresKeepCooldown
===============================================================================
