------------------------------ MODULE Retrieval -------------------------------
(***************************************************************************)
(* The three tools that answer from embeddings: a dish is paired with      *)
(* drinks (pairing/), a query is searched by meaning and a product is      *)
(* compared with its neighbours (mcp_server/tools/semantic_search.py,      *)
(* find_similar_products.py), while syncs commit in between.               *)
(*                                                                         *)
(* A text is what the code finds in it: keywords, words for a heavy or a   *)
(* light body, product names it echoes; and how similar each product is to *)
(* it.  Signals are integers in units of 1/60, totals in units of 1/2400:  *)
(* the weights 0.45, 0.30, 0.15 and 0.10 are exact there.                  *)
(***************************************************************************)
EXTENDS Integers, FiniteSets, Sequences, SequencesExt

CONSTANTS
  Products,      \* rows with an embedding
  Level1, Level2, \* category_level_1 and _2 of each product, Unknown without one
  Tags,          \* taste_symbols of each product
  Body,          \* taste_clock_body of each product, Unknown without one
  Unknown,
  Spirits,       \* products of the penalised categories
  Columns,       \* what price, category and alcohol-free may leave: sets of products
  Smoke,         \* 0.15 * taste_clock_smokiness / 11 of each product, in 1/60
  Symbols, Heavy, Light, SpiritFriendly,  \* taste symbols, and three kinds of them
  Keywords,      \* _KEYWORD_SYMBOLS: the symbols of each keyword
  Texts,         \* what a user may say, see TextType
  Hints,         \* taste_symbols_hint: sets of symbols, {} for none
  Mins,          \* min_similarity, 0 for none
  Limits,        \* limit, at least 1
  Pool, PerPick, \* _CANDIDATE_POOL, and the candidates for each product of the answer, 5
  InjectN,       \* _SYMBOL_INJECT_N
  HighAt         \* strong matches for high confidence, 5

Unit   == 60
Floor  == 720  \* _RELEVANCE_FLOOR
Strong == 27   \* STRONG_USAGE

TextType == [keys : SUBSET DOMAIN Keywords, high : BOOLEAN, low : BOOLEAN, smoky : BOOLEAN,
             echo : SUBSET Products, sim : [Products -> 0 .. Unit]]

ASSUME TablesAssumption ==
  /\ Tags \in [Products -> SUBSET Symbols]
  /\ Body \in [Products -> (0 .. 12) \cup {Unknown}]
  /\ Smoke \in [Products -> 0 .. 9]
  /\ \A k \in DOMAIN Keywords : Keywords[k] \subseteq Symbols
  /\ Spirits \subseteq Products /\ Columns \subseteq SUBSET Products
  /\ Texts \subseteq TextType /\ Hints \subseteq SUBSET Symbols
ASSUME SizesAssumption ==
  /\ IsFiniteSet(Products)
  /\ IsFiniteSet(Symbols) /\ Cardinality(Symbols) <= Unit  \* a shared symbol counts
ASSUME NumbersAssumption ==
  /\ Unknown \notin Products \cup 0 .. 12
  /\ Mins \subseteq 0 .. Unit
  /\ Limits \cup {Pool, PerPick, InjectN, HighAt} \subseteq Nat \ {0}

VARIABLES
  gone,       \* products with is_discontinued
  stocked,    \* products in stock at the store that requests name
  stage,      \* where the call is
  req,        \* what was asked
  cands,      \* candidates as read from the database
  order,      \* the pool they are picked from, best first
  at,         \* the next place of the pool
  picked,     \* what the answer holds so far
  confidence,
  belied,     \* products whose rows, as read for the answer, say what was not asked for
  fits,       \* history: the products the request allowed when they were ranked
  changed     \* history: ranked products that a sync has changed before their rows are read

recorded == <<fits, changed>>
call == <<req, cands, order, at, picked, confidence, belied, recorded>>
retVars == <<gone, stocked, stage, call>>

\* "of" is the product that neighbours are asked for, "near" that they be of its
\* category; its embedding takes the place of the text's.
Asked(kind, hints, sources, near, mins) ==
  [kind : {kind}, text : Texts, hint : hints, of : sources, near : near, min : mins,
   within : Columns, store : BOOLEAN, limit : Limits]
Requests ==
  Asked("pair", Hints, {Unknown}, {FALSE}, {0})
    \cup Asked("semantic", {{}}, {Unknown}, {FALSE}, Mins)
    \cup Asked("similar", {{}}, Products, BOOLEAN, {0})
NoRequest == [kind |-> "none"]

RetTypeOK ==
  /\ gone \in SUBSET Products /\ stocked \in SUBSET Products
  /\ stage \in {"idle", "embed", "rank", "score", "spread", "fill", "rows", "done"}
  /\ req \in Requests \cup {NoRequest}
  /\ cands \in SUBSET Products
  /\ order \in Seq(Products) /\ picked \in Seq(Products)
  /\ req # NoRequest => Len(picked) <= req.limit
  /\ at \in 1 .. Len(order) + 1
  /\ confidence \in {"none", "low", "medium", "high"}
  /\ belied \in SUBSET Products /\ fits \in SUBSET Products /\ changed \in SUBSET Products

RetInit ==
  /\ gone = {}
  /\ stocked \in SUBSET Products
  /\ stage = "idle"
  /\ req = NoRequest
  /\ cands = {} /\ order = <<>> /\ at = 1 /\ picked = <<>>
  /\ confidence = "none"
  /\ belied = {} /\ fits = {} /\ changed = {}

-------------------------------------------------------------------------------
(* infer_profile *)

Words(field) == req.text[field]

Inferred == req.hint \cup UNION {Keywords[k] : k \in Words("keys")}

\* _default_body_for
DefaultBody ==
  CASE Inferred \cap Heavy # {} -> 9
    [] Inferred \cap Heavy = {} /\ Inferred \cap Light # {} -> 4
    [] OTHER -> 6

BodyTarget ==
  CASE Words("high") /\ ~Words("low")   -> 10
    [] Words("low") /\ ~Words("high")   -> 4
    [] OTHER -> IF Inferred = {} THEN Unknown ELSE DefaultBody

HasSignal == Inferred # {} \/ Words("high") \/ Words("low")

-------------------------------------------------------------------------------
(* score_candidates *)

Sim(c) == Words("sim")[c]

SymbolMatch(c) ==
  IF Inferred = {} THEN 0
  ELSE (Unit * Cardinality(Inferred \cap Tags[c])) \div Cardinality(Inferred)

ClockFit(c) ==
  CASE BodyTarget = Unknown -> Unit \div 2
    [] BodyTarget # Unknown /\ Body[c] = Unknown -> 24
    [] OTHER -> LET steps == IF Body[c] > BodyTarget THEN Body[c] - BodyTarget
                             ELSE BodyTarget - Body[c]
                IN  IF steps > 6 THEN 0 ELSE Unit - 10 * steps

CategoryPrior(c) ==
  CASE c \notin Spirits -> Unit
    [] c \in Spirits /\ Inferred \cap SpiritFriendly # {} -> 36
    [] OTHER -> 0

\* Mutant: the guard strikes whatever the symbols say.
EchoesAtAll(c) == c \in Words("echo")

\* The name echoes the dish, and no symbol supports it.
OnlyEchoes(c) == c \in Words("echo") /\ SymbolMatch(c) = 0

Points(c) == 9 * Sim(c) + 6 * SymbolMatch(c) + 3 * ClockFit(c) + 2 * CategoryPrior(c)
Total(c)  == IF OnlyEchoes(c) THEN Points(c) ELSE 2 * Points(c)

\* The ways to list a set by falling totals; the sort is stable, and candidates come
\* in the order of their similarity.
Ranked(set, total) ==
  {s \in SetToSeqs(set) :
     \A i, j \in 1 .. Len(s) :
       i < j => \/ total[s[i]] > total[s[j]]
                \/ total[s[i]] = total[s[j]] /\ Sim(s[i]) >= Sim(s[j])}

\* compute_confidence
Confidence ==
  LET matching == {c \in cands : SymbolMatch(c) > 0}
      strong   == {c \in matching : Sim(c) >= Strong}
  IN  CASE HasSignal /\ Cardinality(strong) >= HighAt -> "high"
        [] HasSignal /\ Cardinality(strong) < HighAt /\ matching # {} -> "medium"
        [] OTHER -> "low"

-------------------------------------------------------------------------------
(* A call of a tool *)

Goto(place) == stage' = place

Ask ==
  /\ stage = "idle"
  /\ req' \in Requests
  /\ Goto(IF req'.kind = "similar" THEN "rank" ELSE "embed")
  /\ UNCHANGED <<gone, stocked, cands, order, at, picked, confidence, belied, recorded>>

\* The answer is given, nothing is kept.
Answer ==
  /\ stage = "done"
  /\ Goto("idle")
  /\ req' = NoRequest
  /\ cands' = {} /\ order' = <<>> /\ at' = 1 /\ picked' = <<>>
  /\ confidence' = "none" /\ belied' = {} /\ fits' = {} /\ changed' = {}
  /\ UNCHANGED <<gone, stocked>>

Embedded ==
  /\ stage = "embed"
  /\ Goto("rank")
  /\ UNCHANGED <<gone, stocked, call>>

\* The embedding server does not answer, or the dish is blank: an empty pairing, or
\* an error.
EmbedFails ==
  /\ stage = "embed"
  /\ Goto("done")
  /\ confidence' = IF req.kind = "pair" THEN "low" ELSE "none"
  /\ UNCHANGED <<gone, stocked, req, cands, order, at, picked, belied, recorded>>

\* A sync has the file open for writing: the reader is refused, the tool fails.
ReadFails ==
  /\ stage \in {"rank", "rows"}
  /\ Goto("done")
  /\ picked' = <<>>
  /\ UNCHANGED <<gone, stocked, req, cands, order, at, confidence, belied, recorded>>

\* same_category_only goes by level 2; by level 1 for a product without a level 2, and
\* then finds those that have one, too; and not at all for a product without either.
SameCategory(of) ==
  CASE Level2[of] # Unknown -> {p \in Products : Level2[p] = Level2[of]}
    [] Level2[of] = Unknown /\ Level1[of] # Unknown -> {p \in Products : Level1[p] = Level1[of]}
    [] OTHER -> Products

\* Mutant: a product that is not sold any more may be found.
FittingDropped ==
  {p \in req.within \ {req.of} :
     /\ req.store => p \in stocked
     /\ req.hint # {} => Tags[p] \cap req.hint # {}
     /\ req.near => p \in SameCategory(req.of)}

\* The WHERE clause.
Fitting ==
  {p \in req.within \ (gone \cup {req.of}) :
     /\ req.store => p \in stocked
     /\ req.hint # {} => Tags[p] \cap req.hint # {}
     /\ req.near => p \in SameCategory(req.of)}

\* max(50, limit * 5)
PoolSize == IF Pool < PerPick * req.limit THEN PerPick * req.limit ELSE Pool

\* rows_to_products: of the products, those whose row now says that they are dropped,
\* or sold out where stock was asked for.
Belied(products) == {p \in products : p \in gone \/ (req.store /\ p \notin stocked)}

\* ORDER BY distance LIMIT n: the n nearest, ties broken anyhow.
Nearest(set, n) ==
  {near \in SUBSET set :
     /\ Cardinality(near) = IF Cardinality(set) < n THEN Cardinality(set) ELSE n
     /\ \A p \in near : \A q \in set \ near : Sim(p) >= Sim(q)}

\* Mutant: the second query has no WHERE clause but its own.
TaggedOfAll == {p \in Products : Tags[p] \cap Inferred # {}}

\* Mutant: the second query looks for the symbols of the hint only.
TaggedByHint == {p \in Fitting : Tags[p] \cap req.hint # {}}

Tagged == {p \in Fitting : Tags[p] \cap Inferred # {}}

\* _fetch_candidates: one connection, so no sync commits between its two queries and
\* the rows.
PairFetch ==
  /\ stage = "rank" /\ req.kind = "pair"
  /\ \E pool \in Nearest(Fitting, PoolSize) : \E injected \in Nearest(Tagged, InjectN) :
       cands' = pool \cup injected
  /\ belied' = Belied(cands')
  /\ fits' = Fitting
  /\ Goto(IF cands' = {} THEN "done" ELSE "score")
  /\ confidence' = "low"
  /\ UNCHANGED <<gone, stocked, req, order, at, picked, changed>>

\* diversify takes the candidates above the floor, or all if there are none.
Relevant == {c \in cands : Total(c) >= Floor}

PairScore ==
  /\ stage = "score"
  /\ order' \in Ranked(IF Relevant = {} THEN cands ELSE Relevant, [c \in cands |-> Total(c)])
  /\ confidence' = Confidence
  /\ Goto("spread")
  /\ UNCHANGED <<gone, stocked, req, cands, at, picked, belied, recorded>>

\* Mutant: the limit is compared before the pick is counted.
PutBeforeLimit(next) ==
  /\ picked' = Append(picked, order[at])
  /\ at' = at + 1
  /\ Goto(IF Len(picked) >= req.limit THEN "done" ELSE next)

Put(next) ==
  /\ picked' = Append(picked, order[at])
  /\ at' = at + 1
  /\ Goto(IF Len(picked') >= req.limit THEN "done" ELSE next)

\* The category that diversify goes by, Unknown for its "other".  Categories differ by
\* more than the case of their letters.
Bucket == [p \in Products |-> IF Level2[p] # Unknown THEN Level2[p] ELSE Level1[p]]

Seen == {Bucket[picked[i]] : i \in 1 .. Len(picked)}

\* The first loop takes the best of each bucket.
Spread ==
  /\ stage = "spread"
  /\ at <= Len(order)
  /\ IF Bucket[order[at]] \in Seen
     THEN at' = at + 1 /\ UNCHANGED <<picked, stage>>
     ELSE Put("spread")
  /\ UNCHANGED <<gone, stocked, req, cands, order, confidence, belied, recorded>>

SpreadDone ==
  /\ stage = "spread"
  /\ at > Len(order)
  /\ at' = 1
  /\ Goto("fill")
  /\ UNCHANGED <<gone, stocked, req, cands, order, picked, confidence, belied, recorded>>

\* Mutant: the second loop looks for buckets, too.
LeftOutByBucket(c) == Bucket[c] \notin Seen

LeftOut(c) == c \notin ToSet(picked)

\* The second loop fills up with what is left, best first.
Fill ==
  /\ stage = "fill"
  /\ at <= Len(order)
  /\ IF LeftOut(order[at]) THEN Put("fill")
     ELSE at' = at + 1 /\ UNCHANGED <<picked, stage>>
  /\ UNCHANGED <<gone, stocked, req, cands, order, confidence, belied, recorded>>

FillDone ==
  /\ stage = "fill"
  /\ at > Len(order)
  /\ Goto("done")
  /\ UNCHANGED <<gone, stocked, call>>

-------------------------------------------------------------------------------
(* semantic_search and find_similar_products *)

\* The first "limit" of a sequence.
Cut(s) == [i \in 1 .. IF Len(s) < req.limit THEN Len(s) ELSE req.limit |-> s[i]]

Boosted(c) == IF Sim(c) + Smoke[c] > Unit THEN Unit ELSE Sim(c) + Smoke[c]

\* A query for smoke takes more candidates and orders them anew; the connection is
\* closed before the rows are read.
SearchRank ==
  /\ stage = "rank" /\ req.kind = "semantic"
  /\ LET n == IF Words("smoky") THEN PoolSize ELSE req.limit
         score == [c \in Fitting |-> IF Words("smoky") THEN Boosted(c) ELSE Sim(c)]
     IN  \E near \in Nearest(Fitting, n) :
           \E s \in Ranked({c \in near : score[c] >= req.min}, score) : order' = Cut(s)
  /\ fits' = Fitting
  /\ Goto(IF order' = <<>> THEN "done" ELSE "rows")
  /\ UNCHANGED <<gone, stocked, req, cands, at, picked, confidence, belied, changed>>

\* The second connection.  Rows are never deleted, each is found again; what they say
\* is of another moment.
SearchRows ==
  /\ stage = "rows"
  /\ picked' = order
  /\ belied' = Belied(ToSet(order))
  /\ Goto("done")
  /\ UNCHANGED <<gone, stocked, req, cands, order, at, confidence, recorded>>

\* The neighbours of a product, ranked and read on one connection.
Similar ==
  /\ stage = "rank" /\ req.kind = "similar"
  /\ \E near \in Nearest(Fitting, req.limit) : \E s \in Ranked(near, Words("sim")) : picked' = s
  /\ belied' = Belied(ToSet(picked'))
  /\ fits' = Fitting
  /\ Goto("done")
  /\ UNCHANGED <<gone, stocked, req, cands, order, at, confidence, changed>>

\* A sync commits: a product is dropped or comes back, is sold out or delivered.
SyncCommits ==
  /\ \E p \in Products :
       /\ \/ gone' \in {gone \cup {p}, gone \ {p}} /\ UNCHANGED stocked
          \/ stocked' \in {stocked \cup {p}, stocked \ {p}} /\ UNCHANGED gone
       /\ changed' = IF stage = "rows" /\ p \in ToSet(order) THEN changed \cup {p} ELSE changed
  /\ UNCHANGED <<stage, req, cands, order, at, picked, confidence, belied, fits>>

PairStep   == PairFetch \/ PairScore \/ Spread \/ SpreadDone \/ Fill \/ FillDone
SearchStep == SearchRank \/ SearchRows \/ Similar

RetNext == Ask \/ Embedded \/ EmbedFails \/ ReadFails \/ PairStep \/ SearchStep \/ Answer \/ SyncCommits

RetSpec == RetInit /\ [][RetNext]_retVars

-------------------------------------------------------------------------------
(* Properties *)

\* The place of the pool is the first of its bucket.
First(i) == \A j \in 1 .. i - 1 : Bucket[order[j]] # Bucket[order[i]]

\* One place of the pool goes before another.
Before(i, j) == IF First(i) <=> First(j) THEN i < j ELSE First(i)

\* What the two loops of diversify come to: the best of each category in order of
\* rank, then the rest in order of rank, cut at the limit.
PicksAreSpread ==
  stage = "done" /\ order # <<>> /\ req.kind = "pair" =>
    \E place \in [1 .. Len(picked) -> 1 .. Len(order)] :
      /\ \A n \in 1 .. Len(picked) : picked[n] = order[place[n]]
      /\ \A m, n \in 1 .. Len(picked) : m < n => Before(place[m], place[n])
      /\ \A i \in 1 .. Len(order) :
           \/ \E n \in 1 .. Len(picked) : place[n] = i
           \/ Len(picked) = req.limit /\ \A n \in 1 .. Len(picked) : Before(place[n], i)

\* Whatever query has brought a product in, the request allowed it when the products
\* were ranked: on sale, in budget, in stock, of the symbols and of the category asked
\* for; the answer names it once, and a search leaves out nothing nearer than what it
\* gives.
AnswerFits ==
  stage = "done" =>
    /\ ToSet(picked) \subseteq fits
    /\ Cardinality(ToSet(picked)) = Len(picked)
    /\ picked # <<>> /\ req.kind # "pair" /\ ~(req.kind = "semantic" /\ Words("smoky")) =>
         \A p \in fits \ ToSet(picked) :
           \/ Sim(p) < req.min
           \/ Len(picked) = req.limit /\ \A q \in ToSet(picked) : Sim(q) >= Sim(p)

\* What an answer says of its products agrees with what was asked for: dropped or sold out
\* ones are shown only by semantic_search, which ranks on one connection and reads the
\* rows on the next, and only when a sync has changed the product in between.
ShownAsAsked ==
  stage = "done" =>
    \A p \in ToSet(picked) \cap belied : req.kind = "semantic" /\ p \in changed

\* Low confidence means that nothing the request allows carries a symbol of the dish,
\* not that the pool of nearest products happened to hold none.
ConfidenceIsHonest ==
  stage \in {"spread", "fill"} =>
    (confidence = "low" <=> \A p \in fits : Tags[p] \cap Inferred = {})

AsGood(c, d) ==
  /\ Sim(c) >= Sim(d) /\ SymbolMatch(c) >= SymbolMatch(d)
  /\ ClockFit(c) >= ClockFit(d) /\ CategoryPrior(c) >= CategoryPrior(d)

Lexical(c) == c \in Words("echo") /\ Tags[c] \cap Inferred = {}

\* The guard against names does what it is for and no more: of two candidates, one as
\* good in every signal and better in one, or as good and without a mere echo in its
\* name, is never ranked behind.
NoLexicalLuck ==
  stage = "spread" =>
    \A i, j \in 1 .. Len(order) :
      LET c == order[j]
          d == order[i]
      IN  ~ /\ i < j
            /\ AsGood(c, d)
            /\ Lexical(c) => Lexical(d)
            /\ ~AsGood(d, c) \/ (Lexical(d) /\ ~Lexical(c) /\ Points(c) > 0)
===============================================================================
