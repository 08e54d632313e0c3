----------------------------- MODULE MCRetrieval ------------------------------
(* Two red wines, one of them for beef; a wine of no level 2; a gin of no category. *)
EXTENDS Retrieval

CONSTANTS claret, rioja, rose, gin, beef, fish, dessert

MCLevel1 == (claret :> "wine") @@ (rioja :> "wine") @@ (rose :> "wine") @@ (gin :> Unknown)
MCLevel2 == (claret :> "red") @@ (rioja :> "red") @@ (rose :> Unknown) @@ (gin :> Unknown)
MCTags == (claret :> {beef}) @@ (rioja :> {fish, dessert}) @@ (rose :> {}) @@ (gin :> {dessert})
MCBody == (claret :> 9) @@ (rioja :> 12) @@ (rose :> Unknown) @@ (gin :> 4)
MCSmoke == (claret :> 0) @@ (rioja :> 0) @@ (rose :> 2) @@ (gin :> 9)
MCKeywords == [oxfile |-> {beef}, ostron |-> {fish, dessert}]

Says(keys, high, low, smoky, echo, a, b, c, d) ==
  [keys |-> keys, high |-> high, low |-> low, smoky |-> smoky, echo |-> echo,
   sim |-> (claret :> a) @@ (rioja :> b) @@ (rose :> c) @@ (gin :> d)]

(* A dish that a name echoes; one with two symbols, far from all; a smoky query; *)
(* words for a light body only; two names that echo, one of them for the dish.    *)
MCTexts == {
  Says({"oxfile"}, FALSE, FALSE, FALSE, {rose}, 27, 27, 48, 20),
  Says({"ostron"}, TRUE, FALSE, FALSE, {}, 5, 0, 20, 10),
  Says({}, FALSE, FALSE, TRUE, {}, 30, 33, 36, 27),
  Says({}, FALSE, TRUE, FALSE, {gin}, 0, 45, 30, 45),
  Says({"oxfile", "ostron"}, TRUE, TRUE, FALSE, {claret, rose}, 40, 38, 50, 27)}
MCColumns == {{claret, rioja, rose, gin}, {claret, rose, gin}}
===============================================================================
