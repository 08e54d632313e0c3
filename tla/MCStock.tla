------------------------------- MODULE MCStock --------------------------------
(* Stock for two stores and two products.  One store is empty, or lists both   *)
(* on two pages, either way round and with another level, or one on one page;  *)
(* the other, which may leave the subset, is empty or lists one product.       *)
EXTENDS Stock, TLC
CONSTANTS s1, s2, p1, p2, few, many

L(a, b) == [p \in Products |-> IF p = p1 THEN a ELSE b]

MCHomes   == {{s1}, {s1, s2}}
MCShelves == s1 :> {<<Blank, Blank>>, <<L(few, Off), L(Off, few)>>,
                    <<L(Off, few), L(many, Off)>>, <<L(many, Off), Blank>>}
             @@ s2 :> {<<Blank, Blank>>, <<L(few, Off), Blank>>}
===============================================================================
