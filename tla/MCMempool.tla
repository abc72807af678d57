----------------------------- MODULE MCMempool -----------------------------
(***************************************************************************)
(* A chain of transactions a - b - c - d in which c also spends a, so that  *)
(* a reorganisation puts parents under a diamond and past the ancestor      *)
(* limit; e is a second child of b; x conflicts with a and e and may replace *)
(* them; m spends a coinbase of the first block and b may not be mined       *)
(* before the second.                                                        *)
(***************************************************************************)
EXTENDS Mempool

MCTxs == {"a", "b", "c", "d", "e", "x", "m"}

MCvin == [a |-> {<<"base", 1>>},
          b |-> {<<"a", 1>>},
          c |-> {<<"a", 2>>, <<"b", 1>>},
          d |-> {<<"c", 1>>},
          e |-> {<<"b", 2>>, <<"base", 2>>},
          x |-> {<<"base", 1>>, <<"base", 2>>},
          m |-> {<<"c1", 1>>}]

MCnFee == [a |-> 1, b |-> 2, c |-> 1, d |-> 3, e |-> 1, x |-> 9, m |-> 1]

MCnLockTime == [t \in MCTxs |-> IF t = "b" THEN 1 ELSE 0]

MCCoinbases == <<{"c1", "e1"}, {"c2"}, {"c3"}>>

MCDeltas == {<<"b", -2>>, <<"c", 4>>}
=============================================================================
