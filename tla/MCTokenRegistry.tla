-------------------------- MODULE MCTokenRegistry --------------------------
(* Chains one of which changes its gas token, and one that does not scan; a *)
(* table token that is a gas token, one that shares the gas token's address,*)
(* one of a gas token's name that does not scan, two rows with one name, a  *)
(* row without a chain id; texts with blanks in a row, a chain and the two  *)
(* added tokens: one with the gas token's address, one with its name.       *)
EXTENDS TokenRegistry

ChainA == [id |-> 1, name |-> "A ", backend |-> "dial", gas |-> "eth", gasAddr |-> "zero"]
ChainA2 == [ChainA EXCEPT !.gas = "bnb"]
ChainB == [id |-> 2, name |-> "B", backend |-> "ton", gas |-> "ton", gasAddr |-> "zero"]
ChainBad == [id |-> 3, name |-> "C", backend |-> "sui", gas |-> "sui", gasAddr |-> "zero"]

Row(i, c, cid, n, a) == [id |-> i, chain |-> c, cid |-> cid, name |-> n, addr |-> a]
RowBad == Row(5, "A", 1, "bnb", "0x3")

MCChainTables == {{ChainA, ChainB}, {ChainA2, ChainBad}}
MCTokenTables == {{Row(1, "A", 1, "eth", "zero"), Row(2, "A", 1, "eth", "0x1")},
                  {Row(3, "A", 1, "weth ", "zero"), Row(4, "B", 0, "usdt", "0x2"), RowBad}}
MCBadRows == {ChainBad, RowBad}
MCAddedTokens == {Row(0, "A", 0, "new ", "zero"), Row(0, "A", 0, "eth", "0x1 ")}
MCPadded == [x \in {"A ", "weth ", "new ", "0x1 "} |->
               CASE x = "A " -> "A" [] x = "weth " -> "weth" [] x = "new " -> "new"
                 [] x = "0x1 " -> "0x1"]
=============================================================================
