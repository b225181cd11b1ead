--------------------------- MODULE MCTableManager ---------------------------
(* Small tables: two good rows, or a good one, one that does not scan and   *)
(* one that does not parse.                                                 *)
EXTENDS TableManager, TLC

CONSTANTS r1, r2, bad, odd

MCRows == {r1, r2, bad, odd}
MCUnscannable == {bad}
MCMalformed == {odd}
MCContents == {{r1, r2}, {r1, bad, odd}}
MCManagers == DOMAIN Load
MCAggregator == {"AggregatorManager"}
=============================================================================
