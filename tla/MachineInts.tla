---------------------------- MODULE MachineInts -----------------------------
(***************************************************************************)
(* The integers of fixed width that big.Ints are turned into.  The widths  *)
(* are parameters, so that a small instance has values beyond them.        *)
(***************************************************************************)
EXTENDS Integers

CONSTANTS Word8, Word32, Word64, Word256  \* 2^8, 2^32, 2^64 and 2^256

ASSUME WordAssumption == \A w \in {Word8, Word32, Word64, Word256} : w \in Nat \ {0} /\ w % 2 = 0

\* x.Uint64(), uint8(x) and the ABI's uint256; x.Int64() and int32(x).
Unsigned(n, w) == n % w
Signed(n, w) == LET m == n % w IN IF 2 * m >= w THEN m - w ELSE m
=============================================================================
