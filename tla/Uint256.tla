------------------------------ MODULE Uint256 ------------------------------
(***************************************************************************)
(* base_blob<BITS> of src/services/src/uint256.h: a fixed array of WIDTH  *)
(* bytes with no integer operations.  A blob is a sequence of WIDTH       *)
(* bytes, data[0] first; a byte is a value of Bytes (0..255 in the code). *)
(* The comparison operators are memcmp over the array, so the order of a  *)
(* std::set<uint256> is that of the first differing stored byte, not of   *)
(* the number GetHex displays (which prints data[WIDTH-1] first).         *)
(***************************************************************************)
EXTENDS Integers, Sequences

CONSTANTS WIDTH, Bytes

ASSUME WIDTH \in Nat \ {0} /\ Bytes \subseteq 0..255 /\ 0 \in Bytes

Blobs == [1..WIDTH -> Bytes]

\* base_blob(): memset(data, 0, sizeof(data)); SetNull does the same.
NullBlob == [i \in 1..WIDTH |-> 0]

IsNull(b) == \A i \in 1..WIDTH : b[i] = 0

\* memcmp: the sign of the first differing byte, compared as unsigned char,
\* or 0 when the arrays are equal.
RECURSIVE Memcmp(_, _, _)
Memcmp(a, b, i) ==
    IF i > WIDTH THEN 0
    ELSE IF a[i] < b[i] THEN -1
    ELSE IF a[i] > b[i] THEN 1
    ELSE Memcmp(a, b, i + 1)

Equal(a, b) == Memcmp(a, b, 1) = 0
NotEqual(a, b) == Memcmp(a, b, 1) # 0

Less(a, b) == Memcmp(a, b, 1) < 0

\* Get64(n): data[2n] | (uint64_t)data[2n+1] << 32, as the code writes it.
Get64(b, n) == (b[2 * n + 1] + b[2 * n + 2] * 2^32) % 2^64
=============================================================================
