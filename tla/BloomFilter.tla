---------------------------- MODULE BloomFilter -----------------------------
(***************************************************************************)
(* The Bloom filter of bloom-filter/bloomfilter.h: BloomFilter<N>::set and *)
(* test over the bytes of BitSet<N>.  The three hash functions are a       *)
(* parameter: nothing is asked of them but that they are functions.        *)
(***************************************************************************)
EXTENDS Integers

CONSTANTS
  N,        \* the number of bits
  Key,      \* what may be put into the filter
  Position  \* Position[k]: H1, H2 and H3 of k, each modulo N

bitSize == IF N % 8 = 0 THEN N \div 8 ELSE N \div 8 + 1

Assumption ==
  /\ N \in Nat \ {0}
  /\ Position \in [Key -> [1..3 -> 0..N - 1]]

VARIABLES
  bitArr,  \* the bytes, each the set of its bits that are 1
  added    \* the keys that set has been called with

vars == <<bitArr, added>>

\* new char[bitSize] does not clear the bytes.
Init ==
  /\ bitArr \in [0..bitSize - 1 -> {{}, {0, 6}, 0..7}]
  /\ added = {}

\* Mutation: = instead of |=.
AssignBit(arr, x) == [arr EXCEPT ![x \div 8] = {x % 8}]

SetBit(arr, x) == [arr EXCEPT ![x \div 8] = @ \cup {x % 8}]

TestBit(x) == x % 8 \in bitArr[x \div 8]

Set(k) ==
  /\ bitArr' = SetBit(SetBit(SetBit(bitArr, Position[k][1]), Position[k][2]), Position[k][3])
  /\ added' = added \cup {k}

Test(k) == TestBit(Position[k][1]) /\ TestBit(Position[k][2]) /\ TestBit(Position[k][3])

Next == \E k \in Key : Set(k)

-----------------------------------------------------------------------------

\* set and test agree on where a key's bits are, keys may share bytes and bits,
\* and nothing ever clears a bit: test never denies what was put in.
NoFalseNegatives == \A k \in added : Test(k)
=============================================================================
