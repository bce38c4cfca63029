----------------------------- MODULE MCNdRecur ------------------------------
\* Hashes without a collision, as for small non-negative integers, and with one, as Python's
\* hash(-1) = hash(-2).
EXTENDS NdRecur

OwnHash == [v \in Values |-> v]
OneHash == [v \in Values |-> 0]
=============================================================================
