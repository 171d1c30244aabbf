------------------------------ MODULE MCBufferPool ------------------------------
EXTENDS BufferPool, TLC

CONSTANTS b1, b2, b3, a0, a1, a2, a3, v0, v1, v2, v3

\* Buffers are alike, and so are the addresses but those of the common memory.
Symmetry == Permutations(Buffer) \cup Permutations(Addr \ {CommonAddr})
            \cup Permutations(Virt \ {CommonVirt})
=============================================================================
