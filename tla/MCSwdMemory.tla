---------------------------- MODULE MCSwdMemory -----------------------------
(***************************************************************************)
(* Instances of SwdMemory for TLC: a page of 8 bytes in 20 bytes of memory *)
(* gives calls that start unaligned, cross a page and end with bytes.      *)
(***************************************************************************)
EXTENDS SwdMemory

Req(k, a, n) == [kind |-> k, addr |-> a, size |-> n]

\* From 3, a byte, a word to the end of the page, a block of two words and bytes;
\* from 4, a word and then one that ends within the page; single bytes and words; an
\* empty call.
MixedRequests == {Req(k, a, n) : k \in {"read", "write"}, a \in {3, 4}, n \in {1, 4}}
                 \union {Req(k, 3, 15) : k \in {"read", "write"}}
                 \union {Req(k, 4, 11) : k \in {"read", "write"}}
                 \union {Req("write", 5, 0)}
ShortRequests == {Req(k, a, n) : k \in {"read", "write"}, a \in {4, 6}, n \in {1, 4}}
=============================================================================
