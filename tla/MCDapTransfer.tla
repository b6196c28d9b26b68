---------------------------- MODULE MCDapTransfer ----------------------------
(***************************************************************************)
(* Instances of DapTransfer for TLC.                                        *)
(***************************************************************************)
EXTENDS DapTransfer

Of(S, k) == [1..k -> S]

\* Every list of up to three requests, every block of up to three.
AllPackets == UNION {Of(Kinds, k) : k \in 0..3}
AllBlocks  == {[j \in 1..k |-> kind] : kind \in Plain \union Writes, k \in 0..3}

\* Single requests.
Singles == Of(Kinds, 1)
=============================================================================
