------------------------------- MODULE MemAp --------------------------------
(***************************************************************************)
(* The target's MEM-AP as interface/swd_host.c uses it (external to the    *)
(* repository): an access moves `size` bytes at the aligned address below  *)
(* TAR over the byte lanes of DRW, and TAR advances by the size but never  *)
(* carries out of the auto-increment page.                                 *)
(***************************************************************************)
EXTENDS Integers

Lanes == 0..3

\* The bytes an access of this size reaches through a TAR value.
Touched(tar, size) == LET base == tar - (tar % size) IN base..(base + size - 1)

\* Memory after a DRW write of the lanes w; bytes outside memory are dropped.
Stored(mem, tar, size, w) ==
  [a \in DOMAIN mem |-> IF a \in Touched(tar, size) THEN w[a % 4] ELSE mem[a]]

\* The lanes of a DRW read; lanes that are not part of the access are junk.
Loaded(mem, tar, size, junk) ==
  [l \in Lanes |->
     LET from == {a \in Touched(tar, size) \intersect DOMAIN mem : a % 4 = l}
     IN  IF from = {} THEN junk ELSE mem[CHOOSE a \in from : TRUE]]

NextTar(tar, size, page) == page * (tar \div page) + ((tar + size) % page)
=============================================================================
