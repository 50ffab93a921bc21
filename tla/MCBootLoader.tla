---------------------------- MODULE MCBootLoader ----------------------------
(* BootLoader with one block, whose first page boundary is behind the end of *)
(* 64K, and a kernel file of three pages and a byte.                         *)
EXTENDS BootLoader

TheBases == {<<17, 62464>>}
TheSizes == {12289}
=============================================================================
