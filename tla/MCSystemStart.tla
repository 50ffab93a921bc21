---------------------------- MODULE MCSystemStart ----------------------------
(* SystemStart with blocks before, behind and across the end of 64K, files   *)
(* from no page to three and a byte, a timer and a slave line, calls of the  *)
(* vectors at the ends of each range of the IDT, tables of two places, and   *)
(* strings of which KeLogf finds the end, goes past it or goes on to the     *)
(* end of what can be read.                                                  *)
EXTENDS SystemStart

SomeBases == {<<17, 61440>>, <<17, 1024>>, <<17, 62464>>}
SomeSizes == {0, 4095, 4096, 8192, 12289}
TssAt == <<49153, 9152>>
LdtAt == <<49152, 48064>>
SomeMasks == {{}, {0, 9}, Line \ {0, 1, 2}}
Calls == {0, 13, 14, 15, 31, 32, 47, 48, 49, 128, 206, 207, 255}

\* A string: its characters and the NUL.
String(text) ==
    [k \in 0 .. Len(text) |-> IF k < Len(text) THEN text[k + 1] ELSE "nul"]
SomeFormats ==
    {String(<< >>), String(<<"text", "escape", "sign", "text", "sign", "text">>),
     String(<<"sign", "sign">>)}
SomeMessages == {String(<<"text", "text", "text">>)}
SomeNumbers == {0, 9, 105, 999}
=============================================================================
