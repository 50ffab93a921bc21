----------------------------- MODULE Diagnostics -----------------------------
(***************************************************************************)
(* Debug.c: KeLogf, which sends characters to an output driver, FatalError *)
(* and Uint32ToString; InitPnP (PnP_Mgr.c) is what calls them.  Of a       *)
(* string only what KeLogf tells apart is kept, and of the screen nothing. *)
(* The tables of drivers are there because FatalError detaches the links.  *)
(***************************************************************************)
EXTENDS Tables

CONSTANTS
    Format,     \* the strings KeLogf is called with, from index 0
    Message,    \* the strings of FatalError and InitPnP
    ReadBound,  \* how far behind a string memory may hold anything but a NUL
    MAX_STR_LENGTH_OF_UINT32,   \* 10 in the code
    Number      \* the values that are formatted

\* Characters: x, i and s, then # and @, all others, and the end of a string.
Character == {"escape", "sign", "text", "nul"}

\* digit_divisor after n digits.
DigitDivisor[n \in Nat] == IF n = 0 THEN 1 ELSE 10 * DigitDivisor[n - 1]

\* The loop's WORD is enough for what is read, and ten digits are for a DWORD.
ASSUME ReadAssumption == ReadBound \in Nat \ {0} /\ ReadBound =< 65000
ASSUME StringAssumption ==
    \A string \in Format \union Message :
       \E n \in 0 .. ReadBound : string \in [0 .. n -> Character]
ASSUME NumberAssumption ==
    /\ MAX_STR_LENGTH_OF_UINT32 \in Nat \ {0, 1}
    /\ Number \subseteq Nat
    /\ \A value \in Number : value < DigitDivisor[MAX_STR_LENGTH_OF_UINT32]

VARIABLES
    debug,      \* "idle", in the loop of KeLogf ("log") or its output driver
                \* ("putchar"), in FatalError's BIOS call ("mode") or last loop
                \* ("paint"), or back from Uint32ToString ("number")
    after,      \* what comes after KeLogf returns
    fmt, place, \* of KeLogf: the string, and i at the start of a turn
    obuffer     \* the caller's buffer, from the byte before it on

debugVars == <<tables, debug, after, fmt, place, obuffer>>

DebugInit ==
    /\ TablesInit
    /\ debug = "idle" /\ after = "idle"
    /\ fmt = << >> /\ place = 0
    /\ obuffer = << >>

StartLog(format, next) ==
    debug' = "log" /\ after' = next /\ fmt' = format /\ place' = 0

KeLogf(format) ==
    /\ debug = "idle"
    /\ StartLog(format, "idle")
    /\ UNCHANGED <<tables, obuffer>>

\* What fmt[k] may be: behind the string, whatever memory holds.
CharAt(k) ==
    IF k \in DOMAIN fmt THEN {fmt[k]} ELSE IF k =< ReadBound THEN Character ELSE {"nul"}

\* One turn of the loop.  ch is the first character for good, and `else if ('#')'
\* is always true, so that every turn takes a character for a format escape: the
\* second, the fifth and so on, past the end of the string if need be.  # and @ go to
\* the output driver.  A variant skips one character instead of two.
SkippedOne == 1
Skipped == 2
KeLogfTurn ==
    /\ debug = "log"
    /\ fmt[0] # "nul"
    /\ \E ch \in CharAt(place + Skipped - 1) \cap {"escape", "sign"} :
          debug' = IF ch = "sign" THEN "putchar" ELSE debug
    /\ place' = (place + Skipped + 1) % 65536
    /\ UNCHANGED <<tables, after, fmt, obuffer>>

\* FailSilent
KeLogfEnds == fmt[0] = "nul" \/ CharAt(place + Skipped - 1) \cap {"text", "nul"} # {}

\* Back in what called: its locals are gone.
Return == debug' = "idle" /\ after' = "idle" /\ fmt' = << >> /\ place' = 0

KeLogfReturn ==
    /\ debug = "log"
    /\ KeLogfEnds
    /\ \/ after = "paint" /\ debug' = "paint" /\ UNCHANGED <<after, fmt, place>>
       \/ after = "idle" /\ Return
    /\ UNCHANGED <<tables, obuffer>>

\* After its complaint InitPnP calls FatalError: the links, then text mode 3.
FatalError ==
    /\ debug = "log"
    /\ KeLogfEnds
    /\ after = "fatal"
    /\ ScOnErrorDetatchLinks
    /\ debug' = "mode" /\ after' = "paint" /\ fmt' = << >> /\ place' = 0
    /\ UNCHANGED obuffer

\* ScVirtual86_Int comes back to _KernelPutchar or FatalError, if it does (see V86).
BiosReturns ==
    /\ \/ debug = "putchar" /\ debug' = "log" /\ UNCHANGED <<after, fmt, place>>
       \/ debug = "mode" /\ \E format \in Message : StartLog(format, after)
    /\ UNCHANGED <<tables, obuffer>>

\* The loop over the screen.
Paint ==
    /\ debug = "paint"
    /\ Return
    /\ UNCHANGED <<tables, obuffer>>

\* InitPnP, which complains if interrupts are on.
InitPnP ==
    /\ debug = "idle"
    /\ \E format \in Message : StartLog(format, "fatal")
    /\ UNCHANGED <<tables, obuffer>>

\* Uint32ToString: the buffer is cleared, and the digits are put in from the last
\* but one place down.
Uint32ToString(value) ==
    /\ debug = "idle"
    /\ LET last == MAX_STR_LENGTH_OF_UINT32 - 2
       IN  obuffer' = [k \in -1 .. MAX_STR_LENGTH_OF_UINT32 - 1 |->
             IF k =< last THEN (value \div DigitDivisor[last - k]) % 10 ELSE 98]
    /\ debug' = "number"
    /\ UNCHANGED <<tables, after, fmt, place>>

NumberUsed ==
    /\ debug = "number"
    /\ debug' = "idle"
    /\ obuffer' = << >>
    /\ UNCHANGED <<tables, after, fmt, place>>

DebugStep ==
    \/ KeLogfTurn \/ KeLogfReturn \/ FatalError \/ BiosReturns \/ Paint \/ NumberUsed
    \/ InitPnP
    \/ \E format \in Format : KeLogf(format)
    \/ \E value \in Number : Uint32ToString(value)
Registration == debug = "idle" /\ TablesCall /\ UNCHANGED <<debug, after, fmt, place, obuffer>>
DebugNext == Registration \/ DebugStep

DebugSpec == DebugInit /\ [][DebugNext]_debugVars

-----------------------------------------------------------------------------
(* Properties *)

\* place is a WORD, and a turn starts three characters behind the one before.
DebugTypeOK ==
    /\ TablesTypeOK
    /\ debug \in {"idle", "log", "putchar", "mode", "paint", "number"}
    /\ after \in {"idle", "fatal", "paint"}
    /\ place \in Nat /\ place < 65536 /\ place % 3 = 0
    /\ debug # "number" => obuffer = << >>

\* From ScOnErrorDetatchLinks to the end of FatalError, with its BIOS calls, no
\* interrupt is captured by a link: "it is necessary to remove all V86 links so that
\* a bluescreen can be generated" (V86.c 91-92).
LinksDetached ==
    after = "paint" => \A v \in VINT : v86_capture_chain[v].next = NULL
=============================================================================
