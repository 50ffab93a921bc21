-------------------------- MODULE Diagnostics_proof --------------------------
(***************************************************************************)
(* Proofs about Diagnostics and the tables of Tables.tla: what was         *)
(* accepted stays where it was put, for tables and drivers of any number;  *)
(* no link is left when FatalError goes on; where the digits of any number *)
(* go.                                                                     *)
(***************************************************************************)
EXTENDS Diagnostics, SequenceTheorems, WellFoundedInduction, TLAPS

-----------------------------------------------------------------------------
(* The invariant of the tables. *)

Resources ==
    /\ added \in Seq(Resource)
    /\ cur_iorsc = Len(added) /\ cur_iorsc =< MAX_IO_RSC
    /\ DOMAIN resources = 0 .. MAX_IO_RSC - 1
    /\ \A k \in 1 .. Len(added) : resources[k - 1] = added[k]

Sale == [handler : Handler, offset : Nat]
FarCalls ==
    /\ sold \in Seq(Sale)
    /\ hnd_inx = Len(sold) /\ hnd_inx =< MAX_SUPPORTED_FAR_CALLS - 1
    /\ DOMAIN fc_handlers = 0 .. MAX_SUPPORTED_FAR_CALLS - 1
    /\ \A k \in 1 .. Len(sold) :
          sold[k].offset = k /\ fc_handlers[k - 1] = sold[k].handler

Inv == Resources /\ FarCalls

\* What is assumed of the constants, one by one.
LEMMA ReadBoundIs == ReadBound \in Nat /\ ReadBound < 65001
  BY ReadAssumption, SMT DEF ReadAssumption

LEMMA PlacesAre == MAX_STR_LENGTH_OF_UINT32 \in Nat /\ MAX_STR_LENGTH_OF_UINT32 >= 2
  BY NumberAssumption, SMT DEF NumberAssumption

LEMMA NumbersAre ==
  \A value \in Number : value \in Nat /\ value < DigitDivisor[MAX_STR_LENGTH_OF_UINT32]
  BY NumberAssumption, Zenon DEF NumberAssumption

LEMMA InitInv == DebugInit => Inv
  <1> SUFFICES ASSUME TablesInit PROVE Inv
    BY DEF DebugInit
  <1> USE TablesAssumption DEF TablesAssumption
  <1>1. Resources
    BY SMT DEF TablesInit, Resources
  <1>2. FarCalls
    BY SMT DEF TablesInit, FarCalls
  <1> QED
    BY <1>1, <1>2 DEF Inv

-----------------------------------------------------------------------------
(* The calls. *)

LEMMA IoStays == Resources /\ UNCHANGED ioTable => Resources'
  BY DEF Resources, ioTable

LEMMA FarStays == FarCalls /\ UNCHANGED farTable => FarCalls'
  BY DEF FarCalls, farTable

LEMMA AddStep ==
  ASSUME Inv, NEW r \in Resource, PnAddIOMemRsc(r)
  PROVE  Inv'
  <1>1. /\ cur_iorsc < MAX_IO_RSC
        /\ resources' = [resources EXCEPT ![cur_iorsc] = r]
        /\ cur_iorsc' = cur_iorsc + 1 /\ added' = Append(added, r)
    BY TablesAssumption, SMT DEF TablesAssumption, PnAddIOMemRsc, NoResourceLeft, Inv, Resources
  <1>2. /\ added' \in Seq(Resource) /\ Len(added') = Len(added) + 1
        /\ \A k \in 1 .. Len(added) : added'[k] = added[k]
        /\ added'[Len(added) + 1] = r
    BY <1>1, AppendProperties DEF Inv, Resources
  <1>3. Resources'
    <2>1. \A k \in 1 .. Len(added') : resources'[k - 1] = added'[k]
      BY <1>1, <1>2, TablesAssumption, SMT DEF TablesAssumption, Inv, Resources
    <2> QED
      BY <1>1, <1>2, <2>1, TablesAssumption, SMT DEF TablesAssumption, Inv, Resources
  <1>4. FarCalls'
    BY FarStays DEF Inv, PnAddIOMemRsc
  <1> QED
    BY <1>3, <1>4 DEF Inv

LEMMA InsertStep ==
  ASSUME FarCalls, NEW h \in Handler, InsertFarCall(h)
  PROVE  FarCalls'
  <1>1. CASE NoFarCallLeft
    BY <1>1, FarStays DEF InsertFarCall
  <1>2. CASE ~NoFarCallLeft
    <2> DEFINE sale == [handler |-> h, offset |-> hnd_inx + 1]
    <2>1. /\ fc_handlers' = [fc_handlers EXCEPT ![hnd_inx] = h]
          /\ hnd_inx' = hnd_inx + 1 /\ sold' = Append(sold, sale)
      BY <1>2 DEF InsertFarCall
    <2>2. hnd_inx \in Nat /\ hnd_inx + 1 =< MAX_SUPPORTED_FAR_CALLS - 1
      BY <1>2, TablesAssumption, SMT DEF TablesAssumption, NoFarCallLeft, FarCalls
    <2>3. sale \in Sale /\ sale.offset = hnd_inx + 1 /\ sale.handler = h
      BY <2>2, SMT DEF Sale
    <2> HIDE DEF sale
    <2>4. /\ sold' \in Seq(Sale) /\ Len(sold') = Len(sold) + 1
          /\ \A k \in 1 .. Len(sold) : sold'[k] = sold[k]
          /\ sold'[Len(sold) + 1] = sale
      BY <2>1, <2>3, AppendProperties DEF FarCalls
    <2>5. ASSUME NEW k \in 1 .. Len(sold')
          PROVE  sold'[k].offset = k /\ fc_handlers'[k - 1] = sold'[k].handler
      <3>1. CASE k \in 1 .. Len(sold)
        BY <3>1, <2>1, <2>2, <2>4, TablesAssumption, SMT DEF TablesAssumption, FarCalls
      <3>2. CASE k = Len(sold) + 1
        BY <3>2, <2>1, <2>2, <2>3, <2>4, TablesAssumption, SMT DEF TablesAssumption, FarCalls
      <3> QED
        BY <3>1, <3>2, <2>2, <2>4, SMT DEF FarCalls
    <2> QED
      BY <2>1, <2>2, <2>4, <2>5, SMT DEF FarCalls
  <1> QED
    BY <1>1, <1>2

LEMMA CallStep ==
  ASSUME Inv, TablesCall
  PROVE  Inv'
  <1>1. ASSUME NEW r \in Resource, PnAddIOMemRsc(r) PROVE Inv'
    BY <1>1, AddStep
  <1>2. ASSUME NEW h \in Handler, InsertFarCall(h), UNCHANGED ioTable PROVE Inv'
    BY <1>2, InsertStep, IoStays DEF Inv
  <1>3. CASE UNCHANGED ioTable /\ UNCHANGED farTable
    BY <1>3, IoStays, FarStays DEF Inv
  <1> QED
    BY <1>1, <1>2, <1>3, Zenon DEF TablesCall, ScInsertFarCallHandler, InitV86, ScHookDosTrap,
                                   KeInit_DOS_Server

\* What a step of the module does to the tables.
LEMMA StepTables ==
  ASSUME [DebugNext]_debugVars
  PROVE  TablesCall \/ ScOnErrorDetatchLinks \/ UNCHANGED tables
  <1>1. CASE Registration
    BY <1>1, Zenon DEF Registration
  <1>2. CASE FatalError
    BY <1>2, Zenon DEF FatalError
  <1>3. CASE KeLogfTurn
    BY <1>3, SMT DEF KeLogfTurn
  <1>4. CASE KeLogfReturn
    BY <1>4, Zenon DEF KeLogfReturn
  <1>5. CASE BiosReturns
    BY <1>5, Zenon DEF BiosReturns
  <1>6. CASE Paint \/ NumberUsed \/ InitPnP
    BY <1>6, Zenon DEF Paint, NumberUsed, InitPnP
  <1>7. CASE \E format \in Format : KeLogf(format)
    BY <1>7, Zenon DEF KeLogf
  <1>8. CASE \E value \in Number : Uint32ToString(value)
    BY <1>8, Zenon DEF Uint32ToString
  <1>9. CASE UNCHANGED debugVars
    BY <1>9, Zenon DEF debugVars
  <1> QED
    BY <1>1, <1>2, <1>3, <1>4, <1>5, <1>6, <1>7, <1>8, <1>9, Zenon DEF DebugNext, DebugStep

LEMMA StepInv == Inv /\ [DebugNext]_debugVars => Inv'
  <1> SUFFICES ASSUME Inv, [DebugNext]_debugVars PROVE Inv'
    OBVIOUS
  <1>1. CASE TablesCall
    BY <1>1, CallStep
  <1>2. CASE UNCHANGED ioTable /\ UNCHANGED farTable
    BY <1>2, IoStays, FarStays DEF Inv
  <1>3. ScOnErrorDetatchLinks \/ UNCHANGED tables => UNCHANGED ioTable /\ UNCHANGED farTable
    BY DEF ScOnErrorDetatchLinks, tables, ioTable, farTable
  <1> QED
    BY <1>1, <1>2, <1>3, StepTables, Zenon

LEMMA InvAlways == DebugSpec => []Inv
  BY InitInv, StepInv, PTL DEF DebugSpec

-----------------------------------------------------------------------------
(* The theorems about the tables. *)

\* PnAddIOMemRsc keeps what it accepts, in order and inside the table, however many
\* resources the table has room for.
THEOREM Kept == DebugSpec => []ResourcesKept
  <1>1. Inv => ResourcesKept
    <2> SUFFICES ASSUME Inv PROVE ResourcesKept
      OBVIOUS
    <2>1. DOMAIN added = 1 .. Len(added)
      BY LenProperties DEF Inv, Resources
    <2> QED
      BY <2>1 DEF Inv, Resources, ResourcesKept
  <1> QED
    BY <1>1, InvAlways, PTL

\* A far call has an address no other has, and its handler stays where
\* ScInsertFarCallHandler put it, inside a table of any size.
THEOREM Sold == DebugSpec => []FarCallsKept
  <1>1. Inv => FarCallsKept
    <2> SUFFICES ASSUME Inv, NEW k \in DOMAIN sold
                 PROVE  /\ k - 1 \in DOMAIN fc_handlers
                        /\ fc_handlers[k - 1] = sold[k].handler
                        /\ \A j \in DOMAIN sold : j # k => sold[j].offset # sold[k].offset
      BY DEF FarCallsKept
    <2>1. DOMAIN sold = 1 .. Len(sold) /\ Len(sold) \in Nat
      BY LenProperties DEF Inv, FarCalls
    <2>2. \A j \in DOMAIN sold : sold[j].offset = j /\ fc_handlers[j - 1] = sold[j].handler
      BY <2>1 DEF Inv, FarCalls
    <2>3. k - 1 \in DOMAIN fc_handlers
      BY <2>1, TablesAssumption, SMT DEF TablesAssumption, Inv, FarCalls
    <2> QED
      BY <2>2, <2>3
  <1> QED
    BY <1>1, InvAlways, PTL

\* From the call of ScOnErrorDetatchLinks on, through every character of the message
\* and every BIOS call that returns, no link is in a chain until FatalError is over.
THEOREM Detached == DebugSpec => []LinksDetached
  <1> DEFINE I == LinksDetached /\ (debug \in {"idle", "number"} => after = "idle")
  <1>1. DebugInit => I
    BY DEF DebugInit, LinksDetached
  <1>2. I /\ [DebugNext]_debugVars => I'
    <2> SUFFICES ASSUME I, [DebugNext]_debugVars PROVE I'
      OBVIOUS
    <2>1. CASE Registration
      <3>1. debug = "idle" /\ UNCHANGED <<debug, after>>
        BY <2>1, Zenon DEF Registration
      <3> QED
        BY <3>1 DEF LinksDetached
    <2>2. CASE FatalError
      <3>1. \A v \in VINT : v86_capture_chain'[v].next = NULL
        BY <2>2 DEF FatalError, ScOnErrorDetatchLinks
      <3> QED
        BY <2>2, <3>1 DEF FatalError, LinksDetached
    <2>3. CASE UNCHANGED tables /\ (after' = "paint" => after = "paint")
                                /\ (debug' \in {"idle", "number"} => after' = "idle")
      <3>1. v86_capture_chain' = v86_capture_chain
        BY <2>3 DEF tables
      <3> QED
        BY <2>3, <3>1, Zenon DEF LinksDetached
    <2>4. CASE KeLogfTurn \/ KeLogfReturn \/ BiosReturns \/ Paint \/ NumberUsed \/ InitPnP
               \/ (\E format \in Format : KeLogf(format))
               \/ (\E value \in Number : Uint32ToString(value))
      <3>1. CASE KeLogfTurn
        <4>1. UNCHANGED tables /\ after' = after /\ debug' \in {"putchar", debug} /\ debug = "log"
          BY <3>1, SMT DEF KeLogfTurn
        <4> QED
          BY <2>3, <4>1
      <3>2. CASE KeLogfReturn
        BY <2>3, <3>2, Zenon DEF KeLogfReturn, Return
      <3>3. CASE BiosReturns
        BY <2>3, <3>3, Zenon DEF BiosReturns, StartLog
      <3>4. CASE Paint
        <4>1. UNCHANGED tables /\ debug' = "idle" /\ after' = "idle"
          BY <3>4, SMT DEF Paint, Return
        <4> QED
          BY <2>3, <4>1, Zenon
      <3>5. CASE NumberUsed
        BY <2>3, <3>5, Zenon DEF NumberUsed
      <3>6. CASE InitPnP
        BY <2>3, <3>6, Zenon DEF InitPnP, StartLog
      <3>7. CASE \E format \in Format : KeLogf(format)
        BY <2>3, <3>7, Zenon DEF KeLogf, StartLog
      <3>8. CASE \E value \in Number : Uint32ToString(value)
        BY <2>3, <3>8, Zenon DEF Uint32ToString
      <3> QED
        BY <2>4, <3>1, <3>2, <3>3, <3>4, <3>5, <3>6, <3>7, <3>8, Zenon
    <2>5. CASE UNCHANGED debugVars
      BY <2>3, <2>5, Zenon DEF debugVars
    <2> QED
      BY <2>1, <2>2, <2>4, <2>5, Zenon DEF DebugNext, DebugStep
  <1>3. I => LinksDetached
    OBVIOUS
  <1> QED
    BY <1>1, <1>2, <1>3, PTL DEF DebugSpec

-----------------------------------------------------------------------------
(* The types. *)

LEMMA InitTables == TablesInit => TablesTypeOK
  BY TablesAssumption, SMT DEF TablesAssumption, TablesInit, TablesTypeOK

LEMMA InsertTypes ==
  ASSUME TablesTypeOK, Inv, NEW h \in Handler, InsertFarCall(h)
  PROVE  /\ fc_handlers' \in [0 .. MAX_SUPPORTED_FAR_CALLS - 1 -> Handler \union {Garbage}]
         /\ hnd_inx' \in 0 .. MAX_SUPPORTED_FAR_CALLS
  <1>1. CASE NoFarCallLeft
    BY <1>1 DEF InsertFarCall, farTable, TablesTypeOK
  <1>2. CASE ~NoFarCallLeft
    <2>1. /\ fc_handlers' = [fc_handlers EXCEPT ![hnd_inx] = h]
          /\ hnd_inx' = hnd_inx + 1
      BY <1>2 DEF InsertFarCall
    <2>2. hnd_inx \in 0 .. MAX_SUPPORTED_FAR_CALLS - 1
      BY TablesAssumption, SMT DEF TablesAssumption, Inv, FarCalls, TablesTypeOK
    <2> QED
      BY <2>1, <2>2, TablesAssumption, SMT DEF TablesAssumption, TablesTypeOK
  <1> QED
    BY <1>1, <1>2

LEMMA TablesTypes ==
  ASSUME TablesTypeOK, Inv, TablesCall \/ ScOnErrorDetatchLinks \/ UNCHANGED tables
  PROVE  TablesTypeOK'
  <1>1. ASSUME NEW r \in Resource, PnAddIOMemRsc(r) PROVE TablesTypeOK'
    BY <1>1, TablesAssumption, SMT DEF TablesAssumption, PnAddIOMemRsc, NoResourceLeft, farTable,
                                       TablesTypeOK
  <1>2. ASSUME NEW h \in Handler, InsertFarCall(h), UNCHANGED ioTable PROVE TablesTypeOK'
    BY <1>2, InsertTypes DEF ioTable, TablesTypeOK
  <1>3. CASE UNCHANGED ioTable /\ UNCHANGED farTable
    BY <1>3 DEF ioTable, farTable, TablesTypeOK
  <1>4. (ScOnErrorDetatchLinks \/ UNCHANGED tables) => UNCHANGED ioTable /\ UNCHANGED farTable
    BY DEF ScOnErrorDetatchLinks, tables, ioTable, farTable
  <1>5. CASE TablesCall
    BY <1>1, <1>2, <1>3, <1>5 DEF TablesCall, ScInsertFarCallHandler, InitV86, ScHookDosTrap,
                                  KeInit_DOS_Server
  <1> QED
    BY <1>3, <1>4, <1>5

\* KeLogf's turns are three characters apart and do not go beyond what can be read.
Turns ==
    /\ debug \in {"idle", "log", "putchar", "mode", "paint", "number"}
    /\ after \in {"idle", "fatal", "paint"}
    /\ fmt = << >> \/ fmt \in Format \union Message
    /\ place \in Nat /\ place =< ReadBound + 2 /\ \E n \in Nat : place = 3 * n
    /\ debug \in {"idle", "number"} => after = "idle"
    /\ debug # "number" => obuffer = << >>

LEMMA StartOf ==
  /\ 0 \in Nat /\ 0 =< ReadBound + 2 /\ \E n \in Nat : 0 = 3 * n
  <1>1. 0 = 3 * 0 /\ 0 \in Nat
    OBVIOUS
  <1> QED
    BY <1>1, ReadBoundIs

LEMMA TurnOn ==
  ASSUME Turns, KeLogfTurn
  PROVE  place' \in Nat /\ place' =< ReadBound + 2 /\ \E n \in Nat : place' = 3 * n
  <1>1. ReadBound \in Nat /\ ReadBound < 65001
    BY ReadBoundIs
  <1>2. PICK ch \in CharAt(place + 1) : ch \in {"escape", "sign"}
    BY SMT DEF KeLogfTurn, Skipped
  <1>3. place + 1 \in DOMAIN fmt \/ place + 1 =< ReadBound
    BY <1>2, Zenon DEF CharAt
  <1>4. ASSUME place + 1 \in DOMAIN fmt PROVE place + 1 =< ReadBound
    <2>1. fmt # << >> => fmt \in Format \union Message
      BY DEF Turns
    <2>2. DOMAIN << >> = {}
      OBVIOUS
    <2>3. PICK m \in 0 .. ReadBound : fmt \in [0 .. m -> Character]
      BY <1>4, <2>1, <2>2, StringAssumption DEF StringAssumption
    <2>4. DOMAIN fmt = 0 .. m
      BY <2>3
    <2> QED
      BY <1>1, <1>4, <2>4 DEF Turns
  <1>5. PICK n \in Nat : place = 3 * n /\ 3 * n + 1 =< ReadBound
    BY <1>3, <1>4 DEF Turns
  <1>6. place' = (3 * n + 3) % 65536
    BY <1>5 DEF KeLogfTurn, Skipped
  <1>7. place' = 3 * (n + 1)
    BY <1>1, <1>5, <1>6
  <1>8. n + 1 \in Nat /\ 3 * (n + 1) \in Nat /\ 3 * (n + 1) =< ReadBound + 2
    BY <1>1, <1>5
  <1> QED
    BY <1>7, <1>8

LEMMA TurnsStep == Turns /\ [DebugNext]_debugVars => Turns'
  <1> SUFFICES ASSUME Turns, [DebugNext]_debugVars PROVE Turns'
    OBVIOUS
  <1>1. CASE KeLogfTurn
    <2>1. place' \in Nat /\ place' =< ReadBound + 2 /\ \E n \in Nat : place' = 3 * n
      BY <1>1, TurnOn
    <2>2. /\ debug' \in {"putchar", "log"} /\ debug = "log"
          /\ UNCHANGED <<after, fmt, obuffer>>
      BY <1>1 DEF KeLogfTurn
    <2> QED
      BY <2>1, <2>2, Zenon DEF Turns
  <1>2. ASSUME NEW format \in Format \union Message, NEW next \in {"idle", "fatal", "paint"},
               StartLog(format, next), UNCHANGED obuffer, debug # "number"
        PROVE  Turns'
    BY <1>2, StartOf, Zenon DEF StartLog, Turns
  <1>3. CASE (\E format \in Format : KeLogf(format)) \/ InitPnP
    BY <1>2, <1>3, Zenon DEF KeLogf, InitPnP
  <1>4. CASE BiosReturns
    <2>1. CASE debug = "putchar"
      BY <1>4, <2>1, Zenon DEF BiosReturns, Turns
    <2>2. CASE debug = "mode" /\ \E format \in Message : StartLog(format, after)
      BY <1>2, <1>4, <2>2, Zenon DEF BiosReturns, Turns
    <2> QED
      BY <1>4, <2>1, <2>2, Zenon DEF BiosReturns
  <1>5. CASE KeLogfReturn \/ Paint
    BY <1>5, StartOf, Zenon DEF KeLogfReturn, Paint, Return, Turns
  <1>6. CASE FatalError
    <2>1. /\ debug' = "mode" /\ after' = "paint" /\ fmt' = << >> /\ place' = 0
          /\ debug = "log" /\ UNCHANGED obuffer
      BY <1>6, Zenon DEF FatalError
    <2>2. obuffer = << >>
      BY <2>1, SMT DEF Turns
    <2>3. place' \in Nat /\ place' =< ReadBound + 2 /\ \E n \in Nat : place' = 3 * n
      BY <2>1, StartOf, Zenon
    <2> QED
      BY <2>1, <2>2, <2>3, SMT DEF Turns
  <1>7. CASE NumberUsed \/ \E value \in Number : Uint32ToString(value)
    BY <1>7, Zenon DEF NumberUsed, Uint32ToString, Turns
  <1>8. CASE UNCHANGED <<debug, after, fmt, place, obuffer>>
    BY <1>8, Zenon DEF Turns
  <1> QED
    BY <1>1, <1>3, <1>4, <1>5, <1>6, <1>7, <1>8, Zenon
       DEF DebugNext, Registration, DebugStep, debugVars

\* The tables hold what was registered or what the memory held before, their counts
\* stay inside them, and KeLogf looks at every third character, at most as far as
\* memory is read, so that its WORD does not wrap.
THEOREM Types == DebugSpec => []DebugTypeOK
  <1>1. DebugInit => TablesTypeOK /\ Turns
    BY InitTables, StartOf, Zenon DEF DebugInit, Turns
  <1>2. TablesTypeOK /\ Inv /\ [DebugNext]_debugVars => TablesTypeOK'
    BY StepTables, TablesTypes
  <1>3. TablesTypeOK /\ Turns => DebugTypeOK
    <2> SUFFICES ASSUME TablesTypeOK, Turns PROVE DebugTypeOK
      OBVIOUS
    <2>1. PICK n \in Nat : place = 3 * n
      BY DEF Turns
    <2>2. place % 3 = 0
      BY <2>1
    <2>3. place \in Nat /\ place < 65536
      <3>1. place \in Nat /\ place =< ReadBound + 2
        BY Zenon DEF Turns
      <3> QED
        BY <3>1, ReadBoundIs, SMT
    <2> QED
      BY <2>2, <2>3, SMT DEF Turns, DebugTypeOK
  <1> QED
    BY <1>1, <1>2, <1>3, TurnsStep, InvAlways, PTL DEF DebugSpec

-----------------------------------------------------------------------------
(* Induction and recursion on the natural numbers, over sets and functions   *)
(* instead of operators.                                                     *)

LEMMA Induction ==
  ASSUME NEW S, 0 \in S, \A n \in Nat : n \in S => n + 1 \in S
  PROVE  Nat \subseteq S
  <1> DEFINE T == Nat \ S
             R == {p \in Nat \X Nat : p[1] < p[2]}
  <1> SUFFICES ASSUME T # {} PROVE FALSE
    OBVIOUS
  <1>1. IsWellFoundedOn(R, Nat)
    BY NatLessThanWellFounded DEF OpToRel
  <1>2. \A x, y \in Nat : y < x => <<y, x>> \in R
    OBVIOUS
  <1>3. T \subseteq Nat
    OBVIOUS
  <1> HIDE DEF R, T
  <1>4. \E x \in T : \A y \in T : ~(<<y, x>> \in R)
    BY <1>1, <1>3, WFMin
  <1>5. PICK x \in T : \A y \in T : ~(y < x)
    BY <1>2, <1>3, <1>4
  <1>6. x \in Nat /\ x \notin S
    BY DEF T
  <1>7. x # 0
    BY <1>6
  <1>8. x - 1 \in Nat /\ x - 1 \notin T
    BY <1>5, <1>6, <1>7
  <1> QED
    BY <1>6, <1>8 DEF T

\* The first n + 1 values that G gives, starting with a.
Begins(n, a, G, f) ==
    DOMAIN f = 0 .. n /\ f[0] = a /\ \A m \in 1 .. n : f[m] = G[<<m, f[m - 1]>>]

Closed(V, G) == \A n \in Nat, v \in V : G[<<n + 1, v>>] \in V
Follows(f, a, G) == f[0] = a /\ \A n \in Nat : f[n + 1] = G[<<n + 1, f[n]>>]

LEMMA Recursion ==
  ASSUME NEW V, NEW a \in V, NEW G, Closed(V, G)
  PROVE  \E f \in [Nat -> V] : Follows(f, a, G)
  <1>1. \A n \in Nat : \E f : Begins(n, a, G, f)
    <2> DEFINE S == {n \in Nat : \E f : Begins(n, a, G, f)}
    <2>1. 0 \in S
      <3>1. Begins(0, a, G, [m \in 0 .. 0 |-> a])
        BY DEF Begins
      <3> QED
        BY <3>1
    <2>2. ASSUME NEW n \in Nat, n \in S PROVE n + 1 \in S
      <3>1. PICK f : Begins(n, a, G, f)
        BY <2>2
      <3> DEFINE g == [m \in 0 .. n + 1 |-> IF m = n + 1 THEN G[<<m, f[n]>>] ELSE f[m]]
      <3>2. \A m \in 1 .. n : m # n + 1 /\ m - 1 # n + 1 /\ m - 1 \in 0 .. n + 1
        OBVIOUS
      <3>3. \A m \in 1 .. n + 1 : m \in 1 .. n \/ m = n + 1
        OBVIOUS
      <3>4. 0 # n + 1 /\ 0 \in 0 .. n + 1 /\ n # n + 1 /\ n \in 0 .. n + 1 /\ (n + 1) - 1 = n
        OBVIOUS
      <3>5. \A m \in 1 .. n + 1 : m \in 0 .. n + 1
        OBVIOUS
      <3>6. Begins(n + 1, a, G, g)
        BY <3>1, <3>2, <3>3, <3>4, <3>5, Zenon DEF Begins
      <3> QED
        BY <3>6
    <2> HIDE DEF S
    <2>3. Nat \subseteq S
      BY <2>1, <2>2, Induction
    <2> QED
      BY <2>3 DEF S
  <1>2. ASSUME NEW n \in Nat, NEW m \in Nat, NEW f, NEW g, Begins(n, a, G, f), Begins(m, a, G, g)
        PROVE  \A k \in Nat : k =< n /\ k =< m => f[k] = g[k]
    <2> DEFINE S == {k \in Nat : k =< n /\ k =< m => f[k] = g[k]}
    <2>1. 0 \in S
      BY <1>2 DEF Begins
    <2>2. ASSUME NEW k \in Nat, k \in S PROVE k + 1 \in S
      <3> SUFFICES ASSUME k + 1 =< n, k + 1 =< m PROVE f[k + 1] = g[k + 1]
        OBVIOUS
      <3>1. k =< n /\ k =< m /\ k + 1 \in 1 .. n /\ k + 1 \in 1 .. m /\ (k + 1) - 1 = k
        OBVIOUS
      <3>2. f[k] = g[k]
        BY <2>2, <3>1
      <3> QED
        BY <1>2, <3>1, <3>2, Zenon DEF Begins
    <2> HIDE DEF S
    <2>3. Nat \subseteq S
      BY <2>1, <2>2, Induction
    <2> QED
      BY <2>3 DEF S
  <1> DEFINE at == [n \in Nat |-> CHOOSE f : Begins(n, a, G, f)]
             all == [n \in Nat |-> at[n][n]]
  <1>3. \A n \in Nat : Begins(n, a, G, at[n])
    BY <1>1
  <1> HIDE DEF at
  <1>4. all[0] = a
    BY <1>3 DEF Begins
  <1>5. ASSUME NEW n \in Nat PROVE all[n + 1] = G[<<n + 1, all[n]>>]
    <2>1. /\ n + 1 \in Nat /\ n + 1 \in 1 .. n + 1 /\ (n + 1) - 1 = n
          /\ n =< n + 1 /\ n =< n
      OBVIOUS
    <2>2. at[n + 1][n + 1] = G[<<n + 1, at[n + 1][n]>>]
      BY <1>3, <2>1, Zenon DEF Begins
    <2>3. at[n + 1][n] = at[n][n]
      BY <1>2, <1>3, <2>1
    <2> QED
      BY <2>1, <2>2, <2>3
  <1> HIDE DEF all
  <1> DEFINE S == {n \in Nat : all[n] \in V}
  <1>6. Nat \subseteq S
    <2>1. 0 \in S
      BY <1>4
    <2>2. ASSUME NEW n \in Nat, n \in S PROVE n + 1 \in S
      <3>1. all[n] \in V /\ n + 1 \in Nat
        BY <2>2
      <3>2. G[<<n + 1, all[n]>>] \in V
        BY <3>1, Zenon DEF Closed
      <3> QED
        BY <1>5, <3>1, <3>2
    <2> HIDE DEF S
    <2> QED
      BY <2>1, <2>2, Induction
  <1>7. all \in [Nat -> V]
    <2>1. \A n \in Nat : all[n] \in V
      BY <1>6
    <2> QED
      BY <2>1 DEF all
  <1> QED
    BY <1>4, <1>5, <1>7 DEF Follows

-----------------------------------------------------------------------------
(* The decimal digits.  What is read of the first digits is the value divided *)
(* by the place of the last of them.                                          *)

LEMMA DivisorIs ==
  /\ DigitDivisor[0] = 1
  /\ \A n \in Nat : DigitDivisor[n] \in Nat \ {0} /\ DigitDivisor[n + 1] = 10 * DigitDivisor[n]
  <1> DEFINE P == Nat \ {0}
             G == [p \in Nat \X P |-> 10 * p[2]]
  <1>1. \A n \in Nat, v \in P : G[<<n + 1, v>>] = 10 * v /\ 10 * v \in P
    OBVIOUS
  <1>2. 1 \in P
    OBVIOUS
  <1> HIDE DEF G
  <1>3. PICK f \in [Nat -> P] : Follows(f, 1, G)
    <2>1. Closed(P, G)
      BY <1>1 DEF Closed
    <2> HIDE DEF P
    <2> QED
      BY <1>2, <2>1, Recursion, Zenon
  <1>4. f[0] = 1 /\ \A n \in Nat : f[n + 1] = 10 * f[n]
    BY <1>1, <1>3 DEF Follows
  <1>5. f = [n \in Nat |-> IF n = 0 THEN 1 ELSE 10 * f[n - 1]]
    <2>1. ASSUME NEW n \in Nat PROVE f[n] = IF n = 0 THEN 1 ELSE 10 * f[n - 1]
      <3>1. n # 0 => n - 1 \in Nat /\ (n - 1) + 1 = n
        OBVIOUS
      <3> QED
        BY <1>4, <3>1
    <2> QED
      BY <1>3, <2>1
  <1>6. DigitDivisor = [n \in Nat |-> IF n = 0 THEN 1 ELSE 10 * DigitDivisor[n - 1]]
    BY <1>5, Zenon DEF DigitDivisor
  <1>7. DigitDivisor[0] = 1 /\ \A n \in Nat : DigitDivisor[n + 1] = 10 * DigitDivisor[n]
    <2>1. \A n \in Nat : n + 1 \in Nat /\ n + 1 # 0 /\ (n + 1) - 1 = n
      OBVIOUS
    <2> QED
      BY <1>6, <2>1
  <1> DEFINE S == {n \in Nat : DigitDivisor[n] \in P}
  <1>8. Nat \subseteq S
    <2>1. 0 \in S
      BY <1>2, <1>7
    <2>2. ASSUME NEW n \in Nat, n \in S PROVE n + 1 \in S
      <3>1. DigitDivisor[n] \in P /\ DigitDivisor[n + 1] = 10 * DigitDivisor[n]
        BY <1>7, <2>2
      <3>2. DigitDivisor[n + 1] \in P /\ n + 1 \in Nat
        BY <3>1
      <3> QED
        BY <3>2
    <2> HIDE DEF S
    <2> QED
      BY <2>1, <2>2, Induction
  <1> QED
    BY <1>7, <1>8

LEMMA Division ==
  ASSUME NEW v \in Nat, NEW d \in Nat, d > 0
  PROVE  /\ v = d * (v \div d) + (v % d)
         /\ v \div d \in Nat /\ v % d \in Nat /\ v % d < d
  OBVIOUS

LEMMA Quotient ==
  ASSUME NEW v \in Nat, NEW d \in Nat, d > 0, NEW q \in Nat, NEW r \in Nat, r < d, v = d * q + r
  PROVE  v \div d = q
  OBVIOUS

\* One digit more is the quotient by the next place.
LEMMA DigitMore ==
  ASSUME NEW v \in Nat, NEW d \in Nat, d > 0
  PROVE  10 * (v \div (10 * d)) + ((v \div d) % 10) = v \div d
  <1>1. PICK q \in Nat, r \in Nat : q = v \div d /\ r < d /\ v = d * q + r
    BY Division
  <1>2. PICK p \in Nat, t \in Nat : t = q % 10 /\ t =< 9 /\ q = 10 * p + t
    BY <1>1
  <1>3. PICK e \in Nat : e = 10 * d /\ e > 0
    OBVIOUS
  <1>4. PICK u \in Nat : u = d * t + r /\ u < e
    <2>1. d * t \in Nat /\ d * t =< d * 9
      BY <1>2
    <2> QED
      BY <1>1, <1>3, <2>1
  <1>5. v = e * p + u
    <2>1. d * (10 * p + t) = (10 * d) * p + d * t
      BY <1>2
    <2>2. d * q = e * p + d * t
      BY <1>2, <1>3, <2>1
    <2>3. d * q \in Nat /\ e * p \in Nat /\ d * t \in Nat
      BY <1>1, <1>2, <1>3
    <2> QED
      BY <1>1, <1>4, <2>2, <2>3
  <1>6. v \div e = p
    BY <1>3, <1>4, <1>5, Quotient
  <1> QED
    BY <1>1, <1>2, <1>3, <1>6

\* What is read when n bytes are read as digits, from the one before the buffer on.
Reading(text) ==
    LET read[n \in 0 .. MAX_STR_LENGTH_OF_UINT32] ==
            IF n = 0 THEN 0 ELSE 10 * read[n - 1] + text[n - 2]
    IN  read[MAX_STR_LENGTH_OF_UINT32]

\* Reading from the left.
LEMMA ReadingIs ==
  ASSUME NEW text, \A n \in 1 .. MAX_STR_LENGTH_OF_UINT32 : text[n - 2] \in Nat
  PROVE  \E f : /\ f[0] = 0 /\ Reading(text) = f[MAX_STR_LENGTH_OF_UINT32]
                /\ \A n \in Nat : n < MAX_STR_LENGTH_OF_UINT32 =>
                      f[n] \in Nat /\ f[n + 1] = 10 * f[n] + text[n - 1]
  <1> DEFINE M == MAX_STR_LENGTH_OF_UINT32
             G == [p \in Nat \X Nat |->
                     IF p[1] \in 1 .. M THEN 10 * p[2] + text[p[1] - 2] ELSE 0]
  <1>1. M \in Nat
    BY PlacesAre
  <1> HIDE DEF M
  <1>2. ASSUME NEW n \in Nat, NEW v \in Nat
        PROVE  /\ G[<<n + 1, v>>] = IF n < M THEN 10 * v + text[n - 1] ELSE 0
               /\ G[<<n + 1, v>>] \in Nat
    <2>1. (n + 1) - 2 = n - 1 /\ (n < M <=> n + 1 \in 1 .. M)
      BY <1>1
    <2>2. n < M => text[n - 1] \in Nat
      BY <2>1 DEF M
    <2>3. G[<<n + 1, v>>] = IF n + 1 \in 1 .. M THEN 10 * v + text[(n + 1) - 2] ELSE 0
      OBVIOUS
    <2>4. G[<<n + 1, v>>] = IF n < M THEN 10 * v + text[n - 1] ELSE 0
      BY <2>1, <2>3
    <2> HIDE DEF G
    <2> QED
      BY <2>2, <2>4
  <1> HIDE DEF G
  <1>3. PICK g \in [Nat -> Nat] : Follows(g, 0, G)
    <2>1. Closed(Nat, G) /\ 0 \in Nat
      BY <1>2 DEF Closed
    <2> QED
      BY <2>1, Recursion
  <1>4. g[0] = 0 /\ \A n \in Nat : n < M => g[n + 1] = 10 * g[n] + text[n - 1]
    BY <1>2, <1>3 DEF Follows
  <1> DEFINE f == [n \in 0 .. M |-> g[n]]
  <1>5. \A n \in 0 .. M : f[n] = IF n = 0 THEN 0 ELSE 10 * f[n - 1] + text[n - 2]
    <2> SUFFICES ASSUME NEW n \in 0 .. M, n # 0 PROVE g[n] = 10 * g[n - 1] + text[n - 2]
      BY <1>1, <1>4
    <2>1. n - 1 \in Nat /\ n - 1 < M /\ (n - 1) + 1 = n /\ (n - 1) - 1 = n - 2
      BY <1>1
    <2> QED
      BY <1>4, <2>1
  <1>6. f = [n \in 0 .. M |-> IF n = 0 THEN 0 ELSE 10 * f[n - 1] + text[n - 2]]
    BY <1>5
  <1> HIDE DEF f
  <1> DEFINE h == CHOOSE h : h = [n \in 0 .. M |-> IF n = 0 THEN 0 ELSE 10 * h[n - 1] + text[n - 2]]
  <1>7. h = [n \in 0 .. M |-> IF n = 0 THEN 0 ELSE 10 * h[n - 1] + text[n - 2]]
    BY <1>6, Zenon
  <1>8. Reading(text) = h[M]
    BY Zenon DEF Reading, M
  <1> HIDE DEF h
  <1>9. h[0] = 0 /\ \A n \in Nat : n < M => h[n + 1] = 10 * h[n] + text[n - 1]
    <2>1. \A n \in 0 .. M : h[n] = IF n = 0 THEN 0 ELSE 10 * h[n - 1] + text[n - 2]
      BY <1>7
    <2>2. ASSUME NEW n \in Nat, n < M
          PROVE  n + 1 \in 0 .. M /\ n + 1 # 0 /\ (n + 1) - 1 = n /\ (n + 1) - 2 = n - 1
      BY <1>1, <2>2
    <2>3. 0 \in 0 .. M
      BY <1>1
    <2> QED
      BY <2>1, <2>2, <2>3
  <1> DEFINE S == {n \in Nat : n < M => h[n] \in Nat}
  <1>10. Nat \subseteq S
    <2>1. 0 \in S
      BY <1>9
    <2>2. ASSUME NEW n \in Nat, n \in S PROVE n + 1 \in S
      <3> SUFFICES ASSUME n + 1 < M PROVE h[n + 1] \in Nat
        OBVIOUS
      <3>1. n < M /\ n + 1 \in 1 .. M /\ (n + 1) - 2 = n - 1
        BY <1>1
      <3>2. h[n] \in Nat /\ text[n - 1] \in Nat /\ h[n + 1] = 10 * h[n] + text[n - 1]
        BY <1>9, <2>2, <3>1 DEF M
      <3> QED
        BY <3>2
    <2> HIDE DEF S
    <2> QED
      BY <2>1, <2>2, Induction
  <1> QED
    BY <1>8, <1>9, <1>10 DEF M

\* The digits of a value that has no more of them than places read as the value.
LEMMA ReadsBack ==
  ASSUME NEW v \in Nat, v < DigitDivisor[MAX_STR_LENGTH_OF_UINT32], NEW text,
         \A n \in 1 .. MAX_STR_LENGTH_OF_UINT32 :
            text[n - 2] = (v \div DigitDivisor[MAX_STR_LENGTH_OF_UINT32 - n]) % 10
  PROVE  Reading(text) = v
  <1> DEFINE M == MAX_STR_LENGTH_OF_UINT32
             D == DigitDivisor
  <1>1. M \in Nat
    BY PlacesAre
  <1>2. D[0] = 1 /\ \A n \in Nat : D[n] \in Nat /\ D[n] > 0 /\ D[n + 1] = 10 * D[n]
    BY DivisorIs
  <1>3. v < D[M] /\ \A n \in 1 .. M : text[n - 2] = (v \div D[M - n]) % 10
    OBVIOUS
  <1>4. \A n \in 1 .. M : text[n - 2] \in Nat
    <2> SUFFICES ASSUME NEW n \in 1 .. M PROVE (v \div D[M - n]) % 10 \in Nat
      BY <1>3
    <2>1. PICK d \in Nat : d = D[M - n] /\ d > 0
      <3>1. M - n \in Nat
        BY <1>1
      <3> QED
        BY <1>2, <3>1
    <2>2. PICK q \in Nat : q = v \div d
      BY <2>1
    <2> QED
      BY <2>1, <2>2
  <1>5. PICK f : /\ f[0] = 0 /\ Reading(text) = f[M]
                 /\ \A n \in Nat : n < M => f[n] \in Nat /\ f[n + 1] = 10 * f[n] + text[n - 1]
    BY <1>4, ReadingIs
  <1> HIDE DEF M, D
  <1> DEFINE S == {n \in Nat : n =< M => f[n] = v \div D[M - n]}
  <1>6. 0 \in S
    <2>1. PICK d \in Nat : d = D[M] /\ d > 0
      BY <1>1, <1>2
    <2>2. v \div d = 0
      <3>1. 0 \in Nat /\ v = d * 0 + v /\ v < d
        BY <1>3, <2>1
      <3> QED
        BY <2>1, <3>1, Quotient
    <2>3. M - 0 = M
      BY <1>1
    <2> QED
      BY <1>5, <2>1, <2>2, <2>3
  <1>7. ASSUME NEW n \in Nat, n \in S PROVE n + 1 \in S
    <2> SUFFICES ASSUME n + 1 =< M PROVE f[n + 1] = v \div D[M - (n + 1)]
      OBVIOUS
    <2>1. /\ n < M /\ n =< M /\ n + 1 \in 1 .. M /\ (n + 1) - 2 = n - 1
          /\ M - (n + 1) \in Nat /\ (M - (n + 1)) + 1 = M - n
      BY <1>1
    <2>2. PICK d \in Nat : d = D[M - (n + 1)] /\ d > 0
      BY <1>2, <2>1
    <2>3. D[M - n] = 10 * d
      BY <1>2, <2>1, <2>2
    <2>4. f[n] = v \div (10 * d)
      BY <1>7, <2>1, <2>3
    <2>5. text[n - 1] = (v \div d) % 10
      BY <1>3, <2>1, <2>2
    <2>6. f[n + 1] = 10 * (v \div (10 * d)) + ((v \div d) % 10)
      BY <1>5, <2>1, <2>4, <2>5
    <2> QED
      BY <2>2, <2>6, DigitMore
  <1>8. Nat \subseteq S
    <2> HIDE DEF S
    <2> QED
      BY <1>6, <1>7, Induction
  <1>9. f[M] = v \div D[0]
    <2>1. M \in S /\ M - M = 0 /\ M =< M
      BY <1>1, <1>8
    <2> QED
      BY <2>1
  <1>10. v \div 1 = v
    OBVIOUS
  <1> QED
    BY <1>2, <1>5, <1>9, <1>10

Decimal ==
    [][\A value \in Number : Uint32ToString(value) =>
         /\ value = Reading(obuffer')
         /\ \A k \in -1 .. MAX_STR_LENGTH_OF_UINT32 - 2 : obuffer'[k] \in 0 .. 9
         /\ obuffer'[MAX_STR_LENGTH_OF_UINT32 - 1] \notin 0 .. 9]_debugVars

\* Of any number of at most as many digits as places, what Uint32ToString stores
\* reads as the number only from the byte before the buffer on, which gets the first
\* digit, and the buffer's last byte gets none.  Debug.c 47-49 has each digit copied
\* to the buffer; buff_off starts one place too low (40).
THEOREM ReadsAsValue == DebugSpec => Decimal
  <1> DEFINE M == MAX_STR_LENGTH_OF_UINT32
             text == obuffer'
  <1>1. ASSUME NEW value \in Number, Uint32ToString(value)
        PROVE  /\ value = Reading(text)
               /\ \A k \in -1 .. M - 2 : text[k] \in 0 .. 9
               /\ text[M - 1] \notin 0 .. 9
    <2>1. M \in Nat /\ M >= 2 /\ value \in Nat /\ value < DigitDivisor[M]
      BY PlacesAre, NumbersAre
    <2>2. text = [k \in -1 .. M - 1 |->
                    IF k =< M - 2 THEN (value \div DigitDivisor[(M - 2) - k]) % 10 ELSE 98]
      BY <1>1, Zenon DEF Uint32ToString
    <2> HIDE DEF M, text
    <2>3. ASSUME NEW k \in -1 .. M - 2
          PROVE  /\ text[k] = (value \div DigitDivisor[(M - 2) - k]) % 10
                 /\ text[k] \in 0 .. 9
      <3>1. k \in -1 .. M - 1 /\ k =< M - 2 /\ (M - 2) - k \in Nat
        BY <2>1
      <3>2. text[k] = (value \div DigitDivisor[(M - 2) - k]) % 10
        BY <2>2, <3>1, Zenon
      <3>3. PICK d \in Nat : d = DigitDivisor[(M - 2) - k] /\ d > 0
        BY <3>1, DivisorIs
      <3>4. PICK q \in Nat : q = value \div d
        BY <2>1, <3>3
      <3> QED
        BY <3>2, <3>3, <3>4
    <2>4. text[M - 1] = 98
      <3>1. M - 1 \in -1 .. M - 1 /\ ~(M - 1 =< M - 2)
        BY <2>1
      <3> QED
        BY <2>2, <3>1, Zenon
    <2>5. value = Reading(text)
      <3>1. ASSUME NEW n \in 1 .. M
            PROVE  text[n - 2] = (value \div DigitDivisor[M - n]) % 10
        <4>1. n - 2 \in -1 .. M - 2 /\ (M - 2) - (n - 2) = M - n
          BY <2>1
        <4> QED
          BY <2>3, <4>1
      <3> QED
        BY <2>1, <3>1, ReadsBack DEF M
    <2> QED
      BY <2>3, <2>4, <2>5
  <1>2. [DebugNext]_debugVars => [\A value \in Number : Uint32ToString(value) =>
                          /\ value = Reading(text)
                          /\ \A k \in -1 .. M - 2 : text[k] \in 0 .. 9
                          /\ text[M - 1] \notin 0 .. 9]_debugVars
    BY <1>1, Zenon
  <1> QED
    BY <1>2, PTL DEF DebugSpec, Decimal
=============================================================================
