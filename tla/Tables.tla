------------------------------- MODULE Tables -------------------------------
(***************************************************************************)
(* The tables in which drivers and the kernel register things: port and    *)
(* memory resources (PnP_Mgr.c), handlers of far calls from DOS            *)
(* (Farcall.c) and the links that capture a DOS interrupt (V86.c).  Kernel *)
(* code is not interrupted by its own callers, so a call is one step.      *)
(***************************************************************************)
EXTENDS Integers, Sequences

CONSTANTS
    MAX_IO_RSC,                 \* 64 in the code
    MAX_SUPPORTED_FAR_CALLS,    \* 16 in the code
    Resource, Handler,          \* what is registered
    Link,                       \* the links drivers have
    VINT,                       \* the interrupts they capture
    Garbage                     \* what the BSS holds at the start

ASSUME TablesAssumption ==
    MAX_IO_RSC \in Nat \ {0} /\ MAX_SUPPORTED_FAR_CALLS \in Nat \ {0}

VARIABLES
    resources, cur_iorsc,
    fc_handlers, hnd_inx,
    v86_capture_chain,          \* for each interrupt, a link
    link,                       \* the drivers' links
    added, sold                 \* history: what was accepted, in order

tables == <<resources, cur_iorsc, fc_handlers, hnd_inx, v86_capture_chain, link,
            added, sold>>
ioTable == <<resources, cur_iorsc, added>>
farTable == <<fc_handlers, hnd_inx, sold>>
chains == <<v86_capture_chain, link>>

NULL == "NULL"
V86CaptStub == "V86CaptStub"

TablesInit ==
    /\ resources = [k \in 0 .. MAX_IO_RSC - 1 |-> Garbage]
    /\ cur_iorsc = 0
    /\ fc_handlers = [k \in 0 .. MAX_SUPPORTED_FAR_CALLS - 1 |-> Garbage]
    /\ hnd_inx = 0
    /\ v86_capture_chain = [v \in VINT |-> [handler |-> Garbage, next |-> Garbage]]
    /\ link = [l \in Link |-> [handler |-> NULL, next |-> NULL]]
    /\ added = << >> /\ sold = << >>

\* A variant is full one entry late.
NoResourceLeftLate == cur_iorsc > MAX_IO_RSC
NoResourceLeft == cur_iorsc >= MAX_IO_RSC
PnAddIOMemRsc(new_rsc) ==
    /\ ~NoResourceLeft
    /\ resources' = [resources EXCEPT ![cur_iorsc] = new_rsc]
    /\ cur_iorsc' = cur_iorsc + 1
    /\ added' = Append(added, new_rsc)
    /\ UNCHANGED <<farTable, chains>>

\* The table is full when one place is left.  A variant is full one entry too late.
NoFarCallLeftLate == hnd_inx > MAX_SUPPORTED_FAR_CALLS
NoFarCallLeft == hnd_inx + 1 = MAX_SUPPORTED_FAR_CALLS

\* The address returned is FAR_CALL_BASE_ADDR and one more than the place.
InsertFarCall(fcall_handler) ==
    IF NoFarCallLeft
       THEN UNCHANGED farTable
       ELSE /\ fc_handlers' = [fc_handlers EXCEPT ![hnd_inx] = fcall_handler]
            /\ hnd_inx' = hnd_inx + 1
            /\ sold' = Append(sold, [handler |-> fcall_handler, offset |-> hnd_inx'])
ScInsertFarCallHandler(fcall_handler) ==
    InsertFarCall(fcall_handler) /\ UNCHANGED <<ioTable, chains>>

\* InitV86 gives every interrupt the stub; nothing calls it yet.
InitV86 ==
    /\ v86_capture_chain' = [v \in VINT |-> [handler |-> V86CaptStub, next |-> NULL]]
    /\ UNCHANGED <<ioTable, farTable, link>>

HookDosTrap(vector, new, hnd) ==
    /\ v86_capture_chain' = [v86_capture_chain EXCEPT ![vector].next = new]
    /\ link' = [link EXCEPT ![new] = [handler |-> hnd, next |-> NULL]]
ScHookDosTrap(vector, new, hnd) ==
    HookDosTrap(vector, new, hnd) /\ UNCHANGED <<ioTable, farTable>>

\* KeInit_DOS_Server: INT 2Fh and the far call that enters protected mode.
KeInit_DOS_Server(vector, lnk, DpmiRealModeApiHandler) ==
    /\ HookDosTrap(vector, lnk, DpmiRealModeApiHandler)
    /\ InsertFarCall(DpmiRealModeApiHandler)
    /\ UNCHANGED ioTable

\* A variant clears the size of a pointer, that is, one entry.
DetatchOne ==
    LET first == CHOOSE v \in VINT : TRUE
    IN  /\ v86_capture_chain' =
              [v86_capture_chain EXCEPT ![first] = [handler |-> NULL, next |-> NULL]]
        /\ UNCHANGED <<ioTable, farTable, link>>
ScOnErrorDetatchLinks ==
    /\ v86_capture_chain' = [v \in VINT |-> [handler |-> NULL, next |-> NULL]]
    /\ UNCHANGED <<ioTable, farTable, link>>

TablesCall ==
    \/ \E r \in Resource : PnAddIOMemRsc(r)
    \/ \E h \in Handler : ScInsertFarCallHandler(h)
    \/ InitV86
    \/ \E v \in VINT, l \in Link, h \in Handler :
          ScHookDosTrap(v, l, h) \/ KeInit_DOS_Server(v, l, h)

-----------------------------------------------------------------------------
(* Properties *)

TablesTypeOK ==
    /\ resources \in [0 .. MAX_IO_RSC - 1 -> Resource \union {Garbage}]
    /\ fc_handlers \in [0 .. MAX_SUPPORTED_FAR_CALLS - 1 -> Handler \union {Garbage}]
    /\ cur_iorsc \in 0 .. MAX_IO_RSC
    /\ hnd_inx \in 0 .. MAX_SUPPORTED_FAR_CALLS

\* Every resource that was accepted is in the table, in its order, and nothing
\* accepted was written beyond the table or over another (PnAddIOMemRsc).
ResourcesKept ==
    /\ cur_iorsc = Len(added) /\ cur_iorsc =< MAX_IO_RSC
    /\ \A k \in DOMAIN added : resources[k - 1] = added[k]

\* Every accepted far call has an address of its own, and its handler is still
\* where it was put when it was given that address, inside the table.
FarCallsKept ==
    \A k \in DOMAIN sold :
        /\ k - 1 \in DOMAIN fc_handlers /\ fc_handlers[k - 1] = sold[k].handler
        /\ \A j \in DOMAIN sold : j # k => sold[j].offset # sold[k].offset
=============================================================================
