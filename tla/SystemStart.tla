----------------------------- MODULE SystemStart -----------------------------
(***************************************************************************)
(* From DOS to a kernel that runs: the loader (boot386.asm) starts the     *)
(* kernel, the kernel sets up the machine (StartK.asm, IA32.c), and after  *)
(* that drivers register what they have and the kernel reports errors      *)
(* (PnP_Mgr.c, Farcall.c, V86.c, Debug.c) or starts the scheduler and a    *)
(* program (Scheduler.c).                                                  *)
(***************************************************************************)
EXTENDS BootLoader, KernelInit, Diagnostics

systemVars == <<loaderVars, setupVars, debugVars>>

SystemInit == LoaderInit /\ SetupInit /\ DebugInit

Loading == LoaderNext /\ UNCHANGED <<setupVars, debugVars>>

\* The loader's jump goes to the first page of the tables: the kernel begins if the
\* first page of its file is there.
StartKernel ==
    /\ loader = "kernel"
    /\ KernelTable[0] \in DOMAIN memory /\ memory[KernelTable[0]] = 0
    /\ Begin
    /\ UNCHANGED <<loaderVars, debugVars>>

SettingUp == SetupStep /\ UNCHANGED <<loaderVars, debugVars>>
Requesting == (\E q \in Line : Raise(q)) /\ UNCHANGED <<loaderVars, debugVars>>
RunProgram == (\E vector \in Called : CallInt(vector)) /\ UNCHANGED <<loaderVars, debugVars>>

\* Nothing calls InitScheduler yet.  It shares no state with the tables and with
\* Debug.c, and is looked at where nothing was registered or reported before it.
StartScheduler ==
    /\ DebugInit
    /\ InitScheduler
    /\ UNCHANGED <<loaderVars, debugVars>>

Registering == pc = "ready" /\ Registration /\ UNCHANGED <<loaderVars, setupVars>>
Reporting == pc = "ready" /\ DebugStep /\ UNCHANGED <<loaderVars, setupVars>>

SystemNext ==
    \/ Loading \/ StartKernel
    \/ SettingUp \/ Requesting \/ RunProgram \/ StartScheduler
    \/ Registering \/ Reporting

\* DOS and the XMS driver answer the loader, and the processor goes on with the
\* initialisation.  Nothing makes a user start the loader again, a device raise its
\* line, a driver register anything or the BIOS return.
SystemSpec ==
    /\ SystemInit /\ [][SystemNext]_systemVars
    /\ WF_systemVars(Call /\ UNCHANGED <<setupVars, debugVars>>)
    /\ WF_systemVars(SettingUp)
=============================================================================
