-------------------------- MODULE SystemStart_proof --------------------------
(***************************************************************************)
(* Proofs about SystemStart: seen from each of its parts, every step of    *)
(* the whole is a step of that part or none, so that what is proved of     *)
(* the parts by themselves holds of them in the whole.                     *)
(***************************************************************************)
EXTENDS SystemStart, TLAPS

\* A kernel that has been started, and what its drivers then do, leave the XMS
\* driver's state and the pages the loader loaded alone.
THEOREM LoaderPart == SystemSpec => LoaderInit /\ [][LoaderNext]_loaderVars
  <1>1. SystemInit => LoaderInit
    BY DEF SystemInit
  <1>2. [SystemNext]_systemVars => [LoaderNext]_loaderVars
    <2> SUFFICES ASSUME [SystemNext]_systemVars PROVE [LoaderNext]_loaderVars
      OBVIOUS
    <2>1. CASE Loading
      BY <2>1, Zenon DEF Loading
    <2>2. CASE StartKernel
      BY <2>2, Zenon DEF StartKernel
    <2>3. CASE SettingUp \/ Requesting \/ RunProgram \/ StartScheduler
      BY <2>3, Zenon DEF SettingUp, Requesting, RunProgram, StartScheduler
    <2>4. CASE Registering \/ Reporting
      BY <2>4, Zenon DEF Registering, Reporting
    <2>5. CASE UNCHANGED systemVars
      BY <2>5, Zenon DEF systemVars
    <2> QED
      BY <2>1, <2>2, <2>3, <2>4, <2>5, Zenon DEF SystemNext
  <1> QED
    BY <1>1, <1>2, PTL DEF SystemSpec

\* Whatever loader started the kernel and whatever is registered or reported when it
\* runs, the initialisation takes its own steps, each once and in its order.
THEOREM SetupPart == SystemSpec => SetupInit /\ [][SetupNext]_setupVars
  <1>1. SystemInit => SetupInit
    BY DEF SystemInit
  <1>2. [SystemNext]_systemVars => [SetupNext]_setupVars
    <2> SUFFICES ASSUME [SystemNext]_systemVars PROVE [SetupNext]_setupVars
      OBVIOUS
    <2>1. CASE Loading
      BY <2>1, Zenon DEF Loading
    <2>2. CASE StartKernel
      BY <2>2, Zenon DEF StartKernel, SetupNext
    <2>3. CASE SettingUp \/ Requesting \/ RunProgram \/ StartScheduler
      BY <2>3, Zenon DEF SettingUp, Requesting, RunProgram, StartScheduler, SetupNext
    <2>4. CASE Registering \/ Reporting
      BY <2>4, Zenon DEF Registering, Reporting
    <2>5. CASE UNCHANGED systemVars
      BY <2>5, Zenon DEF systemVars
    <2> QED
      BY <2>1, <2>2, <2>3, <2>4, <2>5, Zenon DEF SystemNext
  <1> QED
    BY <1>1, <1>2, PTL DEF SystemSpec

\* The loader and the initialisation do not touch the tables and the state of the
\* diagnostics.
THEOREM DebugPart == SystemSpec => DebugSpec
  <1>1. SystemInit => DebugInit
    BY DEF SystemInit
  <1>2. [SystemNext]_systemVars => [DebugNext]_debugVars
    <2> SUFFICES ASSUME [SystemNext]_systemVars PROVE [DebugNext]_debugVars
      OBVIOUS
    <2>1. CASE Loading
      BY <2>1, Zenon DEF Loading
    <2>2. CASE StartKernel
      BY <2>2, Zenon DEF StartKernel
    <2>3. CASE SettingUp \/ Requesting \/ RunProgram \/ StartScheduler
      BY <2>3, Zenon DEF SettingUp, Requesting, RunProgram, StartScheduler
    <2>4. CASE Registering \/ Reporting
      BY <2>4, Zenon DEF Registering, Reporting, DebugNext
    <2>5. CASE UNCHANGED systemVars
      BY <2>5, Zenon DEF systemVars
    <2> QED
      BY <2>1, <2>2, <2>3, <2>4, <2>5, Zenon DEF SystemNext
  <1> QED
    BY <1>1, <1>2, PTL DEF SystemSpec, DebugSpec

\* From the kernel's first instruction on no step is the loader's any more: it is not
\* started again, and gives nothing back.
THEOREM BegunAfterLoading ==
  SystemSpec => [](pc # "begin" => loader = "kernel")
  <1>1. SystemInit => (pc # "begin" => loader = "kernel")
    BY DEF SystemInit, SetupInit
  <1>2. (pc # "begin" => loader = "kernel") /\ [SystemNext]_systemVars
          => (pc # "begin" => loader = "kernel")'
    <2> SUFFICES ASSUME pc # "begin" => loader = "kernel", [SystemNext]_systemVars,
                        pc' # "begin"
                 PROVE  loader' = "kernel"
      OBVIOUS
    <2>1. CASE Loading
      <3>1. pc' = pc
        BY <2>1, Zenon DEF Loading, setupVars
      <3>2. loader = "kernel" /\ LoaderNext
        BY <2>1, <3>1, Zenon DEF Loading
      <3> QED
        BY <3>2 DEF LoaderNext, Call, PresentXMS, EnableA20, AcquireHMA, Allocate, Lock, Align,
                    LoadKernel, LoopEnds, LoadPage, PageSetup, StartAgain, Finished, loaderVars
    <2>2. CASE StartKernel
      BY <2>2 DEF StartKernel, loaderVars
    <2>3. CASE SettingUp \/ Requesting \/ RunProgram \/ StartScheduler
      <3>1. loader' = loader
        BY <2>3, Zenon DEF SettingUp, Requesting, RunProgram, StartScheduler, loaderVars
      <3>2. pc # "begin"
        BY <2>3 DEF SettingUp, SetupStep, Segments, PicOutb, WriteGate, ConfigurePIT, Reflect,
                    Requesting, Raise, RunProgram, CallInt, StartScheduler, InitScheduler
      <3> QED
        BY <3>1, <3>2
    <2>4. CASE Registering \/ Reporting
      BY <2>4, Zenon DEF Registering, Reporting, loaderVars, setupVars
    <2>5. CASE UNCHANGED systemVars
      BY <2>5, Zenon DEF systemVars, loaderVars, setupVars
    <2> QED
      BY <2>1, <2>2, <2>3, <2>4, <2>5, Zenon DEF SystemNext
  <1> QED
    BY <1>1, <1>2, PTL DEF SystemSpec
=============================================================================
