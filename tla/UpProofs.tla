------------------------------ MODULE UpProofs ------------------------------
(***************************************************************************)
(* Proofs about the session controller of Up, for every value of the      *)
(* constants: type correctness, and that every activation switches its    *)
(* sync engine to bidirectional mode only after its drains.               *)
(***************************************************************************)
EXTENDS Up, TLAPS

SyType == [mode : {"sendonly", "sendreceive"}, drains : Nat, overridden : BOOLEAN]

\* Type facts about the one send on up.Exit that Activate makes.
LEMMA ExitWithType ==
    ASSUME TypeOK, NEW v \in ExitVals, ExitWith(v)
    PROVE  /\ exitCh' \in Seq(ExitVals) /\ Len(exitCh') <= 1
           /\ apc' = "done"
BY DEF TypeOK, ExitWith

\* Type facts about a best-effort stop request to a shell.
LEMMA HttpStopType ==
    ASSUME TypeOK, NEW k, HttpStop(k)
    PROVE  shell' \in [Gens -> ShellStates]
BY DEF TypeOK, HttpStop, ShellStates

(* Every step of the Activate goroutine preserves the types; one lemma    *)
(* per action, each split along the variables the action writes.          *)

ActStep(A) == TypeOK /\ A /\ UNCHANGED <<EnvVars, mpc, result>>

(* TypeOK alone is not inductive: Shutdown cancels the current generation  *)
(* and WaiterSend reports the result of its shell, which are well typed   *)
(* only because Activate has connected once and the shell has exited.     *)
GenLive == apc \in {"idle", "connect"} \/ gen \in Gens
ExitedHasResult == \A k \in Gens : shell[k] = "exited" => res[k] \in ShellResults
IInv == TypeOK /\ GenLive /\ ExitedHasResult
USE DEF EnvVars

LEMMA ConnectType == ActStep(Connect) => TypeOK'
<1> SUFFICES ASSUME ActStep(Connect) PROVE TypeOK'
    OBVIOUS
<1> USE DEF ActStep, TypeOK, MonitorStates, ShellStates, ShellResults, Completion
<1>1. gen' \in Nat /\ cancelled' \subseteq Gens'
    BY DEF Connect, Gens
<1>2. /\ monitor' \in [Gens' -> MonitorStates]
      /\ shell' \in [Gens' -> ShellStates]
      /\ res' \in [Gens' -> ShellResults \cup {"none"}]
    BY DEF Connect, Gens
<1>3. disconnect' \in Seq(Gens') /\ Len(disconnect') <= 1
    BY DEF Connect, Gens
<1>4. /\ exitCh' \in Seq(ExitVals) /\ Len(exitCh') <= 1
      /\ sy' \in SyType
      /\ apc' \in {"startSync", "done"}
  <2>1. CASE sy' = FreshSy /\ apc' = "startSync" /\ UNCHANGED exitCh
      BY <2>1 DEF FreshSy, SyType
  <2>2. CASE ExitWith("ConnectErr") /\ sy' \in {sy, FreshSy}
    <3>1. exitCh' \in Seq(ExitVals) /\ Len(exitCh') <= 1 /\ apc' = "done"
        BY <2>2, ExitWithType DEF ExitVals
    <3>2. sy' \in SyType
      <4>1. sy' = sy \/ sy' = FreshSy
          BY <2>2
      <4>2. sy \in SyType /\ FreshSy \in SyType
          BY DEF SyType, FreshSy
      <4>3. QED
          BY <4>1, <4>2
    <3>3. QED
        BY <3>1, <3>2
  <2>3. QED
      BY <2>1, <2>2 DEF Connect
<1>5. UNCHANGED <<running, fwd>>
    BY DEF Connect
<1>6. QED
    BY <1>1, <1>2, <1>3, <1>4, <1>5 DEF SyType

LEMMA StartSyncType == ActStep(StartSync) => TypeOK'
<1> SUFFICES ASSUME ActStep(StartSync) PROVE TypeOK'
    OBVIOUS
<1>1. UNCHANGED <<gen, cancelled, sy, shell, res, running, disconnect, EnvVars, mpc, result>>
    BY DEF ActStep, StartSync
<1>2. /\ fwd' \in {"none", "created", "started", "stopped"}
      /\ monitor' \in [Gens -> MonitorStates]
      /\ exitCh' \in Seq(ExitVals) /\ Len(exitCh') <= 1
      /\ apc' \in {"waitSync", "done"}
  <2> USE DEF ActStep, TypeOK
  <2>1. CASE IsInjective(bindings) /\ fwd' = "started"
             /\ monitor' = [monitor EXCEPT ![gen] = "watching"]
             /\ apc' = "waitSync" /\ UNCHANGED exitCh
      BY <2>1 DEF MonitorStates
  <2>2. CASE ExitWith("SyncErr") /\ UNCHANGED <<fwd, monitor>>
      BY <2>2, ExitWithType DEF ExitVals
  <2>3. CASE ~IsInjective(bindings) /\ fwd' = "created" /\ ExitWith("SyncErr")
             /\ UNCHANGED monitor
      BY <2>3, ExitWithType DEF ExitVals
  <2>4. QED
      BY <2>1, <2>2, <2>3 DEF StartSync
<1>3. QED
    BY <1>1, <1>2 DEF ActStep, TypeOK, Gens

\* WaitSync, Override and Flip differ only in how they change sy.
LEMMA PhaseType ==
    ASSUME TypeOK, UNCHANGED <<EnvVars, mpc, result>>,
           UNCHANGED <<gen, cancelled, fwd, monitor, shell, res, running, disconnect>>,
           sy' \in SyType,
           NEW v \in ExitVals, NEW p \in {"override", "flip", "exec"},
           \/ apc' = p /\ UNCHANGED exitCh
           \/ ExitWith(v)
    PROVE  TypeOK'
<1>1. /\ exitCh' \in Seq(ExitVals) /\ Len(exitCh') <= 1
      /\ apc' \in {"override", "flip", "exec", "done"}
    BY ExitWithType DEF TypeOK
<1>2. QED
    BY <1>1 DEF TypeOK, SyType, Gens

\* The changes WaitSync and Override make to sy keep its type.
LEMMA DrainType ==
    ASSUME TypeOK, NEW o \in BOOLEAN,
           sy' = [mode |-> sy.mode, drains |-> sy.drains + 1, overridden |-> o]
    PROVE  sy' \in SyType
BY DEF TypeOK, SyType

LEMMA WaitSyncType == ActStep(WaitSync) => TypeOK'
<1> SUFFICES ASSUME ActStep(WaitSync) PROVE TypeOK'
    OBVIOUS
<1>1. sy' \in SyType
  <2>1. CASE sy' = [mode |-> sy.mode, drains |-> sy.drains + 1, overridden |-> sy.overridden]
      BY <2>1, DrainType DEF ActStep, TypeOK
  <2>2. CASE UNCHANGED sy
      BY <2>2 DEF ActStep, TypeOK, SyType
  <2>3. QED
      BY <2>1, <2>2 DEF WaitSync, ActStep
<1>2. \/ apc' = "override" /\ UNCHANGED exitCh
      \/ ExitWith("SyncErr")
    BY DEF WaitSync, ActStep
<1>3. QED
    BY <1>1, <1>2, PhaseType DEF ActStep, WaitSync, ExitVals

LEMMA OverrideType == ActStep(Override) => TypeOK'
<1> SUFFICES ASSUME ActStep(Override) PROVE TypeOK'
    OBVIOUS
<1>1. sy' \in SyType
  <2>1. CASE sy' = [mode |-> sy.mode, drains |-> sy.drains + 1, overridden |-> TRUE]
      BY <2>1, DrainType DEF ActStep, TypeOK
  <2>2. CASE UNCHANGED sy
      BY <2>2 DEF ActStep, TypeOK, SyType
  <2>3. QED
      BY <2>1, <2>2 DEF Override, ActStep
<1>2. \/ apc' = "flip" /\ UNCHANGED exitCh
      \/ ExitWith("FinalizeErr")
    BY DEF Override, ActStep
<1>3. QED
    BY <1>1, <1>2, PhaseType DEF ActStep, Override, ExitVals

LEMMA FlipType == ActStep(Flip) => TypeOK'
<1> SUFFICES ASSUME ActStep(Flip) PROVE TypeOK'
    OBVIOUS
<1>1. sy' \in SyType
    BY DEF ActStep, Flip, TypeOK, SyType
<1>2. \/ apc' = "exec" /\ UNCHANGED exitCh
      \/ ExitWith("FinalizeErr")
    BY DEF Flip, ActStep
<1>3. QED
    BY <1>1, <1>2, PhaseType DEF ActStep, Flip, ExitVals

LEMMA ExecType == ActStep(Exec) => TypeOK'
<1> SUFFICES ASSUME ActStep(Exec) PROVE TypeOK'
    OBVIOUS
<1>1. UNCHANGED <<gen, cancelled, sy, fwd, monitor, res, running, disconnect, EnvVars, mpc, result>>
    BY DEF ActStep, Exec
<1>2. /\ shell' \in [Gens -> ShellStates]
      /\ exitCh' \in Seq(ExitVals) /\ Len(exitCh') <= 1
      /\ apc' \in {"wait", "done"}
  <2> USE DEF ActStep, TypeOK
  <2>1. CASE shell' = [shell EXCEPT ![gen] = "running"] /\ apc' = "wait" /\ UNCHANGED exitCh
      BY <2>1 DEF ShellStates
  <2>2. CASE ExitWith("ExecErr") /\ UNCHANGED shell
      BY <2>2, ExitWithType DEF ExitVals
  <2>3. QED
      BY <2>1, <2>2 DEF Exec
<1>3. QED
    BY <1>1, <1>2 DEF ActStep, TypeOK, Gens

\* The reconnect decision either moves to shutdown or sends on up.Exit.
LEMMA DecideType ==
    ASSUME TypeOK, NEW e, Decide(e)
    PROVE  /\ exitCh' \in Seq(ExitVals) /\ Len(exitCh') <= 1
           /\ apc' \in {"shutdown", "done"}
<1>1. CASE e = "LostConnection" \/ (e = "CommandFailed" /\ ~netUp)
    BY <1>1 DEF Decide, TypeOK
<1>2. CASE ~(e = "LostConnection" \/ (e = "CommandFailed" /\ ~netUp))
    BY <1>2, ExitWithType DEF Decide, ExitVals, NoError
<1>3. QED
    BY <1>1, <1>2

LEMMA WaitType == ActStep(Wait) => TypeOK'
<1> SUFFICES ASSUME ActStep(Wait) PROVE TypeOK'
    OBVIOUS
<1>1. UNCHANGED <<gen, cancelled, sy, fwd, monitor, res, EnvVars, mpc, result>>
    BY DEF ActStep, Wait
<1>2. /\ shell' \in [Gens -> ShellStates]
      /\ running' \in Seq(Completion) /\ Len(running') <= 1
      /\ disconnect' \in Seq(Gens) /\ Len(disconnect') <= 1
      /\ exitCh' \in Seq(ExitVals) /\ Len(exitCh') <= 1
      /\ apc' \in {"shutdown", "done"}
  <2>1. CASE HttpStop(gen) /\ Decide(NoError) /\ UNCHANGED <<running, disconnect>>
      BY <2>1, HttpStopType, DecideType DEF ActStep, TypeOK
  <2>2. CASE running # <<>> /\ running' = Tail(running)
             /\ Decide(IF Head(running).res = "fail" THEN "CommandFailed" ELSE NoError)
             /\ UNCHANGED <<shell, disconnect>>
    <3>1. running' \in Seq(Completion) /\ Len(running') <= 1
        BY <2>2 DEF ActStep, TypeOK
    <3>2. QED
        BY <2>2, <3>1, DecideType DEF ActStep, TypeOK
  <2>3. CASE disconnect # <<>> /\ disconnect' = Tail(disconnect) /\ HttpStop(gen)
             /\ Decide("LostConnection") /\ UNCHANGED running
    <3>1. disconnect' \in Seq(Gens) /\ Len(disconnect') <= 1
        BY <2>3 DEF ActStep, TypeOK
    <3>2. QED
        BY <2>3, <3>1, HttpStopType, DecideType DEF ActStep, TypeOK
  <2>4. QED
      BY <2>1, <2>2, <2>3 DEF Wait, ActStep
<1>3. QED
    BY <1>1, <1>2 DEF ActStep, TypeOK, Gens

LEMMA ActivateType ==
    TypeOK /\ GenLive /\ ActivateStep /\ UNCHANGED <<EnvVars, mpc, result>> => TypeOK'
<1> SUFFICES ASSUME TypeOK, GenLive, ActivateStep, UNCHANGED <<EnvVars, mpc, result>>
             PROVE  TypeOK'
    OBVIOUS
<1>1. CASE Start
    BY <1>1 DEF Start, TypeOK, Gens
<1>2. CASE Shutdown
  <2>1. gen \in Gens
      BY <1>2 DEF Shutdown, GenLive
  <2>2. QED
      BY <1>2, <2>1 DEF Shutdown, TypeOK, Gens
<1>3. CASE ShutdownTimeout
    BY <1>3 DEF ShutdownTimeout, TypeOK, Gens
<1>4. QED
    BY <1>1, <1>2, <1>3, ConnectType, StartSyncType, WaitSyncType, OverrideType,
       FlipType, ExecType, WaitType DEF ActivateStep, ActStep

LEMMA MainType ==
    TypeOK /\ MainStep /\ UNCHANGED <<EnvVars, monitor, shell, res, running, disconnect>>
    => TypeOK'
<1> SUFFICES ASSUME TypeOK, MainStep,
                    UNCHANGED <<EnvVars, monitor, shell, res, running, disconnect>>
             PROVE  TypeOK'
    OBVIOUS
<1>1. CASE MainSelect
  <2>1. UNCHANGED <<apc, gen, cancelled, sy, fwd>> /\ mpc' = "shutdown"
      BY <1>1 DEF MainSelect
  <2>2. /\ exitCh' \in Seq(ExitVals) /\ Len(exitCh') <= 1
        /\ result' \in ExitVals \cup {"none"}
      BY <1>1 DEF MainSelect, TypeOK, ExitVals, NoError
  <2>3. QED
      BY <2>1, <2>2 DEF TypeOK, Gens
<1>2. CASE MainShutdown
  <2>1. UNCHANGED <<apc, gen, sy, exitCh, result>> /\ mpc' = "wait"
      BY <1>2 DEF MainShutdown
  <2>2. cancelled' \subseteq Gens /\ fwd' \in {"none", "created", "started", "stopped"}
      BY <1>2 DEF MainShutdown, TypeOK, Gens
  <2>3. QED
      BY <2>1, <2>2 DEF TypeOK, Gens
<1>3. CASE MainWait
    BY <1>3 DEF MainWait, TypeOK, Gens
<1>4. QED
    BY <1>1, <1>2, <1>3 DEF MainStep

LEMMA EnvType ==
    TypeOK /\ EnvStep /\ UNCHANGED <<mpc, result>> => TypeOK'
<1> SUFFICES ASSUME TypeOK, EnvStep, UNCHANGED <<mpc, result>> PROVE TypeOK'
    OBVIOUS
<1>1. UNCHANGED <<ActVars, monitor, shell, res, running, disconnect, bindings>>
    BY DEF EnvStep, Interrupt, NetDrop, NetRecover
<1>2. sigint' \in BOOLEAN /\ netUp' \in BOOLEAN /\ drops' \in 0..MaxDrops
  <2>1. CASE Interrupt
      BY <2>1 DEF Interrupt, TypeOK
  <2>2. CASE NetDrop
    <3>1. drops \in 0..MaxDrops /\ drops < MaxDrops /\ drops' = drops + 1
        BY <2>2 DEF NetDrop, TypeOK
    <3>2. drops' \in 0..MaxDrops
        BY <3>1, UpAssumption
    <3>3. QED
        BY <2>2, <3>2 DEF NetDrop, TypeOK
  <2>3. CASE NetRecover
      BY <2>3 DEF NetRecover, TypeOK
  <2>4. QED
      BY <2>1, <2>2, <2>3 DEF EnvStep
<1>3. QED
    BY <1>1, <1>2 DEF ActVars, TypeOK, Gens

LEMMA TaskType ==
    ASSUME TypeOK, ExitedHasResult, NEW k \in Gens, TaskStep(k)
    PROVE  TypeOK'
<1>1. UNCHANGED <<ActVars, EnvVars, mpc, result>>
    BY DEF TaskStep
<1>2. CASE (MonitorDetect(k) \/ MonitorSend(k) \/ MonitorStop(k))
           /\ UNCHANGED <<shell, res, running>>
  <2>1. monitor' \in [Gens -> MonitorStates] /\ disconnect' \in Seq(Gens)
        /\ Len(disconnect') <= 1
      BY <1>1, <1>2 DEF MonitorDetect, MonitorSend, MonitorStop, MonitorStates,
                        TypeOK, ActVars
  <2>2. QED
      BY <1>1, <1>2, <2>1 DEF TypeOK, ActVars, Gens
<1>3. CASE (ShellExit(k) \/ WaiterSend(k)) /\ UNCHANGED <<monitor, disconnect>>
  <2>1. /\ shell' \in [Gens -> ShellStates]
        /\ res' \in [Gens -> ShellResults \cup {"none"}]
        /\ running' \in Seq(Completion) /\ Len(running') <= 1
    <3>1. CASE ShellExit(k)
        BY <1>1, <3>1 DEF ShellExit, ShellStates, ShellResults, TypeOK
    <3>2. CASE WaiterSend(k)
      <4>1. res[k] \in ShellResults /\ k \in Nat \ {0}
          BY <3>2 DEF WaiterSend, ExitedHasResult, Gens
      <4>2. [gen |-> k, res |-> res[k]] \in Completion
          BY <4>1 DEF Completion
      <4>3. QED
          BY <3>2, <4>2 DEF WaiterSend, ShellStates, TypeOK
    <3>3. QED
        BY <1>3, <3>1, <3>2
  <2>2. QED
      BY <1>1, <1>3, <2>1 DEF TypeOK, ActVars, Gens
<1>4. QED
    BY <1>2, <1>3 DEF TaskStep

\* Activate has a generation from its first Connect on.
LEMMA GenLiveStep ==
    ASSUME TypeOK, GenLive, [Next]_vars
    PROVE  GenLive'
<1>1. CASE UNCHANGED <<apc, gen>>
    BY <1>1 DEF GenLive, Gens
<1>2. CASE Connect
    BY <1>2 DEF Connect, GenLive, Gens, ExitWith, TypeOK
<1>3. CASE Start \/ ShutdownTimeout
    BY <1>3 DEF Start, ShutdownTimeout, GenLive
<1>4. CASE StartSync \/ WaitSync \/ Override \/ Flip \/ Exec \/ Wait \/ Shutdown
  <2>1. gen \in Gens /\ UNCHANGED gen
      BY <1>4 DEF StartSync, WaitSync, Override, Flip, Exec, Wait, Shutdown, GenLive
  <2>2. QED
      BY <2>1 DEF GenLive, Gens
<1>5. CASE MainStep
    BY <1>5, <1>1 DEF MainStep, MainSelect, MainShutdown, MainWait
<1>6. CASE EnvStep
    BY <1>6, <1>1 DEF EnvStep, ActVars
<1>7. CASE \E k \in Gens : TaskStep(k)
    BY <1>7, <1>1 DEF TaskStep, ActVars
<1>8. QED
    BY <1>1, <1>2, <1>3, <1>4, <1>5, <1>6, <1>7 DEF Next, ActivateStep, Exited, vars

\* A shell is marked exited only together with the result cmd.Wait returned.
LEMMA ExitedStep ==
    ASSUME TypeOK, ExitedHasResult, [Next]_vars
    PROVE  ExitedHasResult'
<1>1. CASE UNCHANGED <<gen, shell, res>>
    BY <1>1 DEF ExitedHasResult, Gens
<1>2. CASE Connect
    BY <1>2 DEF Connect, ExitedHasResult, Gens, TypeOK
<1>3. CASE Exec \/ Wait
  <2>1. UNCHANGED <<gen, res>>
      BY <1>3 DEF Exec, Wait
  <2>2. \A k \in Gens : shell'[k] = "exited" => shell[k] = "exited"
      BY <1>3 DEF Exec, Wait, HttpStop, Decide, TypeOK, ShellStates
  <2>3. QED
      BY <2>1, <2>2 DEF ExitedHasResult, Gens, TypeOK
<1>4. CASE Start \/ StartSync \/ WaitSync \/ Override \/ Flip \/ Shutdown \/ ShutdownTimeout
    BY <1>4, <1>1 DEF Start, StartSync, WaitSync, Override, Flip, Shutdown, ShutdownTimeout
<1>5. CASE MainStep /\ UNCHANGED <<shell, res>>
    BY <1>5, <1>1 DEF MainStep, MainSelect, MainShutdown, MainWait
<1>6. CASE EnvStep
    BY <1>6, <1>1 DEF EnvStep, ActVars
<1>7. ASSUME NEW k \in Gens, TaskStep(k) PROVE ExitedHasResult'
  <2>1. UNCHANGED gen
      BY <1>7 DEF TaskStep, ActVars
  <2>2. CASE UNCHANGED <<shell, res>>
      BY <2>1, <2>2, <1>1
  <2>3. CASE ShellExit(k)
      BY <2>1, <2>3 DEF ShellExit, ExitedHasResult, TypeOK, Gens
  <2>4. CASE WaiterSend(k)
      BY <2>1, <2>4 DEF WaiterSend, ExitedHasResult, TypeOK, Gens
  <2>5. QED
      BY <1>7, <2>2, <2>3, <2>4 DEF TaskStep
<1>8. QED
    BY <1>1, <1>2, <1>3, <1>4, <1>5, <1>6, <1>7 DEF Next, ActivateStep, Exited, vars

\* IInv is inductive.
LEMMA IInvStep == IInv /\ [Next]_vars => IInv'
<1> SUFFICES ASSUME IInv, [Next]_vars PROVE IInv'
    OBVIOUS
<1>1. TypeOK'
  <2> USE DEF IInv
  <2>1. CASE MainStep /\ UNCHANGED <<EnvVars, monitor, shell, res, running, disconnect>>
      BY <2>1, MainType
  <2>2. CASE Alive /\ ActivateStep /\ UNCHANGED <<EnvVars, mpc, result>>
      BY <2>2, ActivateType
  <2>3. CASE Alive /\ EnvStep /\ UNCHANGED <<mpc, result>>
      BY <2>3, EnvType
  <2>4. CASE Alive /\ \E k \in Gens : TaskStep(k)
      BY <2>4, TaskType
  <2>5. CASE Exited \/ UNCHANGED vars
    <3>1. UNCHANGED vars
        BY <2>5 DEF Exited
    <3>2. UNCHANGED <<apc, gen, cancelled, sy, fwd, monitor, shell, res, running>>
        BY <3>1 DEF vars
    <3>3. UNCHANGED <<disconnect, exitCh, sigint, mpc, result, netUp, drops, bindings>>
        BY <3>1 DEF vars
    <3>4. QED
        BY <3>2, <3>3 DEF TypeOK, Gens
  <2>6. QED
      BY <2>1, <2>2, <2>3, <2>4, <2>5 DEF Next
<1>2. GenLive' /\ ExitedHasResult'
    BY GenLiveStep, ExitedStep DEF IInv
<1>3. QED
    BY <1>1, <1>2 DEF IInv

\* Init establishes IInv.
LEMMA InitIInv == Init => IInv
<1> SUFFICES ASSUME Init PROVE IInv
    OBVIOUS
<1> USE DEF Init, Gens
<1>1. /\ sy \in SyType
      /\ monitor \in [Gens -> MonitorStates]
      /\ shell \in [Gens -> ShellStates]
      /\ res \in [Gens -> ShellResults \cup {"none"}]
    BY DEF FreshSy, SyType, MonitorStates, ShellStates
<1>2. /\ running \in Seq(Completion) /\ Len(running) <= 1
      /\ disconnect \in Seq(Gens) /\ Len(disconnect) <= 1
      /\ exitCh \in Seq(ExitVals) /\ Len(exitCh) <= 1
      /\ result \in ExitVals \cup {"none"}
    OBVIOUS
<1>3. drops \in 0..MaxDrops
    BY UpAssumption
<1>4. GenLive /\ ExitedHasResult
    BY DEF GenLive, ExitedHasResult
<1>5. QED
    BY <1>1, <1>2, <1>3, <1>4 DEF IInv, TypeOK, SyType

(* Every reachable state is well typed: Init establishes the inductive     *)
(* strengthening IInv and every step of Next preserves it.                 *)
THEOREM TypeCorrect == Spec => []TypeOK
<1>1. Init => IInv
    BY InitIInv
<1>2. IInv /\ [Next]_vars => IInv'
    BY IInvStep
<1>3. IInv => TypeOK
    BY DEF IInv
<1>4. QED
    BY <1>1, <1>2, <1>3, PTL DEF Spec

(* The mode flip: an activation's sync engine is bidirectional only after  *)
(* OverrideChanges and two drains.  FlipInv adds what Activate's program   *)
(* counter says about the drains done so far.                              *)
FlipInv ==
    /\ ModeFlipAfterDrain
    /\ apc = "override" => sy.drains >= 1
    /\ apc = "flip" => sy.overridden /\ sy.drains >= 2

LEMMA FlipStep == TypeOK /\ FlipInv /\ [Next]_vars => FlipInv'
<1> SUFFICES ASSUME TypeOK, FlipInv, [Next]_vars PROVE FlipInv'
    OBVIOUS
<1>1. CASE UNCHANGED <<apc, sy>>
    BY <1>1 DEF FlipInv, ModeFlipAfterDrain
<1>2. CASE UNCHANGED sy /\ apc' \notin {"override", "flip"}
    BY <1>2 DEF FlipInv, ModeFlipAfterDrain
<1>3. CASE Connect
  <2>1. sy' \in {sy, FreshSy} /\ apc' \in {"startSync", "done"}
      BY <1>3 DEF Connect, ExitWith
  <2>2. QED
      BY <2>1 DEF FlipInv, ModeFlipAfterDrain, FreshSy
<1>4. CASE WaitSync
    BY <1>4 DEF WaitSync, ExitWith, FlipInv, ModeFlipAfterDrain, TypeOK
<1>5. CASE Override
    BY <1>5 DEF Override, ExitWith, FlipInv, ModeFlipAfterDrain, TypeOK
<1>6. CASE Flip
    BY <1>6 DEF Flip, ExitWith, FlipInv, ModeFlipAfterDrain, TypeOK
<1>7. CASE Start \/ StartSync \/ Exec \/ Wait \/ Shutdown \/ ShutdownTimeout
  <2>1. UNCHANGED sy /\ apc' \notin {"override", "flip"}
      BY <1>7 DEF Start, StartSync, Exec, Wait, Decide, ExitWith, Shutdown, ShutdownTimeout
  <2>2. QED
      BY <2>1, <1>2
<1>8. CASE MainStep \/ EnvStep \/ \E k \in Gens : TaskStep(k)
  <2>1. UNCHANGED <<apc, sy>>
      BY <1>8 DEF MainStep, MainSelect, MainShutdown, MainWait, EnvStep, TaskStep, ActVars
  <2>2. QED
      BY <2>1, <1>1
<1>9. QED
    BY <1>1, <1>3, <1>4, <1>5, <1>6, <1>7, <1>8 DEF Next, ActivateStep, Exited, vars

(* Spec 8: SetMode(bidirectional) is never invoked before the first drain *)
(* of the same activation; forceLocalSyncState sets Sy.Type only after    *)
(* OverrideChanges and its WaitForCompletion, for every reconnect.         *)
THEOREM ModeFlipSafe == Spec => []ModeFlipAfterDrain
<1>1. Init => IInv /\ FlipInv
  <2>1. Init => IInv
      BY InitIInv
  <2>2. Init => FlipInv
      BY DEF Init, FlipInv, ModeFlipAfterDrain, FreshSy
  <2>3. QED
      BY <2>1, <2>2
<1>2. IInv /\ FlipInv /\ [Next]_vars => IInv' /\ FlipInv'
    BY IInvStep, FlipStep DEF IInv
<1>3. IInv /\ FlipInv => ModeFlipAfterDrain
    BY DEF FlipInv
<1>4. QED
    BY <1>1, <1>2, <1>3, PTL DEF Spec

-----------------------------------------------------------------------------
(* Up implements the Session Phase machine.  The refinement mapping reads *)
(* the phase off Activate's program counter; the step proof needs what   *)
(* that program counter says about the current attempt: its sync engine   *)
(* is send-only until Flip and bidirectional from then on, and its shell  *)
(* is unlaunched until Exec and launched from then on.                    *)
AttemptInv ==
    /\ apc \in {"startSync", "waitSync", "override", "flip"} => sy.mode = "sendonly"
    /\ apc \in {"startSync", "waitSync", "override", "flip", "exec"}
          => gen \in Gens /\ shell[gen] = "none"
    /\ apc \in {"exec", "wait", "shutdown", "shutdownWait"} => sy.mode = "sendreceive"
    /\ apc \in {"wait", "shutdown", "shutdownWait"} => gen \in Gens /\ shell[gen] # "none"

\* The steps of the monitors and the exec waiters move a shell only between
\* launched states, and leave Activate alone.
LEMMA TaskKeepsLaunch ==
    ASSUME TypeOK, NEW k \in Gens, TaskStep(k)
    PROVE  /\ UNCHANGED <<apc, gen, sy>>
           /\ \A j \in Gens : shell'[j] = "none" <=> shell[j] = "none"
<1>1. UNCHANGED <<apc, gen, sy>>
    BY DEF TaskStep, ActVars
<1>2. CASE UNCHANGED shell
    BY <1>1, <1>2
<1>3. CASE ShellExit(k) \/ WaiterSend(k)
  <2>1. shell[k] # "none" /\ shell' = [shell EXCEPT ![k] = shell'[k]]
      BY <1>3 DEF ShellExit, WaiterSend
  <2>2. shell'[k] # "none"
      BY <1>3, <2>1 DEF ShellExit, WaiterSend, TypeOK
  <2>3. QED
      BY <1>1, <2>1, <2>2 DEF TypeOK
<1>4. QED
    BY <1>1, <1>2, <1>3 DEF TaskStep

LEMMA AttemptStep == IInv /\ AttemptInv /\ [Next]_vars => AttemptInv'
<1> SUFFICES ASSUME IInv, AttemptInv, [Next]_vars PROVE AttemptInv'
    OBVIOUS
<1>1. CASE UNCHANGED <<apc, gen, sy>>
           /\ \A j \in Gens : shell'[j] = "none" <=> shell[j] = "none"
    BY <1>1 DEF AttemptInv, Gens
<1>2. CASE Start \/ ShutdownTimeout
    BY <1>2 DEF Start, ShutdownTimeout, AttemptInv
<1>3. CASE Connect
  <2>1. CASE apc' = "startSync"
    <3>1. sy' = FreshSy /\ gen' = gen + 1 /\ gen \in Nat
        BY <1>3, <2>1 DEF Connect, ExitWith, IInv, TypeOK
    <3>2. gen' \in Gens' /\ shell'[gen'] = "none"
        BY <1>3, <3>1 DEF Connect, Gens
    <3>3. QED
        BY <2>1, <3>1, <3>2 DEF AttemptInv, FreshSy
  <2>2. CASE apc' # "startSync"
      BY <1>3, <2>2 DEF Connect, ExitWith, AttemptInv
  <2>3. QED
      BY <2>1, <2>2
<1>4. CASE StartSync \/ WaitSync \/ Override \/ Flip
  <2>1. /\ UNCHANGED <<gen, shell>>
        /\ apc' \in {"waitSync", "override", "flip", "exec", "done"}
        /\ apc = "flip" => sy'.mode = "sendreceive" /\ apc' \in {"exec", "done"}
        /\ apc # "flip" => sy'.mode = sy.mode /\ apc' # "exec"
        /\ apc \in {"startSync", "waitSync", "override", "flip"}
      BY <1>4 DEF StartSync, WaitSync, Override, Flip, ExitWith
  <2>2. QED
      BY <2>1 DEF AttemptInv, Gens
<1>5. CASE Exec
  <2>1. apc = "exec" /\ UNCHANGED <<gen, sy>>
      BY <1>5 DEF Exec
  <2>2. CASE apc' = "wait"
    <3>1. shell' = [shell EXCEPT ![gen] = "running"]
        BY <1>5, <2>2 DEF Exec, ExitWith
    <3>2. gen \in Gens /\ shell'[gen] # "none"
        BY <2>1, <3>1 DEF AttemptInv, IInv, TypeOK
    <3>3. QED
        BY <2>1, <2>2, <3>2 DEF AttemptInv, Gens
  <2>3. CASE apc' # "wait"
      BY <1>5, <2>3 DEF Exec, ExitWith, AttemptInv
  <2>4. QED
      BY <2>2, <2>3
<1>6. CASE Wait
  <2>1. /\ apc = "wait" /\ UNCHANGED <<gen, sy>>
        /\ apc' \in {"shutdown", "done"}
        /\ shell' \in {shell, [shell EXCEPT ![gen] = IF @ = "running" THEN "stopping" ELSE @]}
      BY <1>6 DEF Wait, Decide, ExitWith, HttpStop
  <2>2. gen \in Gens /\ shell[gen] # "none"
      BY <2>1 DEF AttemptInv
  <2>3. shell'[gen] # "none"
      BY <2>1, <2>2 DEF IInv, TypeOK
  <2>4. QED
      BY <2>1, <2>2, <2>3 DEF AttemptInv, Gens
<1>7. CASE Shutdown
    BY <1>7 DEF Shutdown, AttemptInv, Gens
<1>8. CASE MainStep \/ EnvStep
  <2>1. UNCHANGED <<apc, gen, sy, shell>>
      BY <1>8 DEF MainStep, MainSelect, MainShutdown, MainWait, EnvStep, ActVars
  <2>2. QED
      BY <1>1, <1>8, <2>1
<1>9. CASE \E k \in Gens : TaskStep(k)
    BY <1>1, <1>9, TaskKeepsLaunch DEF IInv
<1>10. CASE Exited \/ UNCHANGED vars
    BY <1>1, <1>10 DEF Exited, vars
<1>11. QED
    BY <1>2, <1>3, <1>4, <1>5, <1>6, <1>7, <1>8, <1>9, <1>10 DEF Next, ActivateStep

\* Any step of Activate to "done" ends the session.
LEMMA TerminateStep ==
    ASSUME TypeOK, apc # "done", apc' = "done"
    PROVE  Session!Terminate
BY DEF Session!Terminate, PhaseOf, TypeOK

\* A step that moves neither Activate nor the launch state of the current
\* shell is a stutter of the phase machine.
LEMMA StutterStep ==
    ASSUME UNCHANGED <<apc, gen, sy>>,
           \A j \in Gens : shell'[j] = "none" <=> shell[j] = "none"
    PROVE  UNCHANGED Session!vars
BY DEF Session!vars, Gens

\* A step of Activate between two points short of "done" that keeps the
\* current attempt's sync engine mode and shell is a move of the phase machine.
LEMMA MoveStep ==
    ASSUME NEW from, NEW to, PhaseOf[apc] = from, PhaseOf[apc'] = to,
           apc # "done", apc' # "done", UNCHANGED gen,
           sy'.mode = sy.mode, shell'[gen] = "none" <=> shell[gen] = "none"
    PROVE  Session!Move(from, to)
<1>1. (apc' # "done" /\ sy'.mode = "sendreceive") <=> (apc # "done" /\ sy.mode = "sendreceive")
    OBVIOUS
<1>2. (apc' # "done" /\ gen' \in 1..gen' /\ shell'[gen'] # "none")
        <=> (apc # "done" /\ gen \in 1..gen /\ shell[gen] # "none")
    OBVIOUS
<1>3. QED
    BY <1>1, <1>2, Zenon DEF Session!Move, Gens

\* The same with no change of phase is a stutter of the phase machine.
LEMMA StayStep ==
    ASSUME PhaseOf[apc'] = PhaseOf[apc],
           apc # "done", apc' # "done", UNCHANGED gen,
           sy'.mode = sy.mode, shell'[gen] = "none" <=> shell[gen] = "none"
    PROVE  UNCHANGED Session!vars
<1>1. (apc' # "done" /\ sy'.mode = "sendreceive") <=> (apc # "done" /\ sy.mode = "sendreceive")
    OBVIOUS
<1>2. (apc' # "done" /\ gen' \in 1..gen' /\ shell'[gen'] # "none")
        <=> (apc # "done" /\ gen \in 1..gen /\ shell[gen] # "none")
    OBVIOUS
<1>3. QED
    BY <1>1, <1>2, Zenon DEF Session!vars, Gens

LEMMA RefineStep == IInv /\ AttemptInv /\ [Next]_vars => [Session!Next]_Session!vars
<1> SUFFICES ASSUME IInv, AttemptInv, [Next]_vars PROVE [Session!Next]_Session!vars
    OBVIOUS
<1>0. TypeOK
    BY DEF IInv
<1>1. CASE UNCHANGED <<apc, gen, sy>>
           /\ \A j \in Gens : shell'[j] = "none" <=> shell[j] = "none"
    BY <1>1, StutterStep
<1>2. CASE apc # "done" /\ apc' = "done"
    BY <1>0, <1>2, TerminateStep DEF Session!Next
<1>3. CASE Start
  <2>1. apc = "idle" /\ apc' = "connect" /\ UNCHANGED <<gen, sy, shell>>
      BY <1>3 DEF Start
  <2>2. Session!Move("Idle", "Connecting")
      BY <2>1, MoveStep DEF PhaseOf
  <2>3. QED
      BY <2>2 DEF Session!Next, Session!Begin
<1>4. CASE Connect
  <2>1. CASE apc' = "startSync"
    <3>1. sy' = FreshSy /\ gen' = gen + 1 /\ gen \in Nat /\ apc = "connect"
        BY <1>0, <1>4, <2>1 DEF Connect, ExitWith, TypeOK
    <3>2. shell'[gen'] = "none"
        BY <1>4, <3>1 DEF Connect, Gens
    <3>3. Session!Connect
        BY <2>1, <3>1, <3>2 DEF Session!Connect, PhaseOf, FreshSy
    <3>4. QED
        BY <3>3 DEF Session!Next
  <2>2. QED
      BY <1>2, <1>4, <2>1 DEF Connect, ExitWith
<1>5. CASE StartSync \/ Override
  <2>1. /\ UNCHANGED <<gen, shell>> /\ sy'.mode = sy.mode
        /\ apc \in {"startSync", "override"}
      BY <1>5 DEF StartSync, Override, ExitWith
  <2>2. CASE apc' # "done"
    <3>1. PhaseOf[apc'] = PhaseOf[apc]
        BY <1>5, <2>2 DEF StartSync, Override, ExitWith, PhaseOf
    <3>2. QED
        BY <2>1, <2>2, <3>1, StayStep
  <2>3. QED
      BY <1>2, <2>1, <2>2
<1>6. CASE WaitSync
  <2>1. CASE apc' = "override"
    <3>1. apc = "waitSync" /\ UNCHANGED <<gen, shell>> /\ sy'.mode = sy.mode
        BY <1>6 DEF WaitSync
    <3>2. Session!Synced
        BY <2>1, <3>1, MoveStep DEF Session!Synced, PhaseOf
    <3>3. QED
        BY <3>2 DEF Session!Next
  <2>2. QED
      BY <1>2, <1>6, <2>1 DEF WaitSync, ExitWith
<1>7. CASE Flip
  <2>1. CASE apc' = "exec"
    <3>1. apc = "flip" /\ UNCHANGED <<gen, shell>> /\ sy'.mode = "sendreceive"
        BY <1>7 DEF Flip
    <3>2. PhaseOf[apc] = "Finalizing" /\ PhaseOf[apc'] = "Running"
        BY <2>1, <3>1 DEF PhaseOf
    <3>3. (apc' # "done" /\ sy'.mode = "sendreceive") = TRUE
        BY <2>1, <3>1
    <3>4. (apc' # "done" /\ gen' \in 1..gen' /\ shell'[gen'] # "none")
            <=> (apc # "done" /\ gen \in 1..gen /\ shell[gen] # "none")
        BY <2>1, <3>1
    <3>5. Session!Finalize
        BY <3>2, <3>3, <3>4, Zenon DEF Session!Finalize, Gens
    <3>6. QED
        BY <3>5 DEF Session!Next
  <2>2. QED
      BY <1>2, <1>7, <2>1 DEF Flip, ExitWith
<1>8. CASE Exec
  <2>1. CASE apc' = "wait"
    <3>1. apc = "exec" /\ UNCHANGED <<gen, sy>>
          /\ shell' = [shell EXCEPT ![gen] = "running"]
        BY <1>8, <2>1 DEF Exec, ExitWith
    <3>2. gen \in Gens /\ shell[gen] = "none" /\ shell'[gen] = "running"
        BY <1>0, <3>1 DEF AttemptInv, TypeOK
    <3>3. PhaseOf[apc] = "Running" /\ PhaseOf[apc'] = "Running"
        BY <2>1, <3>1 DEF PhaseOf
    <3>4. /\ (apc # "done" /\ gen \in 1..gen /\ shell[gen] # "none") = FALSE
          /\ (apc' # "done" /\ gen' \in 1..gen' /\ shell'[gen'] # "none") = TRUE
        BY <2>1, <3>1, <3>2 DEF Gens
    <3>5. (apc' # "done" /\ sy'.mode = "sendreceive") <=> (apc # "done" /\ sy.mode = "sendreceive")
        BY <2>1, <3>1
    <3>6. UNCHANGED <<PhaseOf[apc], apc # "done" /\ sy.mode = "sendreceive">>
        BY <3>3, <3>5, Zenon
    <3>7. Session!Launch
        BY <3>3, <3>4, <3>6, Zenon DEF Session!Launch, Gens
    <3>8. QED
        BY <3>7 DEF Session!Next
  <2>2. QED
      BY <1>2, <1>8, <2>1 DEF Exec, ExitWith
<1>9. CASE Wait
  <2>1. CASE apc' = "shutdown"
    <3>1. /\ apc = "wait" /\ UNCHANGED <<gen, sy>>
          /\ shell' \in {shell, [shell EXCEPT ![gen] = IF @ = "running" THEN "stopping" ELSE @]}
        BY <1>9 DEF Wait, HttpStop
    <3>2. gen \in Gens /\ shell[gen] # "none" /\ shell'[gen] # "none"
        BY <1>0, <3>1 DEF AttemptInv, TypeOK
    <3>3. apc' # "done" /\ shell'[gen] = "none" <=> shell[gen] = "none"
        BY <2>1, <3>2
    <3>4. Session!Move("Running", "Disconnected")
        BY <2>1, <3>1, <3>3, MoveStep DEF PhaseOf
    <3>5. (apc # "done" /\ gen \in 1..gen /\ shell[gen] # "none") = TRUE
        BY <3>1, <3>2 DEF Gens
    <3>6. Session!Disconnect
        BY <3>4, <3>5, Zenon DEF Session!Disconnect, Gens
    <3>7. QED
        BY <3>6 DEF Session!Next
  <2>2. QED
      BY <1>2, <1>9, <2>1 DEF Wait, Decide, ExitWith
<1>10. CASE Shutdown \/ ShutdownTimeout
  <2>1. UNCHANGED <<gen, sy, shell>>
      BY <1>10 DEF Shutdown, ShutdownTimeout
  <2>2. Session!Recover \/ Session!Resume
    <3>1. CASE Shutdown
        BY <2>1, <3>1, MoveStep DEF Shutdown, Session!Recover, PhaseOf
    <3>2. CASE ShutdownTimeout
        BY <2>1, <3>2, MoveStep DEF ShutdownTimeout, Session!Resume, PhaseOf
    <3>3. QED
        BY <1>10, <3>1, <3>2
  <2>3. QED
      BY <2>2 DEF Session!Next
<1>11. CASE MainStep \/ EnvStep
  <2>1. UNCHANGED <<apc, gen, sy, shell>>
      BY <1>11 DEF MainStep, MainSelect, MainShutdown, MainWait, EnvStep, ActVars
  <2>2. QED
      BY <1>1, <2>1
<1>12. CASE \E k \in Gens : TaskStep(k)
    BY <1>0, <1>1, <1>12, TaskKeepsLaunch
<1>13. CASE Exited \/ UNCHANGED vars
    BY <1>1, <1>13 DEF Exited, vars
<1>14. QED
    BY <1>3, <1>4, <1>5, <1>6, <1>7, <1>8, <1>9, <1>10, <1>11, <1>12, <1>13
       DEF Next, ActivateStep

\* Init is the Idle phase, with no sync engine flipped and no shell launched.
LEMMA InitRefines == Init => Session!Init
<1> SUFFICES ASSUME Init PROVE Session!Init
    OBVIOUS
<1>1. PhaseOf[apc] = "Idle"
    BY DEF Init, PhaseOf
<1>2. (apc # "done" /\ sy.mode = "sendreceive") = FALSE
    BY DEF Init, FreshSy
<1>3. (apc # "done" /\ gen \in Gens /\ shell[gen] # "none") = FALSE
    BY DEF Init, Gens
<1>4. QED
    BY <1>1, <1>2, <1>3, Zenon DEF Session!Init

(* Spec 3 and 4.1: for every value of the constants, every behaviour of    *)
(* RunUp and Activate, with its reconnects, its monitors and its shells,  *)
(* is a behaviour of the Session Phase machine under the mapping PhaseOf: *)
(* the program counter says the phase, Sy.Type says whether the attempt's *)
(* engine is bidirectional, shell[gen] whether its shell was launched.    *)
THEOREM Refinement == Spec => SessionSpec
<1>1. Init => IInv /\ AttemptInv
    <2>1. Init => AttemptInv
        BY DEF Init, AttemptInv
    <2>2. QED
        BY <2>1, InitIInv
<1>2. IInv /\ AttemptInv /\ [Next]_vars => IInv' /\ AttemptInv'
    BY IInvStep, AttemptStep
<1>3. QED
    BY <1>1, <1>2, InitRefines, RefineStep, PTL DEF Spec, SessionSpec, Session!Spec

(* Spec 5, "the shell is never launched before finalize completes", for   *)
(* RunUp: while Activate runs, the shell of its current activation has    *)
(* been started by cmd.Start() only if forceLocalSyncState has set that   *)
(* activation's Sy.Type to "sendreceive".  It follows from Refinement and *)
(* the phase machine's own invariant.                                     *)
THEOREM ShellAfterFlip == Spec => []Session!LaunchAfterFinalize
BY Refinement, Session!LaunchSafe DEF SessionSpec

-----------------------------------------------------------------------------
(* Cancellation before reconnect.  CancelInv adds that Activate starts    *)
(* with no activation, and that shutdown has cancelled the current one by *)
(* the time its bounded wait is over.                                     *)
CancelInv ==
    /\ EarlierActivationsCancelled
    /\ apc = "idle" => gen = 0
    /\ apc = "shutdownWait" => gen \in cancelled

LEMMA CancelStep == TypeOK /\ CancelInv /\ [Next]_vars => CancelInv'
<1> SUFFICES ASSUME TypeOK, CancelInv, [Next]_vars PROVE CancelInv'
    OBVIOUS
<1> USE DEF CancelInv, EarlierActivationsCancelled, Gens
<1>1. CASE UNCHANGED <<apc, gen>> /\ cancelled \subseteq cancelled'
    BY <1>1
<1>2. CASE UNCHANGED <<gen, cancelled>> /\ apc' \notin {"idle", "connect", "shutdownWait"}
    BY <1>2
<1>3. CASE Start
  <2>1. gen = 0 /\ UNCHANGED <<gen, cancelled>> /\ apc' = "connect"
      BY <1>3 DEF Start
  <2>2. QED
      BY <2>1
<1>4. CASE Connect
  <2>1. /\ apc = "connect" /\ gen' = gen + 1 /\ UNCHANGED cancelled
        /\ apc' \in {"startSync", "done"}
      BY <1>4 DEF Connect, ExitWith
  <2>2. QED
      BY <2>1 DEF TypeOK
<1>5. CASE StartSync \/ WaitSync \/ Override \/ Flip \/ Exec \/ Wait
  <2>1. UNCHANGED <<gen, cancelled>> /\ apc' \notin {"idle", "connect", "shutdownWait"}
      BY <1>5 DEF StartSync, WaitSync, Override, Flip, Exec, Wait, Decide, ExitWith
  <2>2. QED
      BY <1>2, <2>1
<1>6. CASE Shutdown
    BY <1>6 DEF Shutdown
<1>7. CASE ShutdownTimeout
  <2>1. apc = "shutdownWait" /\ apc' = "connect" /\ UNCHANGED <<gen, cancelled>>
      BY <1>7 DEF ShutdownTimeout
  <2>2. \A k \in Gens : k \in cancelled
      BY <2>1 DEF TypeOK
  <2>3. QED
      BY <2>1, <2>2
<1>8. CASE MainStep \/ EnvStep \/ \E k \in Gens : TaskStep(k)
  <2>1. UNCHANGED <<apc, gen>> /\ cancelled \subseteq cancelled'
      BY <1>8 DEF MainStep, MainSelect, MainShutdown, MainWait, EnvStep, TaskStep, ActVars
  <2>2. QED
      BY <1>1, <2>1
<1>9. CASE Exited \/ UNCHANGED vars
    BY <1>1, <1>9 DEF Exited, vars
<1>10. QED
    BY <1>3, <1>4, <1>5, <1>6, <1>7, <1>8, <1>9 DEF Next, ActivateStep

(* Spec 4.1 step 6, for every value of the constants: whenever Activate   *)
(* builds a new activation, and from then on, the context of every        *)
(* earlier activation has been cancelled by shutdown, across every        *)
(* reconnect.                                                              *)
THEOREM EarlierCancelled == Spec => []EarlierActivationsCancelled
<1>1. Init => IInv /\ CancelInv
  <2>1. Init => CancelInv
      BY DEF Init, CancelInv, EarlierActivationsCancelled, Gens
  <2>2. QED
      BY <2>1, InitIInv
<1>2. IInv /\ CancelInv /\ [Next]_vars => IInv' /\ CancelInv'
    BY IInvStep, CancelStep DEF IInv
<1>3. IInv /\ CancelInv => EarlierActivationsCancelled
    BY DEF CancelInv
<1>4. QED
    BY <1>1, <1>2, <1>3, PTL DEF Spec
=============================================================================
