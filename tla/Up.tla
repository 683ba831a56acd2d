--------------------------------- MODULE Up ---------------------------------
(***************************************************************************)
(* The session controller of `okteto up' (src/cli/cmd/up.go): the main     *)
(* goroutine of RunUp, the Activate goroutine and its reconnect loop,      *)
(* WaitUntilExitOrInterrupt, shutdown, and the goroutines they spawn (the  *)
(* exec waiter of each shell, the syncthing monitor of each activation).   *)
(* Each activation k is a generation: its context, monitor and shell are   *)
(* indexed by k.  Channel values carry the generation that produced them   *)
(* as a ghost tag; the code cannot see it, the properties can.             *)
(***************************************************************************)
EXTENDS Naturals, Sequences, Functions

CONSTANTS
    MaxDrops,   \* bound on the network drops the environment may cause
    Manifests   \* candidate lists of local ports given to Forwarder.Add

ASSUME UpAssumption ==
    /\ MaxDrops \in Nat
    /\ Manifests \subseteq Seq(Nat)
    /\ Manifests # {}

NoError == "nil"
ExitVals == {NoError, "ConnectErr", "SyncErr", "FinalizeErr", "ExecErr"}
ShellResults == {"ok", "fail"}
Completion == [gen : Nat \ {0}, res : ShellResults]

VARIABLES
    apc,         \* program counter of the Activate goroutine
    gen,         \* generation of up.Context (0: up.Cancel is still nil)
    cancelled,   \* generations whose context has been cancelled
    sy,          \* the syncthing object of the current activation
    fwd,         \* state of the current port-forward manager
    monitor,     \* monitor[k]: the Sy.Monitor goroutine of activation k
    shell,       \* shell[k]: the `okteto exec' process of activation k
    res,         \* res[k]: what cmd.Wait() returned for shell k
    running,     \* the up.Running channel (capacity 1)
    disconnect,  \* the up.Disconnect channel (capacity 1), tagged by sender
    exitCh,      \* the up.Exit channel (capacity 1)
    sigint,      \* the os.Interrupt signal has been delivered to `stop'
    mpc,         \* program counter of the main goroutine of RunUp
    result,      \* what RunUp returned
    netUp,       \* the sync engine's connection is up (Sy.IsConnected)
    drops,       \* network drops so far
    bindings     \* the ports of the manifest in use (fixed by Init)

vars == <<apc, gen, cancelled, sy, fwd, monitor, shell, res, running,
          disconnect, exitCh, sigint, mpc, result, netUp, drops, bindings>>

Gens == 1..gen
FreshSy == [mode |-> "sendonly", drains |-> 0, overridden |-> FALSE]

-----------------------------------------------------------------------------
(* Helpers                                                                 *)

\* The process is alive until the main goroutine has returned from RunUp.
Alive == mpc # "returned"

\* `up.Exit <- v' followed by `return' in Activate (WG.Done is deferred).
ExitWith(v) == /\ Len(exitCh) < 1
               /\ exitCh' = Append(exitCh, v)
               /\ apc' = "done"

\* http.Get(endpoint) on the exec control port: best effort, the request
\* may fail and leave the shell running.
HttpStop(k) == \/ shell' = [shell EXCEPT ![k] = IF @ = "running" THEN "stopping" ELSE @]
               \/ UNCHANGED shell

\* up.WG.Wait() returns: the Activate goroutine, every monitor and every
\* exec waiter have called WG.Done.
TasksDone == /\ apc \in {"idle", "done"}
             /\ \A k \in Gens : monitor[k] \in {"none", "exited"}
             /\ \A k \in Gens : shell[k] \in {"none", "reported"}

\* Variant of ShutdownReturns with no timer: `<-done' is the only case.
ShutdownReturnsNoTimer == TasksDone

\* The select of shutdown: `done' closed, or time.After(1s) fired.  Time is
\* not modelled, so the timer may fire at any moment.
ShutdownReturns == \/ TasksDone
                   \/ TRUE

-----------------------------------------------------------------------------
(* The Activate goroutine                                                  *)

Start == /\ apc = "idle"
         /\ apc' = "connect"
         /\ UNCHANGED <<gen, cancelled, sy, fwd, monitor, shell, res, running, disconnect, exitCh>>

\* Top of the loop: a new context, then devMode, which creates a new Sy.
Connect ==
    /\ apc = "connect"
    /\ gen' = gen + 1
    /\ monitor' = [k \in 1..gen + 1 |-> IF k \in Gens THEN monitor[k] ELSE "none"]
    /\ shell' = [k \in 1..gen + 1 |-> IF k \in Gens THEN shell[k] ELSE "none"]
    /\ res' = [k \in 1..gen + 1 |-> IF k \in Gens THEN res[k] ELSE "none"]
    /\ \/ /\ sy' = FreshSy
          /\ apc' = "startSync"
          /\ UNCHANGED exitCh
       \/ /\ ExitWith("ConnectErr")   \* k8Client.Get, New, DevModeOn, GetDevPod
          /\ sy' \in {sy, FreshSy}        \* up.Sy is replaced once New succeeds
    /\ UNCHANGED <<cancelled, fwd, running, disconnect>>

\* startSync up to `go up.Sy.Monitor': Sy.Run, the Forwarder.Add calls
\* (the first duplicate local port fails), Forwarder.Start, the monitor.
StartSync ==
    /\ apc = "startSync"
    /\ \/ /\ IsInjective(bindings)
          /\ fwd' = "started"
          /\ monitor' = [monitor EXCEPT ![gen] = "watching"]
          /\ apc' = "waitSync"
          /\ UNCHANGED exitCh
       \/ /\ ExitWith("SyncErr")    \* Sy.Run failed
          /\ UNCHANGED <<fwd, monitor>>
       \/ /\ ~IsInjective(bindings)  \* Forwarder.Add of a duplicate port
          /\ fwd' = "created"
          /\ ExitWith("SyncErr")
          /\ UNCHANGED monitor
    /\ UNCHANGED <<gen, cancelled, sy, shell, res, running, disconnect>>

\* Variant of WaitSync that skips the first WaitForCompletion.
WaitSyncNoDrain ==
    /\ apc = "waitSync"
    /\ \/ /\ gen \notin cancelled /\ netUp
          /\ apc' = "override"
          /\ UNCHANGED <<sy, exitCh>>
       \/ /\ ExitWith("SyncErr")
          /\ UNCHANGED sy
    /\ UNCHANGED <<gen, cancelled, fwd, monitor, shell, res, running, disconnect>>

\* Sy.WaitForPing then Sy.WaitForCompletion: both need a live context and
\* a connection; either may fail.
WaitSync ==
    /\ apc = "waitSync"
    /\ \/ /\ gen \notin cancelled /\ netUp
          /\ sy' = [mode |-> sy.mode, drains |-> sy.drains + 1, overridden |-> sy.overridden]
          /\ apc' = "override"
          /\ UNCHANGED exitCh
       \/ /\ ExitWith("SyncErr")
          /\ UNCHANGED sy
    /\ UNCHANGED <<gen, cancelled, fwd, monitor, shell, res, running, disconnect>>

\* forceLocalSyncState: Sy.OverrideChanges then Sy.WaitForCompletion.
Override ==
    /\ apc = "override"
    /\ \/ /\ gen \notin cancelled /\ netUp
          /\ sy' = [mode |-> sy.mode, drains |-> sy.drains + 1, overridden |-> TRUE]
          /\ apc' = "flip"
          /\ UNCHANGED exitCh
       \/ /\ ExitWith("FinalizeErr")
          /\ UNCHANGED sy
    /\ UNCHANGED <<gen, cancelled, fwd, monitor, shell, res, running, disconnect>>

\* Variant of Flip that does not set Sy.Type before the restart.
FlipKeepsMode ==
    /\ apc = "flip"
    /\ UNCHANGED sy
    /\ \/ /\ gen \notin cancelled
          /\ apc' = "exec"
          /\ UNCHANGED exitCh
       \/ ExitWith("FinalizeErr")
    /\ UNCHANGED <<gen, cancelled, fwd, monitor, shell, res, running, disconnect>>

\* forceLocalSyncState: Sy.Type = "sendreceive", UpdateConfig, Restart.
Flip ==
    /\ apc = "flip"
    /\ sy' = [mode |-> "sendreceive", drains |-> sy.drains, overridden |-> sy.overridden]
    /\ \/ /\ gen \notin cancelled
          /\ apc' = "exec"
          /\ UNCHANGED exitCh
       \/ ExitWith("FinalizeErr")
    /\ UNCHANGED <<gen, cancelled, fwd, monitor, shell, res, running, disconnect>>

\* cmd.Start() of `okteto exec', then `go func(){ up.Running <- cmd.Wait() }'.
Exec ==
    /\ apc = "exec"
    /\ \/ /\ shell' = [shell EXCEPT ![gen] = "running"]
          /\ apc' = "wait"
          /\ UNCHANGED exitCh
       \/ /\ ExitWith("ExecErr")
          /\ UNCHANGED shell
    /\ UNCHANGED <<gen, cancelled, sy, fwd, monitor, res, running, disconnect>>

\* The reconnect test of Activate on what WaitUntilExitOrInterrupt returned.
Decide(prevError) ==
    IF prevError = "LostConnection" \/ (prevError = "CommandFailed" /\ ~netUp)
    THEN apc' = "shutdown" /\ UNCHANGED exitCh
    ELSE ExitWith(NoError)

\* WaitUntilExitOrInterrupt: the select takes any ready case.
Wait ==
    /\ apc = "wait"
    /\ \/ /\ gen \in cancelled                      \* <-up.Context.Done()
          /\ HttpStop(gen)
          /\ Decide(NoError)
          /\ UNCHANGED <<running, disconnect>>
       \/ /\ running # <<>>                         \* err := <-up.Running
          /\ running' = Tail(running)
          /\ Decide(IF Head(running).res = "fail" THEN "CommandFailed" ELSE NoError)
          /\ UNCHANGED <<shell, disconnect>>
       \/ /\ disconnect # <<>>                      \* <-up.Disconnect
          /\ disconnect' = Tail(disconnect)
          /\ HttpStop(gen)
          /\ Decide("LostConnection")
          /\ UNCHANGED running
    /\ UNCHANGED <<gen, cancelled, sy, fwd, monitor, res>>

\* Variant of Shutdown in which up.Cancel is not called.
ShutdownNoCancel ==
    /\ apc = "shutdown"
    /\ fwd' = "stopped"
    /\ apc' = "shutdownWait"
    /\ UNCHANGED <<gen, cancelled, sy, monitor, shell, res, running, disconnect, exitCh>>

\* shutdown called by Activate: cancel, `go Forwarder.Stop()', then wait.
\* The WaitGroup counts Activate itself, so only the timer can end the wait.
Shutdown ==
    /\ apc = "shutdown"
    /\ cancelled' = cancelled \cup {gen}
    /\ fwd' = "stopped"
    /\ apc' = "shutdownWait"
    /\ UNCHANGED <<gen, sy, monitor, shell, res, running, disconnect, exitCh>>

ShutdownTimeout ==
    /\ apc = "shutdownWait"
    /\ apc' = "connect"
    /\ UNCHANGED <<gen, cancelled, sy, fwd, monitor, shell, res, running, disconnect, exitCh>>

ActivateStep == Start \/ Connect \/ StartSync \/ WaitSync \/ Override \/ Flip
                \/ Exec \/ Wait \/ Shutdown \/ ShutdownTimeout

-----------------------------------------------------------------------------
(* The main goroutine of RunUp                                             *)

\* Variant of MainSelect without the `case <-stop' arm.
MainSelectNoStop ==
    /\ mpc = "select"
    /\ exitCh # <<>>
    /\ result' = Head(exitCh)
    /\ exitCh' = Tail(exitCh)
    /\ mpc' = "shutdown"
    /\ UNCHANGED <<apc, gen, cancelled, sy, fwd, monitor, shell, res, running, disconnect>>

\* select { case <-stop: ... case err := <-up.Exit: ... }, then the deferred
\* shutdown.
MainSelect ==
    /\ mpc = "select"
    /\ \/ /\ sigint
          /\ result' = NoError
          /\ UNCHANGED exitCh
       \/ /\ exitCh # <<>>
          /\ result' = Head(exitCh)
          /\ exitCh' = Tail(exitCh)
    /\ mpc' = "shutdown"
    /\ UNCHANGED <<apc, gen, cancelled, sy, fwd, monitor, shell, res, running, disconnect>>

\* The deferred up.shutdown(): up.Cancel is read when it runs, so it cancels
\* whatever generation Activate last created (none if Activate has not yet
\* reached the top of its loop).
MainShutdown ==
    /\ mpc = "shutdown"
    /\ cancelled' = IF gen > 0 THEN cancelled \cup {gen} ELSE cancelled
    /\ fwd' = IF fwd = "none" THEN fwd ELSE "stopped"
    /\ mpc' = "wait"
    /\ UNCHANGED <<apc, gen, sy, monitor, shell, res, running, disconnect, exitCh, result>>

MainWait ==
    /\ mpc = "wait"
    /\ ShutdownReturns
    /\ mpc' = "returned"
    /\ UNCHANGED <<apc, gen, cancelled, sy, fwd, monitor, shell, res, running, disconnect, exitCh, result>>

MainStep == MainSelect \/ MainShutdown \/ MainWait

-----------------------------------------------------------------------------
(* Spawned goroutines and the environment                                  *)

EnvVars == <<sigint, netUp, drops, bindings>>
ActVars == <<apc, gen, cancelled, sy, fwd, exitCh>>

\* Ctrl+C, caught by signal.Notify(stop, os.Interrupt).
Interrupt == /\ ~sigint
             /\ sigint' = TRUE
             /\ UNCHANGED <<netUp, drops, bindings>>

NetDrop == /\ netUp /\ drops < MaxDrops
           /\ netUp' = FALSE /\ drops' = drops + 1
           /\ UNCHANGED <<sigint, bindings>>

NetRecover == /\ ~netUp
              /\ netUp' = TRUE
              /\ UNCHANGED <<sigint, drops, bindings>>

EnvStep == (Interrupt \/ NetDrop \/ NetRecover)
           /\ UNCHANGED <<ActVars, monitor, shell, res, running, disconnect>>

\* Sy.Monitor(ctx, wg, disconnect): a failed ping is reported once with a
\* blocking send, and the monitor returns when its context is done.
MonitorDetect(k) == /\ monitor[k] = "watching" /\ k \notin cancelled /\ ~netUp
                    /\ monitor' = [monitor EXCEPT ![k] = "sending"]
                    /\ UNCHANGED disconnect
MonitorSend(k) == /\ monitor[k] = "sending" /\ Len(disconnect) < 1
                  /\ disconnect' = Append(disconnect, k)
                  /\ monitor' = [monitor EXCEPT ![k] = "exited"]
MonitorStop(k) == /\ monitor[k] = "watching" /\ k \in cancelled
                  /\ monitor' = [monitor EXCEPT ![k] = "exited"]
                  /\ UNCHANGED disconnect

\* cmd.Wait() returns in the exec waiter goroutine: the user ends the shell,
\* the command fails, or a stop request is honoured.
ShellExit(k) == /\ shell[k] \in {"running", "stopping"}
                /\ \E r \in ShellResults :
                      /\ shell' = [shell EXCEPT ![k] = "exited"]
                      /\ res' = [res EXCEPT ![k] = r]
                /\ UNCHANGED running

\* up.Running <- cmd.Wait(), then WG.Done.
WaiterSend(k) == /\ shell[k] = "exited" /\ Len(running) < 1
                 /\ running' = Append(running, [gen |-> k, res |-> res[k]])
                 /\ shell' = [shell EXCEPT ![k] = "reported"]
                 /\ UNCHANGED res

TaskStep(k) == /\ \/ (MonitorDetect(k) \/ MonitorSend(k) \/ MonitorStop(k))
                     /\ UNCHANGED <<shell, res, running>>
                  \/ (ShellExit(k) \/ WaiterSend(k))
                     /\ UNCHANGED <<monitor, disconnect>>
               /\ UNCHANGED <<ActVars, EnvVars, mpc, result>>

-----------------------------------------------------------------------------

Init ==
    /\ apc = "idle"
    /\ gen = 0
    /\ cancelled = {}
    /\ sy = FreshSy
    /\ fwd = "none"
    /\ monitor = [k \in Gens |-> "none"]
    /\ shell = [k \in Gens |-> "none"]
    /\ res = [k \in Gens |-> "none"]
    /\ running = <<>>
    /\ disconnect = <<>>
    /\ exitCh = <<>>
    /\ sigint = FALSE
    /\ mpc = "select"
    /\ result = "none"
    /\ netUp = TRUE
    /\ drops = 0
    /\ bindings \in Manifests

\* Once RunUp has returned the process exits and nothing moves any more.
Exited == ~Alive /\ UNCHANGED vars

Next ==
    \/ MainStep /\ UNCHANGED <<EnvVars, monitor, shell, res, running, disconnect>>
    \/ Alive /\ ActivateStep /\ UNCHANGED <<EnvVars, mpc, result>>
    \/ Alive /\ EnvStep /\ UNCHANGED <<mpc, result>>
    \/ Alive /\ \E k \in Gens : TaskStep(k)
    \/ Exited

\* The Go scheduler runs every runnable goroutine and timers fire; the user
\* (Ctrl+C, ending the shell) and the network are not fair.
Fairness ==
    /\ WF_vars(MainStep /\ UNCHANGED <<EnvVars, monitor, shell, res, running, disconnect>>)
    /\ WF_vars(Alive /\ ActivateStep /\ UNCHANGED <<EnvVars, mpc, result>>)
    /\ WF_vars(Alive /\ \E k \in Gens : (MonitorSend(k) \/ MonitorStop(k)) /\ TaskStep(k))
    /\ WF_vars(Alive /\ \E k \in Gens : WaiterSend(k) /\ TaskStep(k))
    /\ WF_vars(Alive /\ \E k \in Gens : shell[k] = "stopping" /\ ShellExit(k) /\ TaskStep(k))

Spec == Init /\ [][Next]_vars
FairSpec == Spec /\ Fairness

-----------------------------------------------------------------------------
(* The Session Phase of spec section 3 that each point of Activate is in. *)
(* An activation's shell is launched once shell[gen] has left "none".      *)
PhaseOf == [idle |-> "Idle", connect |-> "Connecting",
            startSync |-> "Syncing", waitSync |-> "Syncing",
            override |-> "Finalizing", flip |-> "Finalizing",
            exec |-> "Running", wait |-> "Running",
            shutdown |-> "Disconnected", shutdownWait |-> "Reconnecting",
            done |-> "Terminated"]

Session == INSTANCE SessionPhase
               WITH phase <- PhaseOf[apc],
                    bidirectional <- apc # "done" /\ sy.mode = "sendreceive",
                    launched <- apc # "done" /\ gen \in Gens /\ shell[gen] # "none"

-----------------------------------------------------------------------------
(* Properties                                                              *)

MonitorStates == {"none", "watching", "sending", "exited"}
ShellStates == {"none", "running", "stopping", "exited", "reported"}

TypeOK ==
    /\ apc \in {"idle", "connect", "startSync", "waitSync", "override", "flip",
                "exec", "wait", "shutdown", "shutdownWait", "done"}
    /\ gen \in Nat
    /\ cancelled \subseteq Gens
    /\ sy \in [mode : {"sendonly", "sendreceive"}, drains : Nat, overridden : BOOLEAN]
    /\ fwd \in {"none", "created", "started", "stopped"}
    /\ monitor \in [Gens -> MonitorStates]
    /\ shell \in [Gens -> ShellStates]
    /\ res \in [Gens -> ShellResults \cup {"none"}]
    /\ running \in Seq(Completion) /\ Len(running) <= 1
    /\ disconnect \in Seq(Gens) /\ Len(disconnect) <= 1
    /\ exitCh \in Seq(ExitVals) /\ Len(exitCh) <= 1
    /\ sigint \in BOOLEAN
    /\ mpc \in {"select", "shutdown", "wait", "returned"}
    /\ result \in ExitVals \cup {"none"}
    /\ netUp \in BOOLEAN
    /\ drops \in 0..MaxDrops
    /\ bindings \in Manifests

(* The sync engine of an activation is switched to bidirectional mode      *)
(* (Sy.Type = "sendreceive" in forceLocalSyncState) only after that same   *)
(* activation's first WaitForCompletion, its OverrideChanges and the drain *)
(* after it: spec 8, "SetMode(bidirectional) is never invoked before the   *)
(* first WaitDrained succeeds", across every reconnect.                    *)
ModeFlipAfterDrain ==
    sy.mode = "sendreceive" => sy.overridden /\ sy.drains >= 2

(* Once Ctrl+C has been delivered, RunUp returns, whatever Activate, the   *)
(* shells and the monitors are doing: the deferred shutdown is bounded.    *)
InterruptTerminates == sigint ~> (mpc = "returned")

(* Spec 3, 4.1 and 5: Activate walks the Session Phase machine, across    *)
(* every reconnect: each attempt connects with a new sync engine, syncs,  *)
(* flips that engine to bidirectional mode, and only then launches its    *)
(* one shell; the monitor select runs after the launch, and a recoverable *)
(* signal goes through shutdown before the next connect.                  *)
SessionSpec == Session!Spec

(* Spec 3 and 4.1 step 6: a recoverable signal runs the full shutdown     *)
(* procedure, which cancels the execution context, before Activate        *)
(* re-enters Connect; so when an activation is created, the context of    *)
(* every earlier one is cancelled, and their monitors and exec waiters,   *)
(* which outlive the reconnect, are told to stop.                         *)
EarlierActivationsCancelled ==
    \A k \in Gens : (k < gen \/ apc = "connect") => k \in cancelled

(* Spec 4.3 and 8: a completion on up.Running is delivered once, for the   *)
(* shell that produced it; the monitor of an activation only consumes the  *)
(* completion of that activation's own shell.                              *)
ConsumesOwnCompletion ==
    [][ (apc = "wait" /\ running # <<>> /\ running' = Tail(running))
        => Head(running).gen = gen ]_vars

(* Spec 4.1 steps 2 and 5: the monitor launched by an activation's sync   *)
(* phase reports that activation's lost connection; the select of an      *)
(* activation reconnects only on its own monitor's disconnect notice.     *)
ConsumesOwnDisconnect ==
    [][ (apc = "wait" /\ disconnect # <<>> /\ disconnect' = Tail(disconnect))
        => Head(disconnect) = gen ]_vars

(* Spec 7: a command failure that is not retried is terminal and RunUp    *)
(* returns a non-nil error; Activate must not report it as a clean exit.   *)
FailedCommandNotClean ==
    [][ (apc = "wait" /\ running # <<>> /\ running' = Tail(running)
         /\ Head(running).res = "fail" /\ apc' = "done")
        => exitCh' # Append(exitCh, NoError) ]_vars

(* Spec 4.1 step 2: a failure of the sync phase (startSync) on a          *)
(* reconnection, with the context still live, is recoverable: Activate   *)
(* does not end the session.                                               *)
SyncRetryRecoverable ==
    [][ (apc \in {"startSync", "waitSync"} /\ gen >= 2 /\ gen \notin cancelled)
        => apc' # "done" ]_vars

=============================================================================
