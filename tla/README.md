# Formal model of `okteto up` and its collaborators

This directory holds TLA+ models of the code under `src/`, the TLC
configurations that model-check them, and TLAPS proofs about them.

## The system

`src/` contains three files. Each is modelled by its own module; they
share no state, so no module composes two of them.

* `src/cli/cmd/up.go` is the **session controller** of `okteto up`.
  * `RunUp` (109-137) starts `Activate` on a goroutine. It then blocks in a
    select on Ctrl+C (`stop`) or on `up.Exit`. It returns through the
    deferred `shutdown`.
  * `Activate` (140-217) is a reconnect loop. Each iteration does the
    following:
    * it creates a new `up.Context` and `up.Cancel`;
    * `devMode` creates a new `Syncthing` object;
    * `startSync` runs syncthing, registers the port forwards with
      `Forwarder.Add`, starts the forwarder, launches `go Sy.Monitor`, and
      waits for ping and for the first drain (`WaitForCompletion`);
    * `forceLocalSyncState` runs `OverrideChanges`, drains again, and sets
      `Sy.Type = "sendreceive"`;
    * it starts the `okteto exec` shell, with a waiter goroutine that
      performs `up.Running <- cmd.Wait()`.
  * `WaitUntilExitOrInterrupt` (220-247) then selects on four cases:
    context cancellation, `up.Running`, `up.ErrChan` and `up.Disconnect`.
    A lost connection, or a failed command while sync is disconnected, leads
    to `shutdown` and another iteration. Anything else sends on `up.Exit`.
  * `shutdown` (327-358) does three things in order:
    1. it cancels the context;
    2. it starts `Forwarder.Stop` on a goroutine;
    3. it waits on `up.WG` or on a 1-second timer, whichever comes first.
* `src/cmd/pipeline/destroy.go` has two parts.
  * Lines 1-209 are `okteto pipeline destroy`:
    * a goroutine calls `DestroyPipeline` and races Ctrl+C;
    * it then waits for the pipeline's action, or uses a deprecated loop
      that races a poll ticker against a timeout ticker.
  * Lines 210-500 are `okteto push`.
* `src/pkg/k8s/diverts/crud.go` holds divert `Create` and `Delete`: each is a
  sequence of calls to the API server that stops at the first error.
  `okteto up` calls `Create` and `okteto down` calls `Delete`.

The interaction that matters runs through three buffered channels of
capacity one: `up.Running`, `up.Disconnect` and `up.Exit`. They are shared
by all activations. Goroutines of an earlier activation (its shell waiter and
its syncthing monitor) can still write to them after a reconnect.

## Modules

| module | models | status |
|---|---|---|
| `Up` | `RunUp`, `Activate`, `devMode`, `startSync`, `forceLocalSyncState`, `WaitUntilExitOrInterrupt`, `shutdown`, the exec waiter; the monitor, from the spec | modelled |
| `SessionPhase` | the Session Phase machine of spec sections 3, 4.1 and 5: the abstract specification `Up` refines | from the spec |
| `MCUp` | the TLC instance of `Up` | |
| `UpProofs` | the TLAPS proofs about `Up` | |
| `PipelineDestroy` | `okteto pipeline destroy`: `RunE`, `destroyPipeline` and its goroutine, `waitUntilDestroyed`, `waitToBeDestroyed`, `deprecatedWaitToBeDestroyed` | modelled |
| `MCPipelineDestroy` | the TLC instance of `PipelineDestroy` | |
| `PipelineDestroyProofs` | the TLAPS proofs about `PipelineDestroy` | |
| `Push` | `okteto push`: `runPush`, its redeploy goroutine, `buildImage`, `getImageFromApp` | modelled |
| `MCPush` | the TLC instance of `Push` | |
| `PushProofs` | the TLAPS proofs about `Push` | |
| `Diverts` | divert `Create` (with `divertApp`, `divertService`, `divertIngress`, `createDivertCRD`) and `Delete`, with the user rerunning them | modelled |
| `DivertsSpec` | what `Create` and `Delete` promise their callers: the abstract specification `Diverts` refines | from the spec |
| `MCDiverts` | the TLC instance of `Diverts` | |
| `DivertsProofs` | the TLAPS proofs about `Diverts`, the refinement included | |

### `Up`: state

* `apc` is Activate's program counter. It has one value per blocking or
  failing call: connect, startSync, waitSync, override, flip, exec, wait,
  shutdown, shutdownWait and done.
* `mpc` is the main goroutine's program counter: select, shutdown, wait and
  returned. `result` holds what `RunUp` returned.
* `gen` counts contexts: each Activate iteration is a generation.
  `cancelled` is the set of generations whose context was cancelled.
* `monitor[k]` is the Sy.Monitor goroutine of generation k. `shell[k]` and
  `res[k]` are the shell of generation k and what its `cmd.Wait()` returned.
* `running`, `disconnect` and `exitCh` are the three channels, each a
  sequence of length at most 1. A send blocks while the channel is full.
  * Values on `running` carry the generation of the shell that sent them.
  * Values on `disconnect` are the generation of the monitor that sent them.
  * The code cannot see these tags; the properties read them.
* `sy` is the current Syncthing object, reduced to three fields: its mode,
  the number of drains it has completed, and whether `OverrideChanges` ran.
  `fwd` is the state of the current forwarder.
* The environment has four variables:
  * `sigint`: Ctrl+C has been delivered;
  * `netUp`: what `Sy.IsConnected()` returns;
  * `drops`: network drops so far, at most `MaxDrops`;
  * `bindings`: the local ports given to `Forwarder.Add`, one of
    `Manifests`.

### `Up`: actions

Each call that can fail is a disjunct, and the error path is
`ExitWith(err)`: `up.Exit <- err; return`.

* `Connect` is the top of the loop plus `devMode`. `up.Sy` is replaced as
  soon as `syncthing.New` succeeds, even when a later call fails.
* `StartSync`:
  * `Forwarder.Add` fails on the first duplicate local port, which is
    modelled as `~IsInjective(bindings)`;
  * the monitor of this generation starts.
* `WaitSync` is `WaitForPing` plus the first drain.
* `Override` is `OverrideChanges` plus the second drain.
* `Flip` sets the mode, then runs `UpdateConfig` and `Restart`.
* `Exec` is `cmd.Start` plus the waiter.
* `Decide` is the reconnect test at lines 204-216.
* `Wait` is the select: one disjunct per ready case. `HttpStop` is the
  best-effort `http.Get`, which may fail and leave the shell running.
* `Shutdown` and `ShutdownTimeout` are `shutdown` called from Activate.
  `up.WG` counts Activate itself (`WG.Add` at line 141), so its `WG.Wait`
  cannot return there and only the timer ends the wait.
* `MainSelect`, `MainShutdown` and `MainWait` are `RunUp` and its deferred
  `shutdown`.
* `ShellExit` and `WaiterSend` are the exec waiter goroutine.
* `MonitorDetect`, `MonitorSend` and `MonitorStop` are `Sy.Monitor`.
  Syncthing is outside `src/`, so these follow spec section 6.
* `Exited` is the process exiting: once `RunUp` has returned, no goroutine
  moves.

Time is not modelled. The 1-second timer of `shutdown` may fire at any
moment (`ShutdownReturns`).

Abstracted away:
* progress bars, printing and log lines;
* the arguments of `buildExecCommand`;
* the `up.ErrChan` case of the select, which only logs and loops;
* the forwarder's per-binding loops.

## `Up` runs

All runs of this section use `MCUp`.

Bounds:
* `MaxDrops = 1`.
  * One drop is enough for these behaviours:
    * a disconnect is consumed;
    * `shutdown` and a reconnect happen;
    * the first shell's completion reaches the second activation.
  * Two drops take the state space from 54 thousand to about 14 million
    states (27 minutes) and add no new kind of step.
* `Manifests` has two port lists:
  * `<<22000, 8384, 8080>>` has unique local ports;
  * `<<22000, 8384, 22000>>` has a duplicate, so the `Forwarder.Add`
    error path is reached.

| run | cfg | expect | shows |
|---|---|---|---|
| `up_core` | `MCUp.cfg` | pass | `ModeFlipAfterDrain`, `EarlierActivationsCancelled`, `InterruptTerminates`, `SessionSpec` hold |
| `up_stale_completion` | `MCUp_ConsumesOwnCompletion.cfg` | violation | the next activation consumes the old shell's completion |
| `up_stale_disconnect` | `MCUp_ConsumesOwnDisconnect.cfg` | violation | the next activation consumes the old monitor's disconnect notice |
| `up_failed_command` | `MCUp_FailedCommandNotClean.cfg` | violation | a failed command with sync connected ends with `nil` (spec 7) |
| `up_sync_retry` | `MCUp_SyncRetryRecoverable.cfg` | violation | a sync failure on a reconnection is fatal (spec 4.1 step 2) |

The properties checked by `up_core`:

* `ModeFlipAfterDrain` says that the current Syncthing object reaches
  `sendreceive` only after its override and two drains. It holds across
  reconnects because `Connect` installs a fresh object.
* `EarlierActivationsCancelled` says that once Activate is back in
  `connect`, and from then on, the context of every earlier activation
  is cancelled. The old monitors and exec waiters outlive the reconnect;
  only that cancellation tells them to stop.
* `SessionSpec` says that `Up` refines `SessionPhase` (see below): every
  behaviour of RunUp and Activate, over every reconnect, is a behaviour
  of the phase machine of spec section 3.
* `InterruptTerminates` says that after Ctrl+C, `RunUp` returns. The reason
  is the 1-second timer of `shutdown`. Without the timer, the model
  deadlocks:
  * a monitor blocks forever on a full `up.Disconnect` once Activate is
    done;
  * `up.WG` also counts Activate while Activate is itself inside
    `shutdown`.

`TypeOK` is not a property of the run: the channel bounds it states hold by
Go's semantics whatever the code does, so no code mutant can break it. It is
proved (`UpProofs.TypeCorrect`) as the base of the other proofs.

Each property has a mutant: a plausible bug in the mapped code that the run
must catch.
* `WaitSyncNoDrain` skips the first drain; it breaks `ModeFlipAfterDrain`.
* `MainSelectNoStop` drops the Ctrl+C case; it breaks `InterruptTerminates`.
* `ShutdownNoCancel` is an Activate `shutdown` that does not call
  `up.Cancel`; it breaks `EarlierActivationsCancelled`.
* `FlipKeepsMode` restarts the sync engine without setting `Sy.Type`; it
  breaks `SessionSpec`, since the shell is then launched into an attempt
  whose engine is still send-only.

### `SessionPhase`: the abstract session

`SessionPhase` is written from the spec, not from code. It has three
variables:
* `phase`, the Session Phase;
* `bidirectional`, whether the current attempt's sync engine has been
  flipped;
* `launched`, whether the current attempt's shell has been launched.

Its steps are `Begin`, `Connect` (a new engine: both flags reset),
`Synced`, `Finalize` (the flip), `Launch` (once per attempt), `Disconnect`
(only after the launch), `Recover`, `Resume` and `Terminate`. `Terminate`
is allowed from every phase, because spec section 3 lets an interrupt end
the session anywhere. It tears the session down, so both flags reset.

`Up` maps onto it through `Session == INSTANCE SessionPhase WITH ...`:

| `SessionPhase` | `Up` |
|---|---|
| `phase` | `PhaseOf[apc]`: `idle` Idle, `connect` Connecting, `startSync`/`waitSync` Syncing, `override`/`flip` Finalizing, `exec`/`wait` Running, `shutdown` Disconnected, `shutdownWait` Reconnecting, `done` Terminated |
| `bidirectional` | `apc # "done" /\ sy.mode = "sendreceive"` |
| `launched` | `apc # "done" /\ gen \in Gens /\ shell[gen] # "none"` |

How the code's steps map onto the abstract ones:
* `StartSync` and `Override` are stutters.
* Every error return of Activate (`up.Exit <- err`) is a `Terminate`.
* The steps of the main goroutine, the monitors, the exec waiters and
  the environment are stutters. None of them moves Activate, and a shell
  only moves between launched states.

### `Up` fairness

* Weak fairness on the main goroutine, on Activate, on the monitors'
  send and stop steps, and on the waiters' send. The Go scheduler runs every
  runnable goroutine, and a timer always fires.
* Weak fairness on a shell that has been asked to stop.
* No fairness on these, because nothing in the code forces them:
  * the user ending a shell;
  * Ctrl+C;
  * the network going down or coming back.

## `PipelineDestroy`: `okteto pipeline destroy` (destroy.go 32-209)

Three goroutines and the control plane interact.
* The main goroutine (`pc`) runs `RunE`:
  * `DestroyStart` is `signal.Notify(stop)` and the client, then the
    `go func()` of `destroyPipeline`;
  * `Select1` is its select on Ctrl+C or the exit channel;
  * `Check` is the test of `--wait` and the read of `resp.Action`;
  * `Select2` is the select of `waitUntilDestroyed`.
* The destroyer goroutine (`destroyer`) makes the call and sends once:
  `DestroyerCall`, then `DestroyerSend`. `resp` and `respErr` are the
  variables it shares with `destroyPipeline`, which the main goroutine
  reads after Ctrl+C even when the goroutine has not written them yet.
* The waiting goroutine (`waiter`) runs `waitToBeDestroyed`:
  * `ActionStart` and `ActionFinish` are the Action path.
    `WaitForActionToFinish` is outside `src/`, so `ActionFinish` follows the
    spec.
  * `DeprecatedStart` and `DeprecatedLoop` are the deprecated poll loop,
    which has two tickers. `DeprecatedStart` includes `time.NewTicker(0)`,
    which panics.
* The environment:
  * `Interrupt`: before `signal.Notify` (line 105) Ctrl+C kills the
    process (outcome `killed`); after it, it goes to every stop channel
    still registered;
  * `ControlPlane` finishes destroying the pipeline, or fails;
  * `Tick`: one second passes. `left` is the time until the timeout ticker
    fires; `tick` is a pending tick of the 1-second ticker. `Tick` is the
    model's clock, not code, so it is not in the map.

`exit1` and `exit2` are the exit channels, of capacity 1. `outcome` is how
the command ended; the two panics are outcomes.

Bounds. `MCPipelineDestroy` takes `Timeouts = {0, 2}`:
* 0 is the flag's documented "never";
* 2 seconds is enough for the poll tick and the timeout to fire in the same
  second, and for a poll to find the pipeline still there first.

`wait`, `hasAction` and the initial pipeline (present or already gone) are
chosen by `Init`.

Fairness:
* WF on the main goroutine, on the destroyer, on the waiting goroutine's
  steps and on the clock.
* `ActionFinish` is fair only once the action can end: the pipeline is gone
  or failed, or a positive timeout expired.
* The timeout case of the loop's select has its own WF. Go picks among ready
  cases at random, so a fired timeout is eventually taken, even while
  1-second ticks keep arriving.
* No fairness on Ctrl+C, the control plane or API failures.

| run | cfg | expect | shows |
|---|---|---|---|
| `destroy_core` | `MCPipelineDestroy.cfg` | pass | `DestroyedMeansGone`, `WaitTerminates` hold (1,415 states) |
| `destroy_nil_resp` | `MCPipelineDestroy_NoNilDeref.cfg` | violation | `RunE` dereferences a nil `resp` |
| `destroy_zero_timeout` | `MCPipelineDestroy_ZeroTimeoutMeansNever.cfg` | violation | `--timeout 0` panics in `time.NewTicker` |

* `DestroyedMeansGone`: "Pipeline successfully destroyed" is reported only
  when the control plane no longer has the pipeline. This holds whichever
  wait ran and however the goroutines, Ctrl+C and the tickers interleave.
  Mutant `DeprecatedLoopErrIsGone` takes a failed poll for NotFound.
* `WaitTerminates`: with a positive timeout the command always ends. Mutant
  `DeprecatedLoopNoTimeout` drops the timeout case. With a zero timeout and
  an Action, the wait is legitimately unbounded, so the property is
  restricted to `timeout > 0`.
* `TypeOK` (channel bounds, `left \in 0..timeout`) is proved
  (`PipelineDestroyProofs.TypeCorrect`), not a property of the run: no bug in
  the code can break what Go's channels and the model's clock guarantee.

Findings:
1. **Nil `resp` (`destroy.go:80`).** This is a code bug. `resp` is nil in
   two cases:
   * the pipeline was not found, and `exit <- nil` runs at line 121;
   * Ctrl+C wins the first select before the call returns (line 139).

   With `--wait`, `RunE` then reads `resp.Action` and panics.
2. **Zero timeout (`destroy.go:185`).** The flag says 0 means never, but
   `time.NewTicker(0)` panics on the deprecated path.

## `Push`: `okteto push` (destroy.go 263-500)

* The main goroutine (`pc`) runs `GetApp`, `Translate`, `ImageCheck`,
  `Build`, `Down` and `Select`.
  * `Down` is the loop at line 384. If a translation of `trMap` is in
    development mode, `down.Run` deactivates them all, and its error is
    returned. Then comes the redeploy goroutine. Without services, the
    loop first gives the push annotation to an app created by `okteto up`
    or whose first container is named `dev` (lines 385-389);
    `PushAnnotated` is then true, as for an app push creates, and the
    goroutine starts with `CreateDev` (line 399).
  * `Interrupt`: Ctrl+C kills the process before `signal.Notify`
    (line 381); from `Down` on it goes to `stop`.
* The redeploy goroutine (`g`) runs `CreateDev`, then `Deploy`.
  * `Deploy` walks the translation map in random order, so it picks any
    translation.
  * It sends once on `exit`, of capacity 1.
* `image` is what each translation runs, and `devMode` is its development
  mode.
* `Config` (the app exists, its autocreate annotation, autocreate, the
  translations, a common image)
  is chosen by `Init`.

`MCPush` has an app and one service, so the map has two keys and its order
matters.

Fairness: WF on both goroutines; Ctrl+C is the user's.

| run | cfg | expect | shows |
|---|---|---|---|
| `push_core` | `MCPush.cfg` | pass | `TypeOK`, `NoDeployInDevMode`, `PushedMeansDeployed`, `PushTerminates` hold (1,422 states) |
| `push_redeploys_all` | `MCPush_RedeploysAll.cfg` | violation | push reports success with a translation still on the old image |

* `NoDeployInDevMode`: no translation gets the new image while it is in
  development mode. Mutant `DownIgnoresErr` logs `down.Run`'s error instead
  of returning it.
* `PushedMeansDeployed`: push returns `nil` only after a translation of
  `trMap` runs the new image, and with development mode off for every
  translation of `trMap`. Mutant `SelectIgnoresErr` does not check the
  value received on `exit`, so an error from `CreateDev` or `Deploy`
  becomes success.
* `PushTerminates`: without Ctrl+C, push returns. Mutant `DeployNoSend`
  returns from the goroutine without sending.
* `TypeOK` bounds the exit channel. Mutant `CreateDevNoReturn` drops the
  return after a send.

Finding: **push redeploys one translation (`destroy.go:431`).** This is a
code bug. The goroutine sends `nil` and returns after the first deploy, in
map order. With services, "Source code pushed" is printed while the app or
a service still runs the old image.

## `Diverts` and `DivertsSpec`: divert CRUD (crud.go)

* `Diverts` has one client.
  * `pc` is the step of the command running; `op` is create or delete.
  * Create: `CreateCheck`, `DivertApp`, `DivertService`, `DivertIngress`,
    `CreateDivertCRD`.
    `CreateDivertCRD` is the CRD Get, then Create when it is missing or
    Update when it exists; without the Divert resource the Get's error is
    returned (line 116).
  * Delete: `DeleteCRD`, `DeleteIngress`, `DeleteService`.
  * `CallFails`: any call fails, or the user interrupts. The command
    returns an error and the cluster keeps what the earlier steps did.
  * `Run`, `Rerun` and `Done` are the user.
  * `cluster` is the set of the divert's objects that exist.
  * `oktetoCtx`, `crdAPI` and `source` are the environment. `Init` starts
    with no divert object, or all three; the CRD only where the cluster
    serves the Divert resource, since deleting the resource deletes its
    objects.
* `DivertsSpec` is what the callers rely on, written from the spec.
  * A running command only adds objects (create) or only removes them
    (delete).
  * A command that returns nil leaves every object present (create) or
    absent (delete).

  `Diverts` implements it under the refinement mapping
  `objs <- cluster, busy <- busyBar`, where `busyBar` is the command while
  one runs.

Bounds: `MaxFailures = 2`, `MaxRuns = 2`. This covers:
* a Create that fails half-way;
* a Delete of what it left;
* a rerun of a Delete that failed after removing the CRD.

Fairness: WF on the client's steps, and on the rerun of a command that
failed with an API error. None on the first choice of command or on
failures.

| run | cfg | expect | shows |
|---|---|---|---|
| `diverts_core` | `MCDiverts.cfg` | pass | `TypeOK`, `NoDanglingCRD`, `Settles`, `AbstractSpec` hold (3,139 states) |
| `diverts_not_supported` | `MCDiverts_NotSupported.cfg` | violation | Delete leaves the divert service and ingress behind |

* `NoDanglingCRD`: the CRD exists only with its service and ingress. This
  holds because Create writes it last and Delete removes it first. Mutant
  `FirstIngressFirst` swaps Delete's order.
* `Settles`: reruns converge, and the client ends idle with no error to
  rerun. Mutant `DeleteCRDNotFoundFails` makes a rerun of Delete fail on the
  CRD it already deleted.
* `AbstractSpec`: `Diverts` refines `DivertsSpec`. Mutant
  `CreateDivertCRDUnchecked` returns nil although the CRD was not written.
* `TypeOK`. Mutant `DivertIngressOtherName` deploys the ingress under
  another name.

Finding: **divert not supported (`crud.go:153`).** This is a code bug.
1. On a cluster without the Divert resource, a Create that fails after
   deploying the divert service leaves it behind. In TLC's trace
   `divertIngress` finds no source ingress (line 94); a Create that gets
   further fails at the CRD Get (line 116), leaving the ingress too.
2. Delete returns `ErrDivertNotSupported` before deleting them.

So `okteto down` never removes them.

## Findings

Findings of `Up`:

1. **Stale completion (`up.go:199`, `230`).** This is a code bug.
   1. After a disconnect, the old shell is only asked to stop, and that
      `http.Get` may fail (line 239).
   2. Its waiter later sends its result on the shared `up.Running`.
   3. The next activation reads that result as its own shell's.

   So after one network drop, `RunUp` can end while the new shell is still
   running. It can also reconnect again for no reason.
2. **Stale disconnect (`up.go:238`).** This is a code bug of the same kind.
   1. The network drops, and the monitor sends on `up.Disconnect`.
   2. The shell fails first; Activate takes `up.Running`, sees sync
      disconnected, and reconnects.
   3. The notice stays in the channel. The next activation's select takes
      it, stops its freshly launched shell and reconnects again, although
      its own monitor reported nothing.
3. **Failed command reported as clean (`up.go:214`).** When the shell fails
   while sync is connected, `up.Exit <- nil` runs and `RunUp` returns `nil`.
   Spec 7 calls this terminal.
4. **Sync failure on reconnect is fatal (`up.go:163`).** Spec 4.1 step 2
   calls it recoverable.

Not a run: Go's select picks a ready case at random (`up.go:222`), so a
disconnect can win over a successful shell completion. Spec 4.1 step 5
fixes the tie-break the other way, but spec section 9 already records that
the code leaves it to the select, so the project does not check it again.

The findings of the other modules are listed in their sections.

## Proofs

`UpProofs` proves `THEOREM TypeCorrect == Spec => []TypeOK` for every
value of `MaxDrops` and `Manifests` allowed by `UpAssumption`. tlapm checks
every step.

`TypeOK` alone is not inductive. The proof uses
`IInv == TypeOK /\ GenLive /\ ExitedHasResult`:

* `GenLive`: once Activate is past `connect`, `gen >= 1`. Without it,
  `Shutdown` could add generation 0 to `cancelled`.
* `ExitedHasResult`: a shell marked exited has a result in
  `{"ok", "fail"}`. Without it, `WaiterSend` could put an ill-typed
  completion on `up.Running`.

`IInv` was first checked with TLC, as an invariant of the `MCUp` instance.

The proof is laid out as follows:
* one lemma per Activate action, split along the variables the action
  writes;
* lemmas for the main goroutine, the environment and the tasks;
* `GenLiveStep` and `ExitedStep` for the two strengthening conjuncts;
* the theorem combines these by `PTL`.

`UpProofs` also proves `THEOREM ModeFlipSafe == Spec => []ModeFlipAfterDrain`.
It strengthens the property with `FlipInv`, which ties Activate's program
counter to the drains done so far:
* in `override`, at least one drain has completed;
* in `flip`, `OverrideChanges` has run and two drains have completed.

`Connect` installs a fresh sync object and only `Flip` changes the mode, so
`FlipInv` together with `IInv` is inductive.

`UpProofs` also proves
`THEOREM EarlierCancelled == Spec => []EarlierActivationsCancelled`. It
strengthens the property with `CancelInv`, which adds two facts:
* Activate starts in `idle` with generation 0;
* in `shutdownWait`, the current generation is cancelled.

The context is cancelled by `Shutdown`, and only `ShutdownTimeout` leads
back to `connect`, so the current generation is cancelled before the
next one is created. `cancelled` only grows.

`UpProofs` also proves that `Up` implements the Session Phase machine:
`THEOREM Refinement == Spec => SessionSpec`, for every value of the
constants. It rests on `AttemptInv`, which ties Activate's program counter
to the current attempt:
* from `startSync` to `flip`, the sync engine is send-only;
* from `startSync` to `exec`, the shell of generation `gen` has not been
  launched;
* from `exec` to `shutdownWait`, the engine is bidirectional;
* from `wait` to `shutdownWait`, the shell has been launched.

Without `AttemptInv`, `Exec` could not be shown to be a `Launch`, which
needs the shell to be unlaunched. Nor could `Wait`'s reconnect be shown to
be a `Disconnect`, which needs it launched. TLC checked `AttemptInv`, and
`SessionPhase`'s invariant under the mapping, on `MCUp` before the proof.

The proof has these parts:
* `InitRefines`: the initial states map to initial states.
* `AttemptStep`: `AttemptInv` is inductive together with `IInv`.
* `RefineStep`: under both invariants, each step is one abstract step
  or a stutter. It has one case per Activate action.
  * `MoveStep` and `StayStep` cover steps that keep the engine's mode
    and the launch state.
  * `TerminateStep` covers every step to `done`.
  * `TaskKeepsLaunch` covers the monitors and waiters.
* The theorem combines these by `PTL`.

`SessionPhase` proves its own invariant:
`THEOREM LaunchSafe == Spec => []LaunchAfterFinalize`. In words: a
launched shell implies a bidirectional engine. It rests on `PhaseFlags`,
which says what each phase implies about the two flags.

Instantiated through the mapping, `LaunchSafe` and `Refinement` give
`THEOREM ShellAfterFlip == Spec => []Session!LaunchAfterFinalize` for
`Up`. While Activate runs, the current activation's shell has been
started only after `forceLocalSyncState` set that activation's
`Sy.Type` to `sendreceive`. This is spec 5's "the shell is never
launched before finalize completes", and it holds across every
reconnect.

`PipelineDestroyProofs` proves, for every set of timeouts allowed by
`PipelineDestroyAssumption` (a non-empty subset of `Nat`):
* `THEOREM TypeCorrect == Spec => []TypeOK`;
* `THEOREM DestroyedSafe == Spec => []DestroyedMeansGone`.

Both rest on `IInv == TypeOK /\ OneSend /\ NilMeansGone /\
DestroyedMeansGone`.
* `OneSend`: an exit channel is empty until its goroutine has sent. A
  goroutine is started only by the main goroutine's step that creates its
  channel. Without `OneSend`, a send could land on a full channel and break
  the capacity bound.
* `NilMeansGone`: a `nil` waiting in `exit2` means the pipeline is gone.
  It is needed because `Select2` turns that `nil` into "destroyed".

The lemmas `SendEmpty` and `Receive` state what a send on an empty channel
of capacity 1, and a receive on a full one, do. The channel type is written
`Chan(S)`, the empty sequence or one value of `S`. It is the same set as
sequences of length at most 1, and the provers handle it without the
sequence axioms.

`PushProofs` proves, for every app and set of services allowed by
`PushAssumption`:
* `THEOREM TypeCorrect == Spec => []TypeOK`;
* `THEOREM NoDevModeDeploy == Spec => []NoDeployInDevMode`.

The inductive invariant adds three conjuncts:
* `GoStarted`: once the redeploy goroutine exists, the main goroutine is
  past `down` and no translation of `trMap` is in development mode;
* `Fresh`: before the goroutine starts, every image is old;
* `SendsLast`: the exit channel is empty until the goroutine is done.

`Down` is the only step that changes development mode, and it starts the
goroutine, so a deployed image never meets development mode.

`PushProofs` also proves `THEOREM PushedSafe == Spec => []PushedMeansDeployed`.
The proof strengthens `IInv` with `DeployInv`, which has two more
conjuncts:
* `NilMeansDeployed`: a `nil` waiting on the exit channel means that some
  translation of `trMap` runs the new image. Only `Deploy` sends `nil`,
  and it sends it together with the image change.
* `PushedAfterGo`: a `pushed` outcome means that the main goroutine is
  done and the goroutine was started.

With `GoStarted`, these give the property at the `Select` step that
receives the `nil`. No later step changes it, because every step but
`Exited` needs the main goroutine alive.

`DivertsProofs` proves, for every `MaxFailures` and `MaxRuns` in `Nat`:
* `THEOREM TypeCorrect == Spec => []TypeOK`;
* `THEOREM CRDNeverDangles == Spec => []NoDanglingCRD`;
* `THEOREM Refinement == Spec => AbstractSpec`: `Diverts` implements
  `DivertsSpec`. `AbstractSpec` has no fairness condition, so the theorem
  proves all of it; TLC checks it too, in `diverts_core`.

They rest on `StepOrder`, which ties the program counter to `op` and to
what the earlier steps left:
* at the ingress step the service exists;
* at the CRD step the service and the ingress exist;
* Delete's ingress step follows the CRD's removal;
* at its service step only the service may remain.

The refinement proof has the usual three steps:
1. the initial states map to initial states;
2. under the invariant, every client step maps to a `DivertsSpec` step,
   and every user step maps to a `Begin` or a stutter;
3. the two combine by `PTL`.

Not provable with TLAPS, so checked only by TLC:
* `InterruptTerminates`, `WaitTerminates`, `PushTerminates` and `Settles`,
  because liveness under fairness is beyond TLAPS;
* the violation runs.

## Not modelled yet, and plan

1. A bound on the number of live shells in `Up`. `HttpStop` may fail, so
   after a reconnect two shells can run at once. Also the `ErrChan` case.
2. The `up.WG.Add(1)` inside the exec waiter goroutine (`up.go:197`).
   WaitGroup counting is abstracted into the tasks' states. Only the
   1-second timer ends a shutdown, so no property tells the orders apart.
3. In `PipelineDestroy`, a second Ctrl+C. A Ctrl+C pressed between the two
   selects goes to the first stop channel, which is no longer read, and is
   lost. The model delivers it there, and the timeout still ends the
   command.

Not modelled at all:
* CLI flag parsing;
* manifest loading and analytics, which are configuration with no
  concurrent state;
* the client libraries outside `src/` (`WaitForActionToFinish`,
  `down.Run`, `build.Run`, the Kubernetes clients). Each is one step that
  succeeds or fails.
