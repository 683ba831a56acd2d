--------------------------- MODULE PipelineDestroy ---------------------------
(***************************************************************************)
(* `okteto pipeline destroy' (src/cmd/pipeline/destroy.go, lines 32-209).  *)
(* The main goroutine runs RunE: destroyPipeline starts a goroutine that   *)
(* calls the control plane and selects on Ctrl+C or on that goroutine's    *)
(* exit channel; with --wait, waitUntilDestroyed starts a second goroutine *)
(* (waitToBeDestroyed) and selects again.  The control plane, the clock    *)
(* and the user are the environment.                                       *)
(***************************************************************************)
EXTENDS Naturals, Sequences

CONSTANTS
    Timeouts    \* values the --timeout flag may take, in seconds

ASSUME PipelineDestroyAssumption == Timeouts \subseteq Nat /\ Timeouts # {}

\* What a goroutine sends on its exit channel: nil, an API error, the
\* "pipeline failed" error, the "didn't finish" timeout error.
ExitVals == {"nil", "err", "failed", "timeout"}

\* What the command ends with: an error, a success message, a panic,
\* ErrIntSig, or death by SIGINT.
Outcomes == {"none", "err", "failed", "timeout", "scheduled", "destroyed",
             "intsig", "nilPanic", "tickerPanic", "killed"}

VARIABLES
    pc,         \* main goroutine: destroy, select1, check, select2, done
    wait,       \* the --wait flag
    timeout,    \* the --timeout flag
    hasAction,  \* the control plane returns an Action (Okteto >= 0.10.0)
    pipeline,   \* the pipeline on the control plane
    destroyer,  \* goroutine of destroyPipeline: none, calling, returned, done
    resp,       \* the shared variable resp of destroyPipeline
    respErr,    \* the shared variable err written by that goroutine
    exit1,      \* exit channel of destroyPipeline (capacity 1)
    got,        \* the resp that destroyPipeline returned
    stop1,      \* stop channel of destroyPipeline (capacity 1)
    stop2,      \* stop channel of waitUntilDestroyed (capacity 1)
    waiter,     \* goroutine of waitUntilDestroyed
    exit2,      \* exit channel of waitUntilDestroyed (capacity 1)
    left,       \* seconds until the timeout ticker fires
    tick,       \* a tick of the 1-second ticker is pending
    interrupted,\* Ctrl+C has been pressed
    outcome     \* how the command ended

vars == <<pc, wait, timeout, hasAction, pipeline, destroyer, resp, respErr,
          exit1, got, stop1, stop2, waiter, exit2, left, tick, interrupted,
          outcome>>

Alive == pc # "done"

\* The command ends; a panic ends it too, from whichever goroutine.
Finish(o) == pc' = "done" /\ outcome' = o

-----------------------------------------------------------------------------
(* destroyPipeline                                                         *)

\* signal.Notify(stop), okteto.NewOktetoClient(), then `go func()'.
DestroyStart ==
    /\ pc = "destroy"
    /\ \/ /\ Finish("err")
          /\ UNCHANGED destroyer
       \/ /\ destroyer' = "calling"
          /\ pc' = "select1"
          /\ UNCHANGED outcome
    /\ UNCHANGED <<pipeline, resp, respErr, exit1, got, stop1, waiter, exit2, left, tick>>

\* resp, err = oktetoClient.DestroyPipeline(...): the control plane starts
\* destroying an existing pipeline; a missing one is NotFound; any call may
\* fail.  A failed call returns a nil resp.
DestroyerCall ==
    /\ destroyer = "calling"
    /\ \/ /\ pipeline = "present"
          /\ pipeline' = "destroying"
          /\ resp' = IF hasAction THEN "action" ELSE "noAction"
          /\ respErr' = "nil"
       \/ /\ pipeline = "gone"
          /\ resp' = "nil" /\ respErr' = "notFound"
          /\ UNCHANGED pipeline
       \/ /\ resp' = "nil" /\ respErr' = "err"
          /\ UNCHANGED pipeline
    /\ destroyer' = "returned"
    /\ UNCHANGED <<pc, exit1, got, waiter, exit2, left, tick, outcome>>

\* exit <- nil when the call succeeded or the pipeline was not found,
\* exit <- error otherwise.
DestroyerSend ==
    /\ destroyer = "returned"
    /\ exit1' = Append(exit1, IF respErr = "err" THEN "err" ELSE "nil")
    /\ destroyer' = "done"
    /\ UNCHANGED <<pc, pipeline, resp, respErr, got, waiter, exit2, left, tick, outcome>>

\* select { case <-stop: ...; case err := <-exit: ... }; return resp, nil.
\* On Ctrl+C, resp is read while the goroutine may still be writing it.
Select1 ==
    /\ pc = "select1"
    /\ \/ /\ stop1
          /\ stop1' = FALSE
          /\ got' = IF resp = "unset" THEN "nil" ELSE resp
          /\ pc' = "check"
          /\ UNCHANGED <<exit1, outcome>>
       \/ /\ exit1 # <<>>
          /\ exit1' = Tail(exit1)
          /\ \/ Head(exit1) = "err" /\ Finish("err") /\ UNCHANGED got
             \/ Head(exit1) = "nil" /\ got' = resp /\ pc' = "check"
                /\ UNCHANGED outcome
          /\ UNCHANGED stop1
    /\ UNCHANGED <<pipeline, destroyer, resp, respErr, waiter, exit2, left, tick>>

-----------------------------------------------------------------------------
(* RunE after destroyPipeline                                              *)

\* Without --wait, report the pipeline as scheduled; with it, read
\* resp.Action (a nil resp panics) and start waitUntilDestroyed:
\* signal.Notify(stop) and `go func(){ exit <- waitToBeDestroyed(...) }'.
Check ==
    /\ pc = "check"
    /\ \/ /\ ~wait
          /\ Finish("scheduled")
          /\ UNCHANGED waiter
       \/ /\ wait /\ got = "nil"
          /\ Finish("nilPanic")
          /\ UNCHANGED waiter
       \/ /\ wait /\ got # "nil"
          /\ waiter' = IF got = "action" THEN "action" ELSE "deprecated"
          /\ pc' = "select2"
          /\ UNCHANGED outcome
    /\ UNCHANGED <<pipeline, destroyer, resp, respErr, exit1, got, stop1, exit2, left, tick>>

-----------------------------------------------------------------------------
(* waitToBeDestroyed                                                       *)

\* action != nil: okteto.NewOktetoClient(), then WaitForActionToFinish.
ActionStart ==
    /\ waiter = "action"
    /\ \/ /\ exit2' = Append(exit2, "err")
          /\ waiter' = "sent"
          /\ UNCHANGED left
       \/ /\ waiter' = "actionWait"
          /\ left' = timeout
          /\ UNCHANGED exit2
    /\ UNCHANGED <<pc, pipeline, destroyer, resp, respErr, exit1, got, tick, outcome>>

\* WaitForActionToFinish (outside src/): the action ends when the control
\* plane has destroyed the pipeline or failed; a positive timeout expires.
ActionFinish ==
    /\ waiter = "actionWait"
    /\ \/ pipeline = "gone" /\ exit2' = Append(exit2, "nil")
       \/ pipeline = "error" /\ exit2' = Append(exit2, "failed")
       \/ timeout > 0 /\ left = 0 /\ exit2' = Append(exit2, "timeout")
       \/ exit2' = Append(exit2, "err")
    /\ waiter' = "sent"
    /\ UNCHANGED <<pc, pipeline, destroyer, resp, respErr, exit1, got, left, tick, outcome>>

\* deprecatedWaitToBeDestroyed: time.NewTicker(1s), time.NewTicker(timeout)
\* (which panics unless timeout > 0), okteto.NewOktetoClient().
DeprecatedStart ==
    /\ waiter = "deprecated"
    /\ \/ /\ timeout = 0
          /\ Finish("tickerPanic")
          /\ UNCHANGED <<waiter, exit2, left, tick>>
       \/ /\ timeout > 0
          /\ exit2' = Append(exit2, "err")
          /\ waiter' = "sent"
          /\ UNCHANGED <<pc, outcome, left, tick>>
       \/ /\ timeout > 0
          /\ waiter' = "loop"
          /\ left' = timeout
          /\ tick' = FALSE
          /\ UNCHANGED <<pc, outcome, exit2>>
    /\ UNCHANGED <<pipeline, destroyer, resp, respErr, exit1, got>>

\* Mutant: a failed poll is taken for NotFound (`if err != nil { return nil }').
DeprecatedLoopErrIsGone ==
    /\ waiter = "loop"
    /\ \/ /\ left = 0
          /\ exit2' = Append(exit2, "timeout")
          /\ waiter' = "sent"
          /\ UNCHANGED tick
       \/ /\ tick
          /\ tick' = FALSE
          /\ \/ pipeline = "gone" /\ exit2' = Append(exit2, "nil") /\ waiter' = "sent"
             \/ exit2' = Append(exit2, "nil") /\ waiter' = "sent"
             \/ pipeline = "error" /\ exit2' = Append(exit2, "failed") /\ waiter' = "sent"
             \/ pipeline \in {"present", "destroying"} /\ UNCHANGED <<exit2, waiter>>
    /\ UNCHANGED <<pc, pipeline, destroyer, resp, respErr, exit1, got, left, outcome>>

\* Mutant: the loop selects only on the poll ticker (the `to' case dropped).
DeprecatedLoopNoTimeout ==
    /\ waiter = "loop"
    /\ tick
    /\ tick' = FALSE
    /\ \/ pipeline = "gone" /\ exit2' = Append(exit2, "nil") /\ waiter' = "sent"
       \/ exit2' = Append(exit2, "err") /\ waiter' = "sent"
       \/ pipeline = "error" /\ exit2' = Append(exit2, "failed") /\ waiter' = "sent"
       \/ pipeline \in {"present", "destroying"} /\ UNCHANGED <<exit2, waiter>>
    /\ UNCHANGED <<pc, pipeline, destroyer, resp, respErr, exit1, got, left, outcome>>

\* The loop's select: the timeout ticker has fired, or a 1-second tick
\* polls GetPipelineByName: NotFound ends the wait, an API error or the
\* "error" status fail it, anything else loops.
DeprecatedLoop ==
    /\ waiter = "loop"
    /\ \/ /\ left = 0
          /\ exit2' = Append(exit2, "timeout")
          /\ waiter' = "sent"
          /\ UNCHANGED tick
       \/ /\ tick
          /\ tick' = FALSE
          /\ \/ pipeline = "gone" /\ exit2' = Append(exit2, "nil") /\ waiter' = "sent"
             \/ exit2' = Append(exit2, "err") /\ waiter' = "sent"
             \/ pipeline = "error" /\ exit2' = Append(exit2, "failed") /\ waiter' = "sent"
             \/ pipeline \in {"present", "destroying"} /\ UNCHANGED <<exit2, waiter>>
    /\ UNCHANGED <<pc, pipeline, destroyer, resp, respErr, exit1, got, left, outcome>>

\* waitUntilDestroyed's select: Ctrl+C gives ErrIntSig, the goroutine's
\* error is returned, nil is success.
Select2 ==
    /\ pc = "select2"
    /\ \/ /\ stop2
          /\ Finish("intsig")
          /\ UNCHANGED exit2
       \/ /\ exit2 # <<>>
          /\ exit2' = Tail(exit2)
          /\ Finish(IF Head(exit2) = "nil" THEN "destroyed" ELSE Head(exit2))
    /\ UNCHANGED <<pipeline, destroyer, resp, respErr, exit1, got, stop1, waiter, left, tick>>

-----------------------------------------------------------------------------
(* Environment                                                             *)

\* Ctrl+C.  Before destroyPipeline's signal.Notify (line 105) the default
\* handler kills the process; after it, the signal is delivered to every
\* channel registered with signal.Notify: the stop of destroyPipeline
\* stays registered after it returns, that of waitUntilDestroyed is
\* registered once it runs (line 148).
Interrupt ==
    /\ ~interrupted
    /\ interrupted' = TRUE
    /\ \/ /\ pc = "destroy"
          /\ Finish("killed")
          /\ UNCHANGED <<stop1, stop2>>
       \/ /\ pc # "destroy"
          /\ stop1' = TRUE
          /\ stop2' = (pc = "select2")
          /\ UNCHANGED <<pc, outcome>>
    /\ UNCHANGED <<pipeline, destroyer, resp, respErr, exit1, got, waiter,
                   exit2, left, tick>>

\* The control plane finishes destroying the pipeline, or fails.
ControlPlane ==
    /\ pipeline = "destroying"
    /\ pipeline' \in {"gone", "error"}
    /\ UNCHANGED <<pc, destroyer, resp, respErr, exit1, got, stop1, stop2,
                   waiter, exit2, left, tick, interrupted, outcome>>

\* One second passes while a wait is running: the 1-second ticker of the
\* loop fires (its channel holds one tick) and the timeout ticker counts
\* down to its deadline.  WaitForActionToFinish only needs the deadline.
Tick ==
    /\ \/ waiter = "loop"
       \/ waiter = "actionWait" /\ left > 0
    /\ left' = IF left > 0 THEN left - 1 ELSE 0
    /\ tick' = TRUE
    /\ UNCHANGED <<pc, pipeline, destroyer, resp, respErr, exit1, got, stop1,
                   stop2, waiter, exit2, interrupted, outcome>>

-----------------------------------------------------------------------------

Init ==
    /\ pc = "destroy"
    /\ wait \in BOOLEAN
    /\ timeout \in Timeouts
    /\ hasAction \in BOOLEAN
    /\ pipeline \in {"present", "gone"}
    /\ destroyer = "none"
    /\ resp = "unset" /\ respErr = "unset"
    /\ exit1 = <<>> /\ exit2 = <<>>
    /\ got = "unset"
    /\ stop1 = FALSE /\ stop2 = FALSE
    /\ waiter = "none"
    /\ left = 0 /\ tick = FALSE
    /\ interrupted = FALSE
    /\ outcome = "none"

Flags == <<wait, timeout, hasAction>>

MainStep == DestroyStart \/ Select1 \/ Check \/ Select2
Destroyer == DestroyerCall \/ DestroyerSend
Waiter == ActionStart \/ ActionFinish \/ DeprecatedStart \/ DeprecatedLoop

\* A step of a goroutine other than main, while the process runs.
GoStep(A) == Alive /\ A /\ UNCHANGED <<Flags, stop1, stop2, interrupted>>

\* Once the main goroutine has returned, or a goroutine panicked, the
\* process has exited.
Exited == ~Alive /\ UNCHANGED vars

Next ==
    \/ Alive /\ MainStep /\ UNCHANGED <<Flags, stop2, interrupted>>
    \/ GoStep(Destroyer \/ Waiter)
    \/ Alive /\ (Interrupt \/ ControlPlane \/ Tick) /\ UNCHANGED Flags
    \/ Exited

\* Goroutines are scheduled and the clock runs.  WaitForActionToFinish
\* returns once the action has ended or its timeout expired; the user, the
\* control plane and API failures are not fair.  Go's select picks among
\* ready cases at random, so a fired timeout ticker is eventually chosen
\* over the ticks that keep arriving.
ActionEnds == pipeline \in {"gone", "error"} \/ (timeout > 0 /\ left = 0)

Fairness ==
    /\ WF_vars(Alive /\ MainStep /\ UNCHANGED <<Flags, stop2, interrupted>>)
    /\ WF_vars(GoStep(Destroyer))
    /\ WF_vars(GoStep(ActionStart \/ DeprecatedStart \/ DeprecatedLoop))
    /\ WF_vars(GoStep(ActionFinish /\ ActionEnds))
    /\ WF_vars(GoStep(DeprecatedLoop /\ left = 0 /\ exit2' = Append(exit2, "timeout")))
    /\ WF_vars(Alive /\ Tick /\ UNCHANGED Flags)

Spec == Init /\ [][Next]_vars
FairSpec == Spec /\ Fairness

-----------------------------------------------------------------------------
(* Properties                                                              *)

\* The contents of a channel of capacity 1 carrying values of S.
Chan(S) == {<<>>} \cup {<<v>> : v \in S}

TypeOK ==
    /\ pc \in {"destroy", "select1", "check", "select2", "done"}
    /\ wait \in BOOLEAN /\ hasAction \in BOOLEAN /\ timeout \in Timeouts
    /\ pipeline \in {"present", "destroying", "gone", "error"}
    /\ destroyer \in {"none", "calling", "returned", "done"}
    /\ resp \in {"unset", "nil", "action", "noAction"}
    /\ respErr \in {"unset", "nil", "notFound", "err"}
    /\ got \in {"unset", "nil", "action", "noAction"}
    /\ exit1 \in Chan({"nil", "err"})
    /\ exit2 \in Chan(ExitVals)
    /\ stop1 \in BOOLEAN /\ stop2 \in BOOLEAN /\ interrupted \in BOOLEAN
    /\ waiter \in {"none", "action", "actionWait", "deprecated", "loop", "sent"}
    /\ left \in 0..timeout /\ tick \in BOOLEAN
    /\ outcome \in Outcomes

(* `Pipeline successfully destroyed' (RunE) is printed only when the       *)
(* control plane no longer has the pipeline: the poll's NotFound, or the  *)
(* action's end, reached the main goroutine through the exit channel.     *)
DestroyedMeansGone == outcome = "destroyed" => pipeline = "gone"

(* With a positive --timeout the command always ends, whatever the control *)
(* plane does and without Ctrl+C: both goroutines send on channels of     *)
(* capacity 1 and the timeout ticker bounds both waits.                    *)
WaitTerminates == timeout > 0 => <>(pc = "done")

(* RunE reads resp.Action only for a response the control plane sent:     *)
(* destroyPipeline returns a nil resp with a nil error after NotFound and  *)
(* after Ctrl+C, and with --wait line 80 dereferences it.                  *)
NoNilDeref == outcome # "nilPanic"

(* The --timeout flag says "zero means never": a zero timeout makes the   *)
(* wait unbounded, it does not crash the command.                          *)
ZeroTimeoutMeansNever == outcome # "tickerPanic"

=============================================================================
