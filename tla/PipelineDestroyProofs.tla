------------------------ MODULE PipelineDestroyProofs ------------------------
(***************************************************************************)
(* Proofs about PipelineDestroy, for every set of --timeout values: the   *)
(* types and channel bounds, and that success is reported only for a      *)
(* pipeline the control plane no longer has.                               *)
(***************************************************************************)
EXTENDS PipelineDestroy, TLAPS

(* Each exit channel holds a value only once its goroutine has sent, and   *)
(* a goroutine sends once: it is started by the main goroutine's step that *)
(* creates its channel, and only then.                                      *)
OneSend ==
    /\ destroyer # "done" => exit1 = <<>>
    /\ waiter # "sent" => exit2 = <<>>
    /\ pc = "destroy" => destroyer = "none"
    /\ pc \in {"destroy", "select1", "check"} => waiter = "none"

(* The nil the waiting goroutine sends means the pipeline is gone, and a  *)
(* gone pipeline stays gone.                                               *)
NilMeansGone == exit2 = <<"nil">> => pipeline = "gone"

IInv == TypeOK /\ OneSend /\ NilMeansGone /\ DestroyedMeansGone

-----------------------------------------------------------------------------

\* A send on an empty channel of capacity 1 leaves exactly that value.
LEMMA SendEmpty ==
    ASSUME NEW S, NEW v \in S
    PROVE  /\ Append(<<>>, v) \in Chan(S)
           /\ Append(<<>>, v) = <<"nil">> <=> v = "nil"
<1>1. Append(<<>>, v) = <<v>>  OBVIOUS
<1>2. QED  BY <1>1 DEF Chan

\* A receive on a channel of capacity 1 that is not empty takes its only
\* value and leaves it empty.
LEMMA Receive ==
    ASSUME NEW S, NEW s \in Chan(S), s # <<>>
    PROVE  /\ s = <<Head(s)>>
           /\ Head(s) \in S
           /\ Tail(s) = <<>>
<1>1. PICK v \in S : s = <<v>>  BY DEF Chan
<1>2. QED  BY <1>1

\* The main goroutine's steps: it only receives, and reports success only
\* on the nil of the waiting goroutine.
LEMMA MainInv ==
    ASSUME IInv, MainStep, UNCHANGED <<Flags, stop2, interrupted>>
    PROVE  IInv'
<1> USE PipelineDestroyAssumption DEF IInv, Flags, Finish, ExitVals, Outcomes
<1>1. CASE DestroyStart
    <2>1. TypeOK'  BY <1>1 DEF DestroyStart, TypeOK, Chan
    <2>2. OneSend'  BY <1>1 DEF DestroyStart, OneSend
    <2>3. NilMeansGone'  BY <1>1 DEF DestroyStart, NilMeansGone, OneSend
    <2>4. DestroyedMeansGone'  BY <1>1 DEF DestroyStart, DestroyedMeansGone, NilMeansGone
    <2>5. QED  BY <2>1, <2>2, <2>3, <2>4
<1>2. CASE Select1
    <2>1. TypeOK'
      <3>1. CASE stop1 /\ stop1' = FALSE
        <4>1. /\ pc' = "check" /\ got' = IF resp = "unset" THEN "nil" ELSE resp
              /\ UNCHANGED <<exit1, outcome, pipeline, destroyer, resp, respErr,
                             waiter, exit2, left, tick>>
          BY <1>2, <3>1 DEF Select1
        <4>2. exit1' \in Chan({"nil", "err"}) /\ exit2' \in Chan(ExitVals)
          BY <4>1 DEF TypeOK
        <4>3. /\ wait' \in BOOLEAN /\ hasAction' \in BOOLEAN /\ timeout' \in Timeouts
              /\ stop2' \in BOOLEAN /\ interrupted' \in BOOLEAN
              /\ left' \in 0..timeout'
          BY <4>1 DEF TypeOK
        <4>4. /\ pc' \in {"destroy", "select1", "check", "select2", "done"}
              /\ got' \in {"unset", "nil", "action", "noAction"}
              /\ stop1' \in BOOLEAN
          BY <3>1, <4>1 DEF TypeOK
        <4>5. QED  BY <4>1, <4>2, <4>3, <4>4 DEF TypeOK
      <3>2. CASE exit1 # <<>> /\ exit1' = Tail(exit1)
        <4>1. Head(exit1) \in {"nil", "err"} /\ exit1' \in Chan({"nil", "err"})
          <5>1. Head(exit1) \in {"nil", "err"} /\ Tail(exit1) = <<>>
            BY <3>2, Receive DEF TypeOK
          <5>2. <<>> \in Chan({"nil", "err"})
            BY DEF Chan
          <5>3. QED  BY <3>2, <5>1, <5>2
        <4>2. /\ pc' \in {"check", "done"} /\ outcome' \in Outcomes
              /\ got' \in {got, resp}
              /\ UNCHANGED <<stop1, pipeline, destroyer, resp, respErr, waiter,
                             exit2, left, tick>>
          BY <1>2, <3>2 DEF Select1, Finish, TypeOK
        <4>a. exit1' \in Chan({"nil", "err"}) /\ exit2' \in Chan(ExitVals)
          BY <4>1, <4>2 DEF TypeOK
        <4>b. /\ wait' \in BOOLEAN /\ hasAction' \in BOOLEAN /\ timeout' \in Timeouts
              /\ stop1' \in BOOLEAN /\ stop2' \in BOOLEAN /\ interrupted' \in BOOLEAN
              /\ left' \in 0..timeout'
          BY <4>1, <4>2 DEF TypeOK
        <4>c. /\ pc' \in {"destroy", "select1", "check", "select2", "done"}
              /\ pipeline' \in {"present", "destroying", "gone", "error"}
              /\ destroyer' \in {"none", "calling", "returned", "done"}
              /\ resp' \in {"unset", "nil", "action", "noAction"}
              /\ respErr' \in {"unset", "nil", "notFound", "err"}
              /\ got' \in {"unset", "nil", "action", "noAction"}
              /\ waiter' \in {"none", "action", "actionWait", "deprecated", "loop", "sent"}
              /\ tick' \in BOOLEAN /\ outcome' \in Outcomes
          BY <4>1, <4>2 DEF TypeOK
        <4>d. QED  BY <4>a, <4>b, <4>c DEF TypeOK
      <3>3. QED  BY <1>2, <3>1, <3>2 DEF Select1
    <2>2. OneSend'  BY <1>2 DEF Select1, OneSend
    <2>3. NilMeansGone'  BY <1>2 DEF Select1, NilMeansGone, OneSend
    <2>4. DestroyedMeansGone'  BY <1>2 DEF Select1, DestroyedMeansGone, NilMeansGone
    <2>5. QED  BY <2>1, <2>2, <2>3, <2>4
<1>3. CASE Check
    <2>1. TypeOK'  BY <1>3 DEF Check, TypeOK, Chan
    <2>2. OneSend'  BY <1>3 DEF Check, OneSend
    <2>3. NilMeansGone'  BY <1>3 DEF Check, NilMeansGone, OneSend
    <2>4. DestroyedMeansGone'  BY <1>3 DEF Check, DestroyedMeansGone, NilMeansGone
    <2>5. QED  BY <2>1, <2>2, <2>3, <2>4
<1>4. CASE Select2
    <2>1. TypeOK'  BY <1>4, Receive DEF Select2, TypeOK, Chan
    <2>2. OneSend'  BY <1>4 DEF Select2, OneSend
    <2>3. NilMeansGone'  BY <1>4, Receive DEF Select2, NilMeansGone, OneSend, TypeOK, Chan
    <2>4. DestroyedMeansGone'  BY <1>4, Receive DEF Select2, DestroyedMeansGone, NilMeansGone, TypeOK, Chan
    <2>5. QED  BY <2>1, <2>2, <2>3, <2>4
<1>5. QED  BY <1>1, <1>2, <1>3, <1>4 DEF MainStep

\* The goroutines' steps: each sends once, into an empty channel, and the
\* waiting goroutine sends nil only for a gone pipeline.
LEMMA GoInv ==
    ASSUME IInv, GoStep(Destroyer \/ Waiter)
    PROVE  IInv'
<1> USE PipelineDestroyAssumption DEF IInv, GoStep, Flags, Finish, ExitVals, Outcomes
<1>1. CASE DestroyerCall
    <2>1. TypeOK'  BY <1>1 DEF DestroyerCall, TypeOK, Chan
    <2>2. OneSend'  BY <1>1 DEF DestroyerCall, OneSend
    <2>3. NilMeansGone'  BY <1>1 DEF DestroyerCall, NilMeansGone, OneSend
    <2>4. DestroyedMeansGone'  BY <1>1 DEF DestroyerCall, DestroyedMeansGone, NilMeansGone
    <2>5. QED  BY <2>1, <2>2, <2>3, <2>4
<1>2. CASE DestroyerSend
    <2>1. TypeOK'  BY <1>2, SendEmpty DEF DestroyerSend, TypeOK, OneSend, Chan
    <2>2. OneSend'  BY <1>2 DEF DestroyerSend, OneSend
    <2>3. NilMeansGone'  BY <1>2, SendEmpty DEF DestroyerSend, NilMeansGone, OneSend
    <2>4. DestroyedMeansGone'  BY <1>2 DEF DestroyerSend, DestroyedMeansGone, NilMeansGone
    <2>5. QED  BY <2>1, <2>2, <2>3, <2>4
<1>3. CASE ActionStart
    <2>1. TypeOK'  BY <1>3, SendEmpty DEF ActionStart, TypeOK, OneSend, Chan
    <2>2. OneSend'  BY <1>3 DEF ActionStart, OneSend
    <2>3. NilMeansGone'  BY <1>3, SendEmpty DEF ActionStart, NilMeansGone, OneSend
    <2>4. DestroyedMeansGone'  BY <1>3 DEF ActionStart, DestroyedMeansGone, NilMeansGone
    <2>5. QED  BY <2>1, <2>2, <2>3, <2>4
<1>4. CASE ActionFinish
    <2>1. TypeOK'  BY <1>4, SendEmpty DEF ActionFinish, TypeOK, OneSend, Chan
    <2>2. OneSend'  BY <1>4 DEF ActionFinish, OneSend
    <2>3. NilMeansGone'  BY <1>4, SendEmpty DEF ActionFinish, NilMeansGone, OneSend
    <2>4. DestroyedMeansGone'  BY <1>4 DEF ActionFinish, DestroyedMeansGone, NilMeansGone
    <2>5. QED  BY <2>1, <2>2, <2>3, <2>4
<1>5. CASE DeprecatedStart
    <2>1. TypeOK'
      <3>1. exit2' \in Chan(ExitVals)
        BY <1>5, SendEmpty DEF DeprecatedStart, TypeOK, OneSend
      <3>2. timeout \in Nat
        BY DEF TypeOK
      <3>3. /\ pc' \in {pc, "done"} /\ outcome' \in Outcomes
            /\ waiter' \in {waiter, "sent", "loop"}
            /\ left' \in {left, timeout} /\ tick' \in BOOLEAN
            /\ UNCHANGED <<pipeline, destroyer, resp, respErr, exit1, got>>
        BY <1>5 DEF DeprecatedStart, Finish, TypeOK
      <3>a. exit1' \in Chan({"nil", "err"}) /\ exit2' \in Chan(ExitVals)
        BY <3>1, <3>2, <3>3 DEF TypeOK
      <3>b. /\ wait' \in BOOLEAN /\ hasAction' \in BOOLEAN /\ timeout' \in Timeouts
            /\ stop1' \in BOOLEAN /\ stop2' \in BOOLEAN /\ interrupted' \in BOOLEAN
            /\ left' \in 0..timeout'
        BY <3>1, <3>2, <3>3 DEF TypeOK
      <3>c. /\ pc' \in {"destroy", "select1", "check", "select2", "done"}
            /\ pipeline' \in {"present", "destroying", "gone", "error"}
            /\ destroyer' \in {"none", "calling", "returned", "done"}
            /\ resp' \in {"unset", "nil", "action", "noAction"}
            /\ respErr' \in {"unset", "nil", "notFound", "err"}
            /\ got' \in {"unset", "nil", "action", "noAction"}
            /\ waiter' \in {"none", "action", "actionWait", "deprecated", "loop", "sent"}
            /\ tick' \in BOOLEAN /\ outcome' \in Outcomes
        BY <3>1, <3>2, <3>3 DEF TypeOK
      <3>d. QED  BY <3>a, <3>b, <3>c DEF TypeOK
    <2>2. OneSend'  BY <1>5 DEF DeprecatedStart, OneSend
    <2>3. NilMeansGone'  BY <1>5, SendEmpty DEF DeprecatedStart, NilMeansGone, OneSend
    <2>4. DestroyedMeansGone'  BY <1>5 DEF DeprecatedStart, DestroyedMeansGone, NilMeansGone
    <2>5. QED  BY <2>1, <2>2, <2>3, <2>4
<1>6. CASE DeprecatedLoop
    <2>1. TypeOK'
      <3>1. exit2' \in Chan(ExitVals)
        BY <1>6, SendEmpty DEF DeprecatedLoop, TypeOK, OneSend
      <3>2. /\ waiter' \in {"loop", "sent"} /\ tick' \in BOOLEAN
            /\ UNCHANGED <<pc, pipeline, destroyer, resp, respErr, exit1, got,
                           left, outcome>>
        BY <1>6 DEF DeprecatedLoop, TypeOK
      <3>a. exit1' \in Chan({"nil", "err"}) /\ exit2' \in Chan(ExitVals)
        BY <3>1, <3>2 DEF TypeOK
      <3>b. /\ wait' \in BOOLEAN /\ hasAction' \in BOOLEAN /\ timeout' \in Timeouts
            /\ stop1' \in BOOLEAN /\ stop2' \in BOOLEAN /\ interrupted' \in BOOLEAN
            /\ left' \in 0..timeout'
        BY <3>1, <3>2 DEF TypeOK
      <3>c. /\ pc' \in {"destroy", "select1", "check", "select2", "done"}
            /\ pipeline' \in {"present", "destroying", "gone", "error"}
            /\ destroyer' \in {"none", "calling", "returned", "done"}
            /\ resp' \in {"unset", "nil", "action", "noAction"}
            /\ respErr' \in {"unset", "nil", "notFound", "err"}
            /\ got' \in {"unset", "nil", "action", "noAction"}
            /\ waiter' \in {"none", "action", "actionWait", "deprecated", "loop", "sent"}
            /\ tick' \in BOOLEAN /\ outcome' \in Outcomes
        BY <3>1, <3>2 DEF TypeOK
      <3>d. QED  BY <3>a, <3>b, <3>c DEF TypeOK
    <2>2. OneSend'  BY <1>6 DEF DeprecatedLoop, OneSend
    <2>3. NilMeansGone'  BY <1>6, SendEmpty DEF DeprecatedLoop, NilMeansGone, OneSend
    <2>4. DestroyedMeansGone'  BY <1>6 DEF DeprecatedLoop, DestroyedMeansGone, NilMeansGone
    <2>5. QED  BY <2>1, <2>2, <2>3, <2>4
<1>7. QED  BY <1>1, <1>2, <1>3, <1>4, <1>5, <1>6 DEF Destroyer, Waiter

\* The environment's steps: the control plane never brings a gone
\* pipeline back.
LEMMA EnvInv ==
    ASSUME IInv, Interrupt \/ ControlPlane \/ Tick, UNCHANGED Flags
    PROVE  IInv'
<1> USE PipelineDestroyAssumption DEF IInv, Flags, Finish
<1>1. CASE Interrupt
    <2>1. TypeOK'
      <3>1. /\ pc' \in {pc, "done"} /\ outcome' \in Outcomes
            /\ stop1' \in BOOLEAN /\ stop2' \in BOOLEAN /\ interrupted' \in BOOLEAN
        <4>1. CASE pc = "destroy"
          BY <1>1, <4>1, Zenon DEF Interrupt, TypeOK, Outcomes
        <4>2. CASE pc # "destroy"
          BY <1>1, <4>2, Zenon DEF Interrupt, TypeOK
        <4>3. QED  BY <4>1, <4>2
      <3>2. QED  BY <1>1, <3>1 DEF Interrupt, TypeOK
    <2>2. OneSend'  BY <1>1 DEF Interrupt, OneSend
    <2>3. NilMeansGone'  BY <1>1 DEF Interrupt, NilMeansGone, OneSend
    <2>4. DestroyedMeansGone'  BY <1>1 DEF Interrupt, DestroyedMeansGone, NilMeansGone
    <2>5. QED  BY <2>1, <2>2, <2>3, <2>4
<1>2. CASE ControlPlane
    <2>1. TypeOK'  BY <1>2 DEF ControlPlane, TypeOK, Chan
    <2>2. OneSend'  BY <1>2 DEF ControlPlane, OneSend
    <2>3. NilMeansGone'  BY <1>2 DEF ControlPlane, NilMeansGone, OneSend
    <2>4. DestroyedMeansGone'  BY <1>2 DEF ControlPlane, DestroyedMeansGone, NilMeansGone
    <2>5. QED  BY <2>1, <2>2, <2>3, <2>4
<1>3. CASE Tick
    <2>1. TypeOK'  BY <1>3 DEF Tick, TypeOK, Chan
    <2>2. OneSend'  BY <1>3 DEF Tick, OneSend
    <2>3. NilMeansGone'  BY <1>3 DEF Tick, NilMeansGone, OneSend
    <2>4. DestroyedMeansGone'  BY <1>3 DEF Tick, DestroyedMeansGone, NilMeansGone
    <2>5. QED  BY <2>1, <2>2, <2>3, <2>4
<1>4. QED  BY <1>1, <1>2, <1>3

LEMMA InitIInv == Init => IInv
<1> SUFFICES ASSUME Init PROVE IInv
    OBVIOUS
<1>1. <<>> \in Chan({"nil", "err"}) /\ <<>> \in Chan(ExitVals)
    BY DEF Chan
<1>2. timeout \in Nat
    BY PipelineDestroyAssumption DEF Init
<1>3. exit1 \in Chan({"nil", "err"}) /\ exit2 \in Chan(ExitVals)
    BY <1>1, Zenon DEF Init
<1>4. TypeOK
    <2>1. /\ wait \in BOOLEAN /\ hasAction \in BOOLEAN /\ timeout \in Timeouts
          /\ stop1 \in BOOLEAN /\ stop2 \in BOOLEAN /\ interrupted \in BOOLEAN
          /\ tick \in BOOLEAN
      BY Zenon DEF Init
    <2>2. left \in 0..timeout
      BY <1>2 DEF Init
    <2>3. /\ pc \in {"destroy", "select1", "check", "select2", "done"}
          /\ pipeline \in {"present", "destroying", "gone", "error"}
          /\ destroyer \in {"none", "calling", "returned", "done"}
          /\ resp \in {"unset", "nil", "action", "noAction"}
          /\ respErr \in {"unset", "nil", "notFound", "err"}
          /\ got \in {"unset", "nil", "action", "noAction"}
          /\ waiter \in {"none", "action", "actionWait", "deprecated", "loop", "sent"}
          /\ outcome \in Outcomes
      BY DEF Init, Outcomes
    <2>4. QED  BY <1>3, <2>1, <2>2, <2>3 DEF TypeOK
<1>5. QED
    BY <1>4 DEF Init, IInv, OneSend, NilMeansGone, DestroyedMeansGone

LEMMA IInvStep == IInv /\ [Next]_vars => IInv'
<1> SUFFICES ASSUME IInv, [Next]_vars PROVE IInv'
    OBVIOUS
<1>1. CASE Alive /\ MainStep /\ UNCHANGED <<Flags, stop2, interrupted>>
    BY <1>1, MainInv
<1>2. CASE GoStep(Destroyer \/ Waiter)
    BY <1>2, GoInv
<1>3. CASE Alive /\ (Interrupt \/ ControlPlane \/ Tick) /\ UNCHANGED Flags
    BY <1>3, EnvInv
<1>4. CASE Exited \/ UNCHANGED vars
    BY <1>4 DEF Exited, vars, IInv, TypeOK, OneSend, NilMeansGone,
       DestroyedMeansGone
<1>5. QED  BY <1>1, <1>2, <1>3, <1>4 DEF Next

(* Every reachable state is typed, and each exit channel holds at most the *)
(* one value its goroutine sends.                                          *)
THEOREM TypeCorrect == Spec => []TypeOK
<1>1. Spec => []IInv  BY InitIInv, IInvStep, PTL DEF Spec
<1>2. QED  BY <1>1, PTL DEF IInv

(* For every set of timeouts, `Pipeline successfully destroyed' is printed *)
(* only when the control plane no longer has the pipeline, whichever of   *)
(* the Action wait and the deprecated poll loop ran and however the       *)
(* goroutines, Ctrl+C and the tickers interleaved.                         *)
THEOREM DestroyedSafe == Spec => []DestroyedMeansGone
<1>1. Spec => []IInv  BY InitIInv, IInvStep, PTL DEF Spec
<1>2. QED  BY <1>1, PTL DEF IInv
=============================================================================
