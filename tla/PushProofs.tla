------------------------------ MODULE PushProofs ------------------------------
(***************************************************************************)
(* Proofs about Push, for every app and set of services: the types and the *)
(* exit channel's bound, and that no translation still in development     *)
(* mode is redeployed.                                                     *)
(***************************************************************************)
EXTENDS Push, TLAPS

(* The redeploy goroutine is started by the main goroutine's step past the *)
(* loop at line 384, which has deactivated every translation of trMap;     *)
(* after it nothing changes development mode.                              *)
GoStarted ==
    g # "none" => /\ pc \in {"select", "done"}
                  /\ \A t \in trs : ~devMode[t]

(* Before the goroutine starts, nothing has been deployed. *)
Fresh == g = "none" => image = [t \in AllTrs |-> "old"]

(* The exit channel is empty until the goroutine is done. *)
SendsLast == g # "done" => exit = <<>>

IInv == TypeOK /\ GoStarted /\ Fresh /\ SendsLast /\ NoDeployInDevMode

-----------------------------------------------------------------------------

\* A send on an empty channel of capacity 1 leaves exactly that value.
LEMMA SendEmpty ==
    ASSUME NEW S, NEW v \in S
    PROVE  Append(<<>>, v) \in Chan(S)
<1>1. Append(<<>>, v) = <<v>>  OBVIOUS
<1>2. QED  BY <1>1 DEF Chan

\* A receive on a channel of capacity 1 that is not empty leaves it empty.
LEMMA Receive ==
    ASSUME NEW S, NEW s \in Chan(S), s # <<>>
    PROVE  Tail(s) = <<>> /\ <<>> \in Chan(S)
<1>1. PICK v \in S : s = <<v>>  BY DEF Chan
<1>2. <<>> \in Chan(S)  BY DEF Chan
<1>3. QED  BY <1>1, <1>2

\* The app's translation is always one of trMap's keys.
LEMMA MainInTrs ==
    ASSUME TypeOK
    PROVE  Main \in trs
BY DEF TypeOK, AllTrs

\* The main goroutine's steps up to the select leave the goroutine and the
\* images alone; only Down changes development mode, and it starts the
\* goroutine.
LEMMA MainInv ==
    ASSUME IInv, Alive, MainStep, UNCHANGED Config
    PROVE  IInv'
<1> USE DEF IInv, Config, Finish, Goto, AllTrs
<1>1. CASE GetApp \/ Translate \/ ImageCheck \/ Build
    <2>1. /\ UNCHANGED <<devMode, image, g, exit, stop>>
          /\ pc' \in {pc, "translate", "image", "build", "down", "done"}
          /\ outcome' \in {outcome, "err"}
      BY <1>1 DEF GetApp, Translate, ImageCheck, Build
    <2>2. g = "none"
      BY <1>1 DEF GoStarted, GetApp, Translate, ImageCheck, Build
    <2>3. TypeOK'  BY <2>1 DEF TypeOK
    <2>4. QED  BY <2>1, <2>2, <2>3 DEF GoStarted, Fresh, SendsLast, NoDeployInDevMode
<1>2. CASE Down
    <2>1. g = "none" /\ image = [t \in AllTrs |-> "old"]
      BY <1>2 DEF Down, GoStarted, Fresh
    <2>2. CASE /\ \E t \in trs : devMode[t]
               /\ Finish("err")
               /\ UNCHANGED <<devMode, g, image, exit, stop>>
      <3>1. TypeOK'  BY <2>2 DEF TypeOK
      <3>2. QED  BY <2>1, <2>2, <3>1 DEF GoStarted, Fresh, SendsLast, NoDeployInDevMode
    <2>3. CASE /\ devMode' = [t \in AllTrs |-> devMode[t] /\ t \notin trs]
               /\ g' = IF PushAnnotated THEN "createDev" ELSE "deploy"
               /\ Goto("select")
               /\ UNCHANGED <<image, exit, stop>>
      <3>1. TypeOK'  BY <2>3 DEF TypeOK
      <3>2. GoStarted'  BY <2>3 DEF GoStarted, TypeOK
      <3>3. NoDeployInDevMode'  BY <2>1, <2>3 DEF NoDeployInDevMode
      <3>4. SendsLast'  BY <2>1, <2>3 DEF SendsLast
      <3>5. Fresh'  BY <2>3 DEF Fresh
      <3>6. QED  BY <3>1, <3>2, <3>3, <3>4, <3>5
    <2>4. QED  BY <1>2, <2>2, <2>3 DEF Down
<1>3. CASE Select
    <2>1. /\ UNCHANGED <<devMode, image, g, stop>> /\ pc' = "done"
          /\ outcome' \in {"intsig", "pushed", "err"}
          /\ exit' \in {exit, Tail(exit)}
      BY <1>3 DEF Select
    <2>2. exit' \in Chan({"nil", "err"})
      BY <1>3, <2>1, Receive DEF Select, TypeOK
    <2>3. TypeOK'  BY <2>1, <2>2 DEF TypeOK
    <2>4. GoStarted' /\ Fresh' /\ NoDeployInDevMode'
      BY <2>1 DEF GoStarted, Fresh, NoDeployInDevMode
    <2>5. SendsLast'
      BY <1>3, <2>1 DEF Select, SendsLast
    <2>6. QED  BY <2>3, <2>4, <2>5
<1>4. QED  BY <1>1, <1>2, <1>3 DEF MainStep

\* The goroutine deploys only translations of trMap, after Down.
LEMMA GoInv ==
    ASSUME IInv, Alive, GoStep, UNCHANGED Config
    PROVE  IInv'
<1> USE DEF IInv, Config, GoStep, AllTrs
<1>1. Main \in trs  BY MainInTrs
<1>2. CASE CreateDev
    <2>1. /\ UNCHANGED <<pc, devMode, image, stop, outcome>>
          /\ \/ g' = "done" /\ exit' = Append(<<>>, "err")
             \/ g' = "deploy" /\ exit' = exit
      BY <1>2 DEF CreateDev, SendsLast
    <2>2. exit' \in Chan({"nil", "err"})
      BY <2>1, SendEmpty DEF TypeOK
    <2>3. TypeOK'  BY <2>1, <2>2 DEF TypeOK
    <2>4. QED  BY <1>2, <2>1, <2>3 DEF CreateDev, GoStarted, Fresh, SendsLast, NoDeployInDevMode
<1>3. CASE Deploy
    <2>1. g = "deploy" /\ g' = "done" /\ exit = <<>>
      BY <1>3 DEF Deploy, SendsLast
    <2>2. PICK u \in trs :
             /\ UNCHANGED <<pc, devMode, stop, outcome>>
             /\ image' \in {image, [image EXCEPT ![u] = "new"]}
             /\ exit' \in {Append(<<>>, "err"), Append(<<>>, "nil")}
      BY <1>1, <1>3, <2>1 DEF Deploy
    <2>3. exit' \in Chan({"nil", "err"})
      BY <2>2, SendEmpty
    <2>4. TypeOK'
      <3>1. image' \in [AllTrs -> {"old", "new"}]  BY <2>2 DEF TypeOK
      <3>2. QED  BY <2>1, <2>2, <2>3, <3>1 DEF TypeOK
    <2>5. NoDeployInDevMode'
      BY <2>1, <2>2 DEF NoDeployInDevMode, GoStarted, TypeOK
    <2>6. QED  BY <2>1, <2>2, <2>4, <2>5 DEF GoStarted, Fresh, SendsLast
<1>4. QED  BY <1>2, <1>3

\* Ctrl+C changes neither the goroutine nor what was deployed.
LEMMA InterruptInv ==
    ASSUME IInv, Alive, Interrupt, UNCHANGED Config
    PROVE  IInv'
<1>1. /\ UNCHANGED <<devMode, image, g, exit>>
      /\ pc' \in {pc, "done"} /\ outcome' \in {outcome, "killed"}
  BY DEF Interrupt, Finish
<1>2. stop' \in BOOLEAN
  BY Zenon DEF Interrupt, IInv, TypeOK
<1>3. TypeOK'  BY <1>1, <1>2 DEF IInv, Config, TypeOK, AllTrs
<1>4. QED  BY <1>1, <1>3 DEF IInv, Config, GoStarted, Fresh, SendsLast,
                              NoDeployInDevMode

LEMMA InitIInv == Init => IInv
<1> SUFFICES ASSUME Init PROVE IInv
    OBVIOUS
<1>1. <<>> \in Chan({"nil", "err"})  BY DEF Chan
<1>2. TypeOK  BY <1>1 DEF Init, TypeOK, AllTrs
<1>3. QED  BY <1>2 DEF Init, IInv, GoStarted, Fresh, SendsLast, NoDeployInDevMode

LEMMA IInvStep == IInv /\ [Next]_vars => IInv'
<1> SUFFICES ASSUME IInv, [Next]_vars PROVE IInv'
    OBVIOUS
<1>1. CASE Alive /\ MainStep /\ UNCHANGED Config  BY <1>1, MainInv
<1>2. CASE Alive /\ GoStep /\ UNCHANGED Config  BY <1>2, GoInv
<1>3. CASE Alive /\ Interrupt /\ UNCHANGED Config  BY <1>3, InterruptInv
<1>4. CASE Exited \/ UNCHANGED vars
    BY <1>4 DEF Exited, vars, IInv, TypeOK, GoStarted, Fresh, SendsLast,
       NoDeployInDevMode
<1>5. QED  BY <1>1, <1>2, <1>3, <1>4 DEF Next

(* Every reachable state of push is typed, and the exit channel holds at  *)
(* most the one value the goroutine sends.                                 *)
THEOREM TypeCorrect == Spec => []TypeOK
<1>1. Spec => []IInv  BY InitIInv, IInvStep, PTL DEF Spec
<1>2. QED  BY <1>1, PTL DEF IInv

(* For every app and set of services, push never redeploys a translation  *)
(* that is still in development mode: the loop at line 384 deactivates    *)
(* every translation of trMap, or returns, before the goroutine starts.   *)
THEOREM NoDevModeDeploy == Spec => []NoDeployInDevMode
<1>1. Spec => []IInv  BY InitIInv, IInvStep, PTL DEF Spec
<1>2. QED  BY <1>1, PTL DEF IInv

-----------------------------------------------------------------------------
(* What a nil on the exit channel stands for: the goroutine sends nil only *)
(* after setting the new image on a translation of trMap, and the select   *)
(* returns nil only after receiving one.                                   *)
NilMeansDeployed == exit = <<"nil">> => \E t \in trs : image[t] = "new"
PushedAfterGo == outcome = "pushed" => pc = "done" /\ g # "none"
DeployInv == NilMeansDeployed /\ PushedAfterGo /\ PushedMeansDeployed

LEMMA DeployStep == IInv /\ DeployInv /\ [Next]_vars => DeployInv'
<1> SUFFICES ASSUME IInv, DeployInv, [Next]_vars PROVE DeployInv'
    OBVIOUS
<1> USE DEF DeployInv, NilMeansDeployed, PushedAfterGo, PushedMeansDeployed
<1>1. CASE Alive /\ MainStep /\ UNCHANGED Config
  <2>1. outcome # "pushed"
      BY <1>1 DEF Alive
  <2>2. CASE GetApp \/ Translate \/ ImageCheck \/ Build
    <3>1. UNCHANGED <<exit, image>> /\ outcome' \in {outcome, "err"}
        BY <2>2 DEF GetApp, Translate, ImageCheck, Build, Finish, Goto
    <3>2. QED
        BY <1>1, <2>1, <3>1 DEF Config
  <2>3. CASE Down
    <3>1. UNCHANGED <<exit, image>> /\ outcome' \in {outcome, "err"}
        BY <2>3 DEF Down, Finish, Goto
    <3>2. QED
        BY <1>1, <2>1, <3>1 DEF Config
  <2>4. CASE Select
    <3>1. /\ UNCHANGED <<devMode, image, g>> /\ pc' = "done"
          /\ exit' \in {exit, Tail(exit)}
        BY <2>4 DEF Select, Finish
    <3>2. CASE outcome' = "pushed"
      <4>1. exit = <<"nil">> /\ exit' = <<>>
        <5>1. exit # <<>> /\ exit' = Tail(exit) /\ Head(exit) = "nil"
            BY <2>4, <3>2 DEF Select, Finish
        <5>2. PICK v \in {"nil", "err"} : exit = <<v>>
            BY <5>1 DEF IInv, TypeOK, Chan
        <5>3. QED
            BY <5>1, <5>2
      <4>2. g = "done"
          BY <4>1 DEF IInv, SendsLast
      <4>3. \A t \in trs : ~devMode[t]
          BY <4>2 DEF IInv, GoStarted
      <4>4. QED
          BY <1>1, <3>1, <3>2, <4>1, <4>2, <4>3 DEF Config
    <3>3. CASE outcome' # "pushed"
      <4>1. exit' = exit \/ exit' = <<>>
        <5>1. exit' = exit \/ (exit # <<>> /\ exit' = Tail(exit))
            BY <2>4 DEF Select, Finish
        <5>2. exit # <<>> => Tail(exit) = <<>>
            BY Receive DEF IInv, TypeOK
        <5>3. QED
            BY <5>1, <5>2
      <4>2. QED
          BY <1>1, <3>1, <3>3, <4>1 DEF Config
    <3>4. QED
        BY <3>2, <3>3
  <2>5. QED
      BY <1>1, <2>2, <2>3, <2>4 DEF MainStep
<1>2. CASE Alive /\ GoStep /\ UNCHANGED Config
  <2>1. outcome # "pushed" /\ UNCHANGED outcome
      BY <1>2 DEF Alive, GoStep
  <2>2. Main \in trs
      BY MainInTrs DEF IInv
  <2>3. CASE CreateDev
    <3>1. UNCHANGED image /\ exit' \in {exit, Append(exit, "err")}
        BY <2>3 DEF CreateDev
    <3>2. exit' = <<"nil">> => exit = <<"nil">>
        BY <3>1
    <3>3. QED
        BY <1>2, <2>1, <3>1, <3>2 DEF Config
  <2>4. CASE Deploy
    <3>1. exit = <<>>
        BY <2>4 DEF Deploy, IInv, SendsLast
    <3>2. \/ exit' = Append(<<>>, "err")
          \/ \E t \in trs : image'[t] = "new"
      <4>1. image \in [AllTrs -> {"old", "new"}] /\ trs \subseteq AllTrs
          BY DEF IInv, TypeOK, AllTrs
      <4>2. CASE exit' = Append(exit, "err")
          BY <3>1, <4>2
      <4>3. CASE image' = [image EXCEPT ![Main] = "new"]
          BY <2>2, <4>1, <4>3
      <4>4. CASE \E t \in trs : image' = [image EXCEPT ![t] = "new"]
          BY <4>1, <4>4
      <4>5. QED
          BY <2>4, <4>2, <4>3, <4>4 DEF Deploy
    <3>3. QED
        BY <1>2, <2>1, <3>2 DEF Config
  <2>5. QED
      BY <1>2, <2>3, <2>4 DEF GoStep
<1>3. CASE Alive /\ Interrupt /\ UNCHANGED Config
  <2>1. UNCHANGED <<exit, image>> /\ outcome' \in {outcome, "killed"} /\ outcome # "pushed"
      BY <1>3 DEF Interrupt, Finish, Alive
  <2>2. QED
      BY <1>3, <2>1 DEF Config
<1>4. CASE Exited \/ UNCHANGED vars
    BY <1>4 DEF Exited, vars
<1>5. QED
    BY <1>1, <1>2, <1>3, <1>4 DEF Next

(* For every app and set of services, `Source code pushed' is reported    *)
(* only after the redeploy goroutine has deployed the new image on one of *)
(* trMap's translations, with development mode off for all of them: the   *)
(* select's nil comes from the goroutine's `exit <- nil', and down.Run ran *)
(* before `go func()'.                                                     *)
THEOREM PushedSafe == Spec => []PushedMeansDeployed
<1>1. Init => IInv /\ DeployInv
    <2>1. Init => DeployInv
        BY DEF Init, DeployInv, NilMeansDeployed, PushedAfterGo, PushedMeansDeployed
    <2>2. QED
        BY <2>1, InitIInv
<1>2. IInv /\ DeployInv /\ [Next]_vars => IInv' /\ DeployInv'
    BY IInvStep, DeployStep
<1>3. IInv /\ DeployInv => PushedMeansDeployed
    BY DEF DeployInv
<1>4. QED
    BY <1>1, <1>2, <1>3, PTL DEF Spec
=============================================================================
