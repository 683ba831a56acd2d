--------------------------------- MODULE Push ---------------------------------
(***************************************************************************)
(* `okteto push' (runPush, src/cmd/pipeline/destroy.go lines 326-500).    *)
(* The main goroutine looks the app up, computes its translations (the   *)
(* app and, with `services' in the manifest, one per service), checks     *)
(* their images, builds, deactivates development mode, then starts a      *)
(* goroutine that redeploys and selects on Ctrl+C or on that goroutine's  *)
(* exit channel.  The translations are a Go map, iterated in random order. *)
(***************************************************************************)
EXTENDS Naturals, Sequences

CONSTANTS
    Main,       \* the translation of the manifest's app
    Services    \* the translations of the manifest's services

ASSUME PushAssumption == Main \notin Services

AllTrs == {Main} \cup Services

VARIABLES
    pc,         \* main goroutine: get, translate, image, build, down, select, done
    exists,     \* the app is deployed
    annotation, \* the deployed app's autocreate annotation: "none", "push",
                \* or "up" (which also stands for a first container named "dev")
    autocreate, \* the manifest's autocreate field
    trs,        \* the keys of trMap
    images,     \* each translation's dev containers use one image
    devMode,    \* development mode is on for a translation
    image,      \* the image each translation's pods run: "old" or "new"
    g,          \* the redeploy goroutine: none, createDev, deploy, done
    exit,       \* its exit channel (capacity 1)
    stop,       \* the stop channel registered with signal.Notify
    outcome     \* what the command ended with

vars == <<pc, exists, annotation, autocreate, trs, images, devMode, image, g,
          exit, stop, outcome>>

Config == <<exists, annotation, autocreate, trs, images>>

Finish(o) == pc' = "done" /\ outcome' = o

\* runPush moves on to step s.
Goto(s) == pc' = s /\ UNCHANGED outcome

-----------------------------------------------------------------------------
(* The main goroutine                                                      *)

\* apps.Get: a missing app is an error unless autocreate is set and there
\* are no services (and an image tag can be derived); then a sandbox
\* deployment is built in memory.
GetApp ==
    /\ pc = "get"
    /\ \/ Finish("err")
       \/ exists /\ Goto("translate")
       \/ ~exists /\ autocreate /\ trs = {Main} /\ Goto("translate")
       \/ ~exists /\ (~autocreate \/ trs # {Main}) /\ Finish("err")
    /\ UNCHANGED <<devMode, image, g, exit, stop>>

\* apps.GetTranslations.
Translate ==
    /\ pc = "translate"
    /\ Finish("err") \/ Goto("image")
    /\ UNCHANGED <<devMode, image, g, exit, stop>>

\* getImageFromApp: every dev container of the translations must use the
\* same image, whatever order the map is walked in.
ImageCheck ==
    /\ pc = "image"
    /\ IF images THEN Goto("build") ELSE Finish("err")
    /\ UNCHANGED <<devMode, image, g, exit, stop>>

\* buildImage: build.Run.
Build ==
    /\ pc = "build"
    /\ Finish("err") \/ Goto("down")
    /\ UNCHANGED <<devMode, image, g, exit, stop>>

\* After the loop, the app carries the push annotation, so the goroutine
\* starts with services.CreateDev: an app push creates (line 350), or a
\* manifest without services whose app was created by `okteto up' or has
\* a first container named "dev" (the rewrite at lines 385-389; the main
\* translation's App is the app itself).
PushAnnotated ==
    \/ ~exists
    \/ annotation = "push"
    \/ annotation = "up" /\ trs = {Main}

\* Mutant: the error of down.Run is logged, not returned.
DownIgnoresErr ==
    /\ pc = "down"
    /\ \/ /\ \E t \in trs : devMode[t]
          /\ g' = IF PushAnnotated THEN "createDev" ELSE "deploy"
          /\ Goto("select")
          /\ UNCHANGED devMode
       \/ /\ devMode' = [t \in AllTrs |-> devMode[t] /\ t \notin trs]
          /\ g' = IF PushAnnotated THEN "createDev" ELSE "deploy"
          /\ Goto("select")
    /\ UNCHANGED <<image, exit, stop>>

\* The loop at line 384: a translation in development mode makes down.Run
\* deactivate every translation of trMap, and its error is returned.  Then
\* `go func()'; the goroutine first creates the dev service when the app
\* carries the push annotation.
Down ==
    /\ pc = "down"
    /\ \/ /\ \E t \in trs : devMode[t]
          /\ Finish("err")
          /\ UNCHANGED <<devMode, g>>
       \/ /\ devMode' = [t \in AllTrs |-> devMode[t] /\ t \notin trs]
          /\ g' = IF PushAnnotated THEN "createDev" ELSE "deploy"
          /\ Goto("select")
    /\ UNCHANGED <<image, exit, stop>>

\* Mutant: the value received on exit is not checked for an error.
SelectIgnoresErr ==
    /\ pc = "select"
    /\ \/ stop /\ Finish("intsig") /\ UNCHANGED exit
       \/ exit # <<>> /\ exit' = Tail(exit) /\ Finish("pushed")
    /\ UNCHANGED <<devMode, image, g, stop>>

\* select { case <-stop: ErrIntSig; case err := <-exit: ... }.
Select ==
    /\ pc = "select"
    /\ \/ stop /\ Finish("intsig") /\ UNCHANGED exit
       \/ /\ exit # <<>>
          /\ exit' = Tail(exit)
          /\ Finish(IF Head(exit) = "nil" THEN "pushed" ELSE "err")
    /\ UNCHANGED <<devMode, image, g, stop>>

-----------------------------------------------------------------------------
(* The redeploy goroutine                                                  *)

\* Mutant: no return after `exit <- err' (line 402).
CreateDevNoReturn ==
    /\ g = "createDev"
    /\ \/ exit' = Append(exit, "err") /\ g' = "deploy"
       \/ g' = "deploy" /\ UNCHANGED exit
    /\ UNCHANGED image

\* services.CreateDev for an app carrying the push annotation (line 399).
CreateDev ==
    /\ g = "createDev"
    /\ \/ exit' = Append(exit, "err") /\ g' = "done"
       \/ g' = "deploy" /\ UNCHANGED exit
    /\ UNCHANGED image

\* Mutant: the loop returns after a successful deploy without `exit <- nil'.
DeployNoSend ==
    /\ g = "deploy"
    /\ g' = "done"
    /\ \/ exit' = Append(exit, "err") /\ UNCHANGED image
       \/ /\ ~exists
          /\ image' = [image EXCEPT ![Main] = "new"]
          /\ exit' = Append(exit, "nil")
       \/ /\ exists
          /\ \E t \in trs : image' = [image EXCEPT ![t] = "new"]
          /\ UNCHANGED exit

\* A new app is deployed with the new image.  An existing one: the loop
\* takes the first translation of the map, sets the new image on its dev
\* containers, deploys it, and returns.
Deploy ==
    /\ g = "deploy"
    /\ g' = "done"
    /\ \/ exit' = Append(exit, "err") /\ UNCHANGED image
       \/ /\ ~exists
          /\ image' = [image EXCEPT ![Main] = "new"]
          /\ exit' = Append(exit, "nil")
       \/ /\ exists
          /\ \E t \in trs :
                /\ image' = [image EXCEPT ![t] = "new"]
                /\ exit' = Append(exit, "nil")

-----------------------------------------------------------------------------

\* Ctrl+C: before signal.Notify (line 381) it kills the process; from the
\* loop at line 384 on it goes to stop, and the select returns ErrIntSig.
Interrupt ==
    /\ ~stop
    /\ \/ pc \in {"down", "select"} /\ stop' = TRUE /\ UNCHANGED <<pc, outcome>>
       \/ pc \in {"get", "translate", "image", "build"}
          /\ Finish("killed") /\ UNCHANGED stop
    /\ UNCHANGED <<devMode, image, g, exit>>

Init ==
    /\ pc = "get"
    /\ exists \in BOOLEAN
    /\ annotation \in {"none", "up", "push"}
    /\ autocreate \in BOOLEAN
    /\ trs \in {{Main}, AllTrs}
    /\ images \in BOOLEAN
    /\ devMode \in [AllTrs -> BOOLEAN]
    /\ image = [t \in AllTrs |-> "old"]
    /\ g = "none"
    /\ exit = <<>>
    /\ stop = FALSE
    /\ outcome = "none"

Alive == pc # "done"

MainStep == GetApp \/ Translate \/ ImageCheck \/ Build \/ Down \/ Select

GoStep == (CreateDev \/ Deploy) /\ UNCHANGED <<pc, devMode, stop, outcome>>

\* When runPush has returned the process exits, and the goroutine with it.
Exited == ~Alive /\ UNCHANGED vars

Next ==
    \/ Alive /\ MainStep /\ UNCHANGED Config
    \/ Alive /\ GoStep /\ UNCHANGED Config
    \/ Alive /\ Interrupt /\ UNCHANGED Config
    \/ Exited

\* The Go scheduler runs both goroutines; Ctrl+C is the user's.
Fairness ==
    /\ WF_vars(Alive /\ MainStep /\ UNCHANGED Config)
    /\ WF_vars(Alive /\ GoStep /\ UNCHANGED Config)

Spec == Init /\ [][Next]_vars
FairSpec == Spec /\ Fairness

-----------------------------------------------------------------------------
(* Properties                                                              *)

\* The contents of a channel of capacity 1 carrying values of S.
Chan(S) == {<<>>} \cup {<<v>> : v \in S}

TypeOK ==
    /\ pc \in {"get", "translate", "image", "build", "down", "select", "done"}
    /\ exists \in BOOLEAN /\ autocreate \in BOOLEAN /\ images \in BOOLEAN
    /\ annotation \in {"none", "up", "push"}
    /\ trs \in {{Main}, AllTrs}
    /\ devMode \in [AllTrs -> BOOLEAN]
    /\ image \in [AllTrs -> {"old", "new"}]
    /\ g \in {"none", "createDev", "deploy", "done"}
    /\ exit \in Chan({"nil", "err"})
    /\ stop \in BOOLEAN
    /\ outcome \in {"none", "err", "pushed", "intsig", "killed"}

(* Push never redeploys a translation that is still in development mode: *)
(* the loop at line 384 runs down.Run, and returns its error, before the *)
(* goroutine that deploys is started.                                      *)
NoDeployInDevMode == \A t \in AllTrs : image[t] = "new" => ~devMode[t]

(* runPush returns nil, "Source code pushed", only after the redeploy      *)
(* goroutine has set the new image on a translation of trMap and deployed *)
(* it, and only with development mode off for every translation of trMap: *)
(* the nil comes from the goroutine, through the exit channel, and down.Run *)
(* ran before the goroutine was started.                                   *)
PushedMeansDeployed ==
    outcome = "pushed" => /\ \E t \in trs : image[t] = "new"
                          /\ \A t \in trs : ~devMode[t]

(* Without Ctrl+C, push always returns: whatever path the goroutine takes *)
(* it sends exactly once on an exit channel of capacity 1.                *)
PushTerminates == <>(pc = "done")

(* `Source code pushed' is printed only when every translation of the     *)
(* manifest, the app and each of its services, runs the new image.        *)
PushRedeploysAll == outcome = "pushed" => \A t \in trs : image[t] = "new"
=============================================================================
