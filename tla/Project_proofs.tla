--------------------------- MODULE Project_proofs ---------------------------
(***************************************************************************)
(* Project, for any of the networks, any heaps and any number of builds,   *)
(* changes and failures: what a publish hands on is the work of one build  *)
(* (HandsOneBuild), the one of the settings as they are unless they were   *)
(* edited (UneditedPublishes), and no build takes a name another had       *)
(* (NamesAreNeverReused).                                                  *)
(*                                                                         *)
(* The inductive invariant is Inv.  BuildInv says of every step of a build *)
(* what the steps before it have established, DirInv that registry/ holds  *)
(* the docker daemon's images, or a part of them where the copy broke off, *)
(* until a build touches those, NameInv that VERSION is ahead of the names *)
(* in use while a build runs.  A command that only writes .env is dealt    *)
(* with once, in SettingsKeep.                                             *)
(***************************************************************************)
EXTENDS Project, TLAPS

\* The steps of a build.
BuildSteps == {"check", "clean", "backend", "container", "pull", "esr",
               "securelock", "trustedzone", "las", "copy"}

\* Where a step that passes goes, for each service.
GoesOn(from, nodenithy, pynithy) ==
    pc = from => pc' = IF env.service = "Nodenithy" THEN nodenithy ELSE pynithy

LEMMA PassesTo ==
    ASSUME env.service \in Services, pc \in BuildSteps, Passes
    PROVE  /\ GoesOn("check", "clean", "backend")
           /\ GoesOn("clean", "backend", "container")
           /\ GoesOn("backend", "container", "clean")
           /\ GoesOn("container", "pull", "esr")
           /\ GoesOn("pull", "esr", "trustedzone")
           /\ GoesOn("esr", "securelock", "securelock")
           /\ GoesOn("securelock", "trustedzone", "pull")
           /\ GoesOn("trustedzone", "las", "las")
           /\ GoesOn("las", "copy", "copy")
           /\ GoesOn("copy", "idle", "idle")
<1> DEFINE steps == Steps[env.service]
           i == CHOOSE k \in 1 .. Len(steps) : steps[k] = pc
<1>1. pc' = IF i = Len(steps) THEN "idle" ELSE steps[i + 1]
    BY DEF Passes
<1>2. steps = IF env.service = "Nodenithy"
              THEN <<"check", "clean", "backend", "container", "pull", "esr",
                     "securelock", "trustedzone", "las", "copy">>
              ELSE <<"check", "backend", "clean", "container", "esr",
                     "securelock", "pull", "trustedzone", "las", "copy">>
    BY DEF Steps
<1> HIDE DEF steps
<1>3. Len(steps) = 10
    BY <1>2
<1>4. \E k \in 1 .. Len(steps) : steps[k] = pc
    BY <1>2 DEF BuildSteps
<1>5. i \in 1 .. Len(steps) /\ steps[i] = pc
    BY <1>4, Zenon
<1> HIDE DEF i
<1>6. i \in 1 .. 10
    BY <1>3, <1>5
<1> QED
    BY <1>1, <1>2, <1>3, <1>5, <1>6 DEF GoesOn

-----------------------------------------------------------------------------
(***************************************************************************)
(* The invariant.                                                          *)
(***************************************************************************)
StoreT == [securelock : ImageSet \cup {None},
           trustedzone : Networks \cup {None}, las : BOOLEAN]

TypeInv ==
    /\ pc \in BuildSteps \cup {"idle", "measure"}
    /\ env = None \/ env \in EnvSet
    /\ pc # "idle" => env \in EnvSet
    /\ backend \in Backends \cup {None}
    /\ store \in StoreT

\* The image is of the settings as they are.
Same(i) ==
    /\ i.session = env.session /\ i.service = env.service
    /\ i.network = env.network /\ i.template = env.template
    /\ i.heap = env.memory /\ i.esr = env.esr
    /\ env.service = "Nodenithy" => i.flags = env.flags

\* An image a build has made, whatever became of the settings since.
IsBuilt(i) ==
    /\ i \in ImageSet
    /\ i.production = casProvisioned(i.template, i.network)

\* What the steps of a build have established, by the step it is at; the two
\* services take them in different orders.
AtStep(both, nodenithy, pynithy) ==
    \/ pc \in both
    \/ pc \in nodenithy /\ env.service = "Nodenithy"
    \/ pc \in pynithy /\ env.service = "Pynithy"

LastSteps == {"trustedzone", "las", "copy"}
MiddleSteps == {"pull", "esr", "securelock"}

BuildInv ==
    /\ AtStep({"container"} \cup MiddleSteps, {}, {"clean"}) =>
          backend # None
    /\ AtStep(MiddleSteps \cup LastSteps, {}, {}) =>
          /\ env.session \in SessionNames /\ env.session[3] = env.version
          /\ env.service = "Pynithy" => env.memory \in Heaps
    /\ AtStep({"securelock"} \cup LastSteps, {}, {"pull"}) => env.esr # "bad"
    /\ AtStep(LastSteps, {"esr", "securelock"}, {}) =>
          env.template = imageByNetwork[env.network]
    /\ AtStep(LastSteps, {}, {"pull"}) =>
          store.securelock = securelock /\ IsBuilt(securelock) /\ Same(securelock)
    /\ pc \in {"las", "copy"} =>
          trustedzone = env.network /\ store.trustedzone = env.network
    /\ pc = "copy" => store.las = ~isUnsafeNetwork(env.network)

\* registry/ holds images of the docker daemon, made by one build, and all of
\* them unless the copy broke off; it is gone once a build has come to touch
\* those.
DirInv ==
    dir # None =>
        /\ AtStep({"idle", "measure", "check", "clean"}, {}, {"backend"})
        /\ env \in EnvSet
        /\ IsBuilt(securelock)
        /\ securelock.template = imageByNetwork[securelock.network]
        /\ trustedzone = securelock.network
        /\ env.session \in {securelock.session, Renamed}
        /\ dir.securelock \in {securelock, None}
        /\ dir.trustedzone \in {trustedzone, None}
        /\ dir.las => ~isUnsafeNetwork(securelock.network)
        /\ ~touched => /\ Same(securelock)
                       /\ dir.las = ~isUnsafeNetwork(securelock.network)

NameInv ==
    /\ names # {} => env \in EnvSet
    /\ \A x \in names : x \in SessionNames /\ x[3] <= env.version
    /\ pc \in BuildSteps => /\ \A x \in names : x[3] < env.version
                            /\ env.version >= 1

Inv == TypeInv /\ BuildInv /\ DirInv /\ NameInv

LEMMA Initially ==
    ASSUME Init PROVE Inv
<1>1. EmptyStore \in StoreT
    BY DEF EmptyStore, StoreT
<1> QED
    BY <1>1
    DEF Init, Inv, TypeInv, BuildInv, DirInv, NameInv, AtStep, BuildSteps,
        MiddleSteps, LastSteps

\* A command that stops between two steps of a build.
LEMMA Stopping ==
    ASSUME Inv, pc' = "idle", UNCHANGED <<env, backend, touched, names>>,
           store' \in StoreT,
           dir' = None \/ UNCHANGED <<dir, securelock, trustedzone>>
    PROVE  Inv'
<1>1. TypeInv' /\ BuildInv' /\ NameInv'
    BY DEF Inv, TypeInv, BuildInv, NameInv, AtStep, BuildSteps, MiddleSteps,
           LastSteps
<1>2. DirInv'
    BY DEF Inv, DirInv, AtStep, Same
<1> QED
    BY <1>1, <1>2 DEF Inv

LEMMA BumpVersion ==
    ASSUME Inv, bumpVersion PROVE Inv'
<1>1. /\ env \in EnvSet /\ env' = [env EXCEPT !.version = env.version + 1]
      /\ env.version < MaxVersion /\ pc = "idle" /\ pc' = "check"
      /\ UNCHANGED <<backend, store, securelock, trustedzone, dir, touched, names>>
    BY DEF bumpVersion, Inv, TypeInv, docker, history
<1>2. env.version \in Nat /\ env.version + 1 \in 0 .. MaxVersion
    BY <1>1, ProjectAssumption DEF EnvSet, ProjectAssumption
<1>3. /\ env' \in EnvSet /\ env'.version = env.version + 1
      /\ env'.session = env.session /\ env'.service = env.service
      /\ env'.network = env.network /\ env'.template = env.template
      /\ env'.memory = env.memory /\ env'.esr = env.esr
      /\ env'.flags = env.flags
    BY <1>1, <1>2 DEF EnvSet
<1>4. TypeInv' /\ BuildInv'
    BY <1>1, <1>3 DEF Inv, TypeInv, BuildInv, AtStep, BuildSteps, MiddleSteps,
                      LastSteps
<1>5. DirInv'
    BY <1>1, <1>3 DEF Inv, DirInv, AtStep, Same
<1>6. NameInv'
  <2>1. \A x \in names : x[3] \in Nat
      BY DEF Inv, NameInv, SessionNames
  <2> QED
      BY <1>1, <1>2, <1>3, <2>1 DEF Inv, NameInv
<1> QED
    BY <1>4, <1>5, <1>6 DEF Inv

\* The steps that check, and touch nothing.
LEMMA Checking ==
    ASSUME Inv, \/ CheckNetwork \/ CheckBackend \/ PullTrustedZone \/ CheckEsr
    PROVE  Inv'
<1>1. /\ UNCHANGED <<env, backend, securelock, trustedzone, store, dir>>
      /\ UNCHANGED <<touched, names>>
      /\ pc \in BuildSteps
    BY DEF CheckNetwork, CheckBackend, PullTrustedZone, CheckEsr, Building,
           Refuses, files, docker, history, BuildSteps
<1>2. env.service \in Services
    BY <1>1 DEF BuildSteps, Inv, TypeInv, EnvSet
<1>3. CASE pc' = "idle"
    BY <1>1, <1>3, Stopping DEF Inv, TypeInv
<1>4. CASE CheckNetwork /\ Passes
  <2>1. pc = "check" /\ GoesOn("check", "clean", "backend")
      BY <1>1, <1>2, <1>4, PassesTo DEF CheckNetwork, Building
  <2> QED
      BY <1>1, <1>2, <2>1
      DEF GoesOn, Services, Inv, TypeInv, BuildInv, DirInv, NameInv, AtStep,
          Same, BuildSteps, MiddleSteps, LastSteps
<1>5. CASE CheckBackend /\ Passes /\ pc' # "idle"
  <2>1. pc = "backend" /\ GoesOn("backend", "container", "clean")
      BY <1>1, <1>2, <1>5, PassesTo DEF CheckBackend, Building
  <2>2. backend # None
      BY <1>5 DEF CheckBackend, Refuses
  <2>3. DirInv' /\ NameInv' /\ TypeInv'
      BY <1>1, <1>2, <2>1
      DEF GoesOn, Services, Inv, TypeInv, DirInv, NameInv, AtStep,
          Same, BuildSteps
  <2>4. BuildInv'
      BY <1>1, <1>2, <2>1, <2>2
      DEF GoesOn, Services, BuildInv, AtStep, MiddleSteps, LastSteps
  <2> QED
      BY <2>3, <2>4 DEF Inv
<1>6. CASE PullTrustedZone /\ Passes /\ pc' # "idle"
  <2>1. pc = "pull" /\ GoesOn("pull", "esr", "trustedzone")
      BY <1>1, <1>2, <1>6, PassesTo DEF PullTrustedZone, Building
  <2>2. env.template = imageByNetwork[env.network]
      BY <1>6 DEF PullTrustedZone, Published, Refuses
  <2> QED
      BY <1>1, <1>2, <2>1, <2>2
      DEF GoesOn, Services, Inv, TypeInv, BuildInv, DirInv, NameInv, AtStep,
          Same, BuildSteps, MiddleSteps, LastSteps
<1>7. CASE CheckEsr /\ Passes /\ pc' # "idle"
  <2>1. pc = "esr" /\ GoesOn("esr", "securelock", "securelock")
      BY <1>1, <1>2, <1>7, PassesTo DEF CheckEsr, Building
  <2>2. env.esr # "bad"
      BY <1>7 DEF CheckEsr, Refuses
  <2> QED
      BY <1>1, <1>2, <2>1, <2>2
      DEF GoesOn, Services, Inv, TypeInv, BuildInv, DirInv, NameInv, AtStep,
          Same, BuildSteps, MiddleSteps, LastSteps
<1> QED
    BY <1>3, <1>4, <1>5, <1>6, <1>7
    DEF CheckNetwork, CheckBackend, PullTrustedZone, CheckEsr, Refuses

LEMMA Cleaning ==
    ASSUME Inv, Clean PROVE Inv'
<1>1. /\ pc = "clean" /\ dir' = None
      /\ UNCHANGED <<env, backend, touched, names>>
    BY DEF Clean, Building, history
<1>2. store' \in StoreT
  <2>1. EmptyStore \in StoreT
      BY DEF EmptyStore, StoreT
  <2> QED
      BY <2>1 DEF Clean, docker, Inv, TypeInv
<1>3. CASE pc' = "idle"
    BY <1>1, <1>2, <1>3, Stopping
<1>4. CASE Passes
  <2>1. env.service \in Services
      BY <1>1 DEF Inv, TypeInv, EnvSet
  <2>2. GoesOn("clean", "backend", "container")
      BY <1>1, <1>4, <2>1, PassesTo DEF BuildSteps
  <2> QED
      BY <1>1, <1>2, <2>1, <2>2
      DEF GoesOn, Services, Inv, TypeInv, BuildInv, DirInv, NameInv, AtStep,
          BuildSteps, MiddleSteps, LastSteps
<1> QED
    BY <1>3, <1>4 DEF Clean

\* Past the cleaning there is no registry/.
LEMMA NoDir ==
    ASSUME Inv, pc \in {"container"} \cup MiddleSteps \cup LastSteps
    PROVE  dir = None /\ env \in EnvSet /\ env.service \in Services
<1> QED
    BY DEF Inv, TypeInv, DirInv, AtStep, MiddleSteps, LastSteps, EnvSet

LEMMA RunningContainer ==
    ASSUME Inv, RunContainer PROVE Inv'
<1>1. /\ pc = "container" /\ UNCHANGED <<backend, store, securelock>>
      /\ UNCHANGED <<trustedzone, dir, touched, names>>
      /\ dir = None /\ env \in EnvSet /\ env.service \in Services
    BY NoDir DEF RunContainer, Building, docker, history
<1>2. PICK heap \in IF env.service = "Pynithy" THEN Heaps ELSE {env.memory} :
         \/ env' = [env EXCEPT !.memory = heap] /\ pc' = "idle"
         \/ /\ env' = [env EXCEPT !.memory = heap, !.session = sessionName]
            /\ Passes
    BY DEF RunContainer
<1>3. heap \in Heaps \cup {None} /\ (env.service = "Pynithy" => heap \in Heaps)
    BY <1>1, <1>2 DEF EnvSet
<1>4. sessionName \in SessionNames /\ sessionName[3] = env.version
  <2>1. env.version \in 1 .. MaxVersion
      BY <1>1, ProjectAssumption
      DEF Inv, NameInv, BuildSteps, EnvSet, ProjectAssumption
  <2>2. env.network \in Networks /\ env.project \in Projects
      BY <1>1 DEF EnvSet
  <2>3. sessionTag(env.network) \in {sessionTag(n) : n \in Networks}
      BY <2>2
  <2> DEFINE tag == sessionTag(env.network)
             tags == {sessionTag(n) : n \in Networks}
  <2> HIDE DEF tag, tags
  <2>4. <<env.project, tag, env.version>>
           \in Projects \X tags \X (1 .. MaxVersion)
      BY <2>1, <2>2, <2>3 DEF tag, tags
  <2> QED
      BY <2>4 DEF sessionName, SessionNames, tag, tags
<1>5. /\ env' \in EnvSet /\ env'.memory = heap /\ env'.version = env.version
      /\ env'.service = env.service /\ env'.network = env.network
      /\ env'.esr = env.esr /\ env'.template = env.template
      /\ pc' # "idle" => env'.session = sessionName
    BY <1>1, <1>2, <1>3, <1>4 DEF EnvSet
<1>6. pc' = "idle" \/ GoesOn("container", "pull", "esr")
    BY <1>1, <1>2, PassesTo DEF BuildSteps
<1>7. TypeInv' /\ NameInv' /\ DirInv'
    BY <1>1, <1>5, <1>6
    DEF Inv, TypeInv, NameInv, DirInv, GoesOn, BuildSteps
<1>8. BuildInv'
    BY <1>1, <1>3, <1>4, <1>5, <1>6
    DEF Inv, BuildInv, AtStep, GoesOn, Services, MiddleSteps, LastSteps
<1> QED
    BY <1>7, <1>8 DEF Inv

LEMMA BuildingSecurelock ==
    ASSUME Inv, BuildSecurelock PROVE Inv'
<1>1. /\ pc = "securelock" /\ UNCHANGED <<backend, dir, touched, names>>
      /\ dir = None /\ env \in EnvSet /\ env.service \in Services
    BY NoDir DEF BuildSecurelock, Building, history, MiddleSteps
<1>2. /\ backend # None /\ backend \in Backends
      /\ env.session \in SessionNames /\ env.esr \in {"on", "off"}
      /\ env.service = "Pynithy" => env.memory \in Heaps
    BY <1>1 DEF Inv, TypeInv, BuildInv, AtStep, MiddleSteps, EnvSet
<1> DEFINE node == env.service = "Nodenithy"
<1>3. PICK heap \in IF env.service = "Pynithy" THEN {env.memory} ELSE Heaps,
           override \in {"", "0", "1"} :
         LET jitless == node /\ securelockNodeFlags(heap, override)
             image == Image(heap, jitless)
         IN  /\ env' = [env EXCEPT !.memory = heap,
                                   !.flags = IF node THEN jitless ELSE @]
             /\ \/ UNCHANGED docker /\ pc' = "idle"
                \/ /\ securelock' = image
                   /\ UNCHANGED <<trustedzone, store>> /\ pc' = "idle"
                \/ /\ securelock' = image
                   /\ store' = [store EXCEPT !.securelock = image]
                   /\ UNCHANGED trustedzone /\ Passes
    BY DEF BuildSecurelock
<1> DEFINE jitless == node /\ securelockNodeFlags(heap, override)
           image == Image(heap, jitless)
<1>4. heap \in Heaps /\ jitless \in BOOLEAN
    BY <1>2, <1>3
<1> HIDE DEF jitless
<1>5. /\ env' \in EnvSet /\ env'.memory = heap /\ env'.version = env.version
      /\ env'.service = env.service /\ env'.network = env.network
      /\ env'.esr = env.esr /\ env'.template = env.template
      /\ env'.session = env.session
      /\ node => env'.flags = jitless
    BY <1>1, <1>3, <1>4 DEF EnvSet, jitless
<1>6. image \in ImageSet
    BY <1>1, <1>2, <1>4
    DEF Image, ImageSet, EnvSet, SessionNames, cas, casProvisioned
<1>7. IsBuilt(image)
    BY <1>6 DEF IsBuilt, Image, cas
<1>8. /\ image.session = env.session /\ image.service = env.service
      /\ image.network = env.network /\ image.template = env.template
      /\ image.heap = heap /\ image.esr = env.esr /\ image.flags = jitless
    BY DEF Image
<1>9. CASE pc' = "idle"
  <2>1. store' \in StoreT
      BY <1>3, <1>6 DEF Inv, TypeInv, StoreT, docker, jitless
  <2> QED
      BY <1>1, <1>5, <1>9, <2>1
      DEF Inv, TypeInv, BuildInv, DirInv, NameInv, AtStep, BuildSteps,
          MiddleSteps, LastSteps
<1>10. CASE pc' # "idle"
  <2>1. /\ securelock' = image /\ store' = [store EXCEPT !.securelock = image]
        /\ Passes
      BY <1>3, <1>10 DEF jitless
  <2>2. GoesOn("securelock", "trustedzone", "pull")
      BY <1>1, <2>1, PassesTo DEF BuildSteps
  <2> HIDE DEF image
  <2>3. store' \in StoreT /\ store'.securelock = image
      BY <1>6, <2>1 DEF Inv, TypeInv, StoreT
  <2>4. IsBuilt(securelock') /\ Same(securelock)'
      BY <1>5, <1>7, <1>8, <2>1 DEF IsBuilt, Same
  <2>5. TypeInv' /\ NameInv' /\ DirInv'
      BY <1>1, <1>5, <2>2, <2>3
      DEF Inv, TypeInv, NameInv, DirInv, GoesOn, BuildSteps
  <2>6. BuildInv'
      BY <1>1, <1>2, <1>4, <1>5, <2>1, <2>2, <2>3, <2>4
      DEF Inv, BuildInv, AtStep, GoesOn, Services, MiddleSteps, LastSteps,
          IsBuilt
  <2> QED
      BY <2>5, <2>6 DEF Inv
<1> QED
    BY <1>9, <1>10

LEMMA TaggingTrustedZone ==
    ASSUME Inv, TagTrustedZone PROVE Inv'
<1>1. /\ pc = "trustedzone" /\ UNCHANGED <<env, backend, securelock, dir>>
      /\ UNCHANGED <<touched, names>> /\ trustedzone' = env.network
      /\ dir = None /\ env \in EnvSet /\ env.service \in Services
    BY NoDir DEF TagTrustedZone, Building, history, LastSteps
<1>2. /\ store' \in StoreT /\ store'.securelock = store.securelock
      /\ pc' # "idle" => store'.trustedzone = env.network
    BY <1>1 DEF TagTrustedZone, StoreT, EnvSet, Inv, TypeInv
<1>3. CASE pc' = "idle"
    BY <1>1, <1>2, <1>3, Stopping
<1>4. CASE pc' # "idle"
  <2>1. GoesOn("trustedzone", "las", "las")
      BY <1>1, <1>4, PassesTo DEF TagTrustedZone, BuildSteps
  <2> QED
      BY <1>1, <1>2, <2>1
      DEF GoesOn, Inv, TypeInv, BuildInv, DirInv, NameInv, AtStep, Same,
          BuildSteps, MiddleSteps, LastSteps
<1> QED
    BY <1>3, <1>4

LEMMA PushingLas ==
    ASSUME Inv, PushLas PROVE Inv'
<1>1. /\ pc = "las" /\ UNCHANGED <<env, backend, securelock, trustedzone, dir>>
      /\ UNCHANGED <<touched, names>> /\ Passes
      /\ store' = [store EXCEPT !.las = ~unsafe]
      /\ dir = None /\ env \in EnvSet /\ env.service \in Services
    BY NoDir DEF PushLas, Building, history, LastSteps
<1>2. /\ store' \in StoreT /\ store'.securelock = store.securelock
      /\ store'.trustedzone = store.trustedzone
      /\ store'.las = ~isUnsafeNetwork(env.network)
  <2>1. (~unsafe) \in BOOLEAN
      BY DEF unsafe, isUnsafeNetwork
  <2>2. store \in StoreT
      BY DEF Inv, TypeInv
  <2> DEFINE las == ~unsafe
  <2>3. store' = [store EXCEPT !.las = las] /\ las \in BOOLEAN
      BY <1>1, <2>1
  <2> HIDE DEF las
  <2>4. /\ store' \in StoreT /\ store'.securelock = store.securelock
        /\ store'.trustedzone = store.trustedzone /\ store'.las = las
      BY <2>2, <2>3 DEF StoreT
  <2> QED
      BY <2>4 DEF unsafe, las
<1>3. GoesOn("las", "copy", "copy")
    BY <1>1, PassesTo DEF BuildSteps
<1> QED
    BY <1>1, <1>2, <1>3
    DEF GoesOn, Inv, TypeInv, BuildInv, DirInv, NameInv, AtStep, Same,
        BuildSteps, MiddleSteps, LastSteps

\* The session name of the store that is copied is of this VERSION, and the
\* names before are of earlier ones.
LEMMA CopyIsNamed ==
    ASSUME Inv, CopyStore
    PROVE  /\ store.securelock.session \in SessionNames
           /\ store.securelock.session[3] = env.version
           /\ \A x \in names : x[3] < env.version
<1>1. pc = "copy"
    BY DEF CopyStore, Building
<1> QED
    BY <1>1 DEF Inv, BuildInv, NameInv, AtStep, LastSteps, BuildSteps, Same

LEMMA CopyingStore ==
    ASSUME Inv, CopyStore PROVE Inv'
<1>1. /\ pc = "copy" /\ UNCHANGED <<env, backend, securelock, trustedzone>>
      /\ UNCHANGED store
      /\ env \in EnvSet /\ env.service \in Services
      /\ \/ /\ dir' = store /\ Passes
            /\ names' = names \cup {store.securelock.session}
         \/ /\ dir' \in PartsOf(store) /\ touched' /\ pc' = "idle"
            /\ UNCHANGED names
    BY NoDir DEF CopyStore, Building, docker, LastSteps
<1>2. pc' = "idle"
    BY <1>1, PassesTo DEF BuildSteps, GoesOn
<1>3. /\ store.securelock = securelock /\ IsBuilt(securelock)
      /\ Same(securelock)
      /\ env.template = imageByNetwork[env.network]
      /\ trustedzone = env.network /\ store.trustedzone = env.network
      /\ store.las = ~isUnsafeNetwork(env.network)
    BY <1>1 DEF Inv, BuildInv, AtStep, LastSteps
<1>4. TypeInv' /\ BuildInv'
    BY <1>1, <1>2 DEF Inv, TypeInv, BuildInv, AtStep, MiddleSteps, LastSteps
<1>5. /\ dir'.securelock \in {securelock, None}
      /\ dir'.trustedzone \in {trustedzone, None}
      /\ dir'.las => ~isUnsafeNetwork(env.network)
      /\ ~touched' => dir'.las = ~isUnsafeNetwork(env.network)
  <2>1. CASE dir' = store
      BY <1>3, <2>1
  <2>2. CASE dir' \in PartsOf(store) /\ touched'
    <3>1. PICK i \in {None, store.securelock}, z \in {None, store.trustedzone},
               l \in {FALSE, store.las} :
             dir' = [securelock |-> i, trustedzone |-> z, las |-> l]
        BY <2>2 DEF PartsOf
    <3>2. dir'.securelock = i /\ dir'.trustedzone = z /\ dir'.las = l
        BY <3>1
    <3> QED
        BY <1>3, <2>2, <3>2
  <2> QED
      BY <1>1, <2>1, <2>2
<1>6. DirInv'
    BY <1>1, <1>2, <1>3, <1>5 DEF DirInv, AtStep, Same
<1>7. NameInv'
  <2>1. env.version \in Nat
      BY <1>1, ProjectAssumption DEF EnvSet, ProjectAssumption
  <2>2. \A x \in names' : x \in SessionNames /\ x[3] <= env.version
      BY <1>1, <2>1, CopyIsNamed DEF Inv, NameInv
  <2> QED
      BY <1>1, <1>2, <2>2 DEF NameInv, BuildSteps
<1> QED
    BY <1>4, <1>6, <1>7 DEF Inv

-----------------------------------------------------------------------------
(***************************************************************************)
(* The commands that are not a build, and the developer.                   *)
(***************************************************************************)

\* What they leave of .env while there is a registry/: its session name, or
\* one of the developer's, and with no edit all of the settings a build seals.
Settings(new) ==
    /\ new \in EnvSet /\ pc = "idle" /\ UNCHANGED <<docker, dir>>
    /\ env # None =>
          /\ new.session \in {env.session, Renamed}
          /\ ~touched' =>
                /\ ~touched /\ new.session = env.session
                /\ new.service = env.service /\ new.network = env.network
                /\ new.template = env.template /\ new.memory = env.memory
                /\ new.esr = env.esr /\ new.flags = env.flags

LEMMA SettingsKeep ==
    ASSUME Inv, Settings(env'), pc' \in {"idle", "measure"},
           backend' \in Backends \cup {None},
           \/ names' = {}
           \/ names' = names /\ env # None /\ env'.version = env.version
    PROVE  Inv'
<1>1. env # None => env \in EnvSet
    BY DEF Inv, TypeInv
<1>2. TypeInv' /\ BuildInv'
    BY DEF Settings, docker, Inv, TypeInv, BuildInv, AtStep, MiddleSteps,
           LastSteps
<1>3. DirInv'
  <2>1. CASE dir = None
      BY <2>1 DEF Settings, DirInv
  <2>2. CASE dir # None
      BY <2>2, RecordAssumption
      DEF RecordAssumption, Settings, docker, Inv, DirInv, AtStep, Same
  <2> QED
      BY <2>1, <2>2
<1>4. NameInv'
    BY <1>1 DEF Settings, Inv, NameInv, BuildSteps
<1> QED
    BY <1>2, <1>3, <1>4 DEF Inv

LEMMA Commands ==
    ASSUME Inv, EcldInit \/ EcldPublish \/ Edit \/ Measure PROVE Inv'
<1>1. env = None \/ env \in EnvSet
    BY DEF Inv, TypeInv
<1>2. HelloWorld \in Backends
    BY DEF Backends
<1>3. CASE EcldInit
  <2> DEFINE old == IF env = None THEN NoEnv ELSE env
  <2>1. PICK project \in Projects, network \in Networks,
             service \in Services, answer \in configureEsr(old.esr) :
           env' = [old EXCEPT !.project = project, !.service = service,
                              !.network = network,
                              !.template = imageByNetwork[network],
                              !.esr = answer.esr,
                              !.version = IF answer.ends THEN @ ELSE 1]
      BY <1>3 DEF EcldInit
  <2>2. /\ pc = "idle" /\ pc' = "idle" /\ names' = {} /\ touched'
        /\ UNCHANGED <<docker, dir>> /\ backend' \in {backend, HelloWorld}
      BY <1>3 DEF EcldInit
  <2>3. old = NoEnv \/ old \in EnvSet
      BY <1>1
  <2>4. /\ 0 \in 0 .. MaxVersion /\ 1 \in 0 .. MaxVersion
        /\ imageByNetwork[network] \in {imageByNetwork[n] : n \in Networks}
      BY ProjectAssumption
  <2>5. env' \in EnvSet /\ env'.session = old.session
    <3>1. env # None => old = env
        OBVIOUS
    <3> HIDE DEF old
    <3>2. CASE old = NoEnv
      <4>1. answer.esr \in {"on", "off", "bad"}
          BY <3>2 DEF configureEsr, NoEnv
      <4>2. env' = [project |-> project, service |-> service, network |-> network,
                    template |-> imageByNetwork[network],
                    version |-> IF answer.ends THEN 0 ELSE 1,
                    esr |-> answer.esr, memory |-> None, flags |-> FALSE,
                    session |-> None, key |-> "none", fee |-> FALSE]
          BY <2>1, <3>2 DEF NoEnv
      <4> QED
          BY <2>4, <3>2, <4>1, <4>2 DEF EnvSet, NoEnv, Keys
    <3>3. CASE old \in EnvSet
      <4>1. answer.esr \in {"on", "off", "bad"}
          BY <3>3 DEF configureEsr, EnvSet
      <4> QED
          BY <2>1, <2>4, <3>3, <4>1 DEF EnvSet
    <3> QED
        BY <2>3, <3>2, <3>3
  <2>6. Settings(env')
      BY <2>2, <2>3, <2>5 DEF Settings
  <2> QED
      BY <1>2, <2>2, <2>6, SettingsKeep DEF Inv, TypeInv
<1>4. CASE EcldPublish
  <2>1. /\ pc = "idle" /\ env # None /\ env \in EnvSet
        /\ pc' \in {"idle", "measure"}
        /\ UNCHANGED <<backend, docker, dir, touched, names>>
        /\ \/ env' = [env EXCEPT !.key = "good"]
           \/ env' = [env EXCEPT !.key = "good", !.fee = TRUE]
      BY <1>1, <1>4 DEF EcldPublish, history
  <2>2. /\ env' \in EnvSet /\ env'.version = env.version
        /\ env'.session = env.session /\ env'.service = env.service
        /\ env'.network = env.network /\ env'.template = env.template
        /\ env'.memory = env.memory /\ env'.esr = env.esr
        /\ env'.flags = env.flags
      BY <2>1 DEF EnvSet, Keys
  <2>3. Settings(env')
      BY <2>1, <2>2 DEF Settings
  <2> QED
      BY <2>1, <2>2, <2>3, SettingsKeep DEF Inv, TypeInv
<1>5. CASE Edit
  <2>1. /\ pc = "idle" /\ pc' = "idle" /\ env # None /\ env \in EnvSet
        /\ touched' /\ UNCHANGED <<docker, dir>>
        /\ EditSettings \/ EditVersion \/ EditBackend
      BY <1>1, <1>5 DEF Edit
  <2>2. /\ env' \in EnvSet /\ env'.session \in {env.session, Renamed}
        /\ backend' = backend \/ backend' \in Backends \cup {None}
        /\ \/ names' = {}
           \/ UNCHANGED names /\ env'.version = env.version
    <3>1. CASE EditSettings
        BY <2>1, <3>1 DEF EditSettings, EnvSet, Keys
    <3>2. CASE EditVersion
        BY <2>1, <3>2 DEF EditVersion, EnvSet
    <3>3. CASE EditBackend
        BY <2>1, <3>3 DEF EditBackend
    <3> QED
        BY <2>1, <3>1, <3>2, <3>3
  <2>3. Settings(env')
      BY <2>1, <2>2 DEF Settings
  <2> QED
      BY <2>1, <2>2, <2>3, SettingsKeep DEF Inv, TypeInv
<1>6. CASE Measure
  <2>1. /\ pc = "measure" /\ pc' = "idle"
        /\ UNCHANGED <<env, backend, docker, dir, touched, names>>
      BY <1>6 DEF Measure, files, history
  <2> QED
      BY <2>1, Stopping DEF docker, Inv, TypeInv
<1> QED
    BY <1>3, <1>4, <1>5, <1>6

LEMMA InvStays ==
    ASSUME Inv, [Next]_vars PROVE Inv'
<1>1. CASE BuildFails
  <2>1. /\ pc' = "idle"
        /\ UNCHANGED <<env, backend, docker, dir, touched, names>>
      BY <1>1 DEF BuildFails, files, history
  <2> QED
      BY <2>1, Stopping DEF docker, Inv, TypeInv
<1>2. CASE UNCHANGED vars
    BY <1>2
    DEF vars, files, docker, outcome, history, Inv, TypeInv, BuildInv, DirInv,
        NameInv, AtStep, Same
<1> QED
    BY <1>1, <1>2, BumpVersion, Checking, Cleaning, RunningContainer,
       BuildingSecurelock, TaggingTrustedZone, PushingLas, CopyingStore,
       Commands
    DEF Next, Build

\* The inductive invariant, which ties registry/, the docker daemon's images
\* and .env together at every step of a build (build.mjs, init.js).
THEOREM InvHolds == Spec => []Inv
<1> QED
    BY Initially, InvStays, PTL DEF Spec

-----------------------------------------------------------------------------
(***************************************************************************)
(* The theorems.                                                           *)
(***************************************************************************)

\* What a publish goes on to register is never of two builds, whatever builds
\* failed or were killed before, the last within its docker cp, and whatever
\* was edited in .env since (build.mjs, publish.js and run.js).
THEOREM HandsOneBuild == Spec => []HandedIsOneBuild
<1>1. Init => HandedIsOneBuild
    BY DEF Init, HandedIsOneBuild
<1>2. Inv /\ HandedIsOneBuild /\ [Next]_vars => HandedIsOneBuild'
  <2> SUFFICES ASSUME Inv, HandedIsOneBuild, [Next]_vars
               PROVE  HandedIsOneBuild'
      OBVIOUS
  <2>1. CASE Measure /\ handed' # handed
    <3>1. /\ GatePasses
          /\ handed' = [tree |-> dir, image |-> securelock,
                        zone |-> trustedzone, session |-> env.session,
                        heap |-> env.memory, cas |-> cas, key |-> key]
        BY <2>1 DEF Measure
    <3>2. cas => env.memory = securelock.heap
        BY <3>1 DEF GatePasses, Measurement
    <3>3. dir # None => /\ dir.securelock \in {securelock, None}
                        /\ dir.trustedzone \in {trustedzone, None}
                        /\ env.session \in {securelock.session, Renamed}
        BY DEF Inv, DirInv
    <3> QED
        BY <3>1, <3>2, <3>3 DEF HandedIsOneBuild
  <2>2. CASE handed' \in {handed, None}
      BY <2>2 DEF HandedIsOneBuild
  <2>3. CASE ~Measure
    <3>1. handed' \in {handed, None}
        BY <2>3
        DEF Next, Build, bumpVersion, CheckNetwork, Clean, CheckBackend,
            RunContainer, PullTrustedZone, CheckEsr, BuildSecurelock,
            TagTrustedZone, PushLas, CopyStore, BuildFails, Building,
            EcldInit, EcldPublish, Edit, Begins, outcome, vars
    <3> QED
        BY <2>2, <3>1
  <2> QED
      BY <2>1, <2>2, <2>3
<1> QED
    BY <1>1, <1>2, InvHolds, PTL DEF Spec

\* What registry/ holds fits the network it was built for, also where its copy
\* broke off (build.mjs).
THEOREM BuildsForItsNetwork == Spec => []BuiltForItsNetwork
<1>1. Inv => BuiltForItsNetwork
  <2> SUFFICES ASSUME Inv, dir # None, dir.securelock # None
               PROVE  BuiltForItsNetwork
      BY DEF BuiltForItsNetwork
  <2>1. /\ dir.securelock = securelock /\ IsBuilt(securelock)
        /\ securelock.template = imageByNetwork[securelock.network]
        /\ dir.trustedzone \in {securelock.network, None}
        /\ dir.las => ~isUnsafeNetwork(securelock.network)
      BY DEF Inv, DirInv
  <2>2. securelock.esr # "bad"
      BY <2>1 DEF IsBuilt, ImageSet
  <2> QED
      BY <2>1, <2>2 DEF BuiltForItsNetwork, IsBuilt
<1> QED
    BY <1>1, InvHolds, PTL

\* What publish derives from .env is what the build sealed when nothing was
\* edited in between, and the gate lets the build through (build.mjs, run.js).
THEOREM UneditedPublishes == Spec => []UneditedBuildPublishes
<1>1. Inv => UneditedBuildPublishes
  <2> SUFFICES ASSUME Inv, pc = "measure", dir # None, ~touched
               PROVE  /\ Measurable /\ GatePasses
                      /\ cas = securelock.production
                      /\ sessionAttestation(env.network) = "production" =>
                            securelock.production
                      /\ dir.las = ("las" \in renderCompose(cas, unsafe))
                      /\ esrSessionEnvironment(env.esr) = "on"
                            <=> securelock.esr = "on"
                      /\ env.memory = securelock.heap
                      /\ env.service = "Nodenithy" =>
                            env.flags = securelock.flags
      BY DEF UneditedBuildPublishes
  <2>1. /\ IsBuilt(securelock) /\ Same(securelock)
        /\ trustedzone = securelock.network
        /\ dir.las = ~isUnsafeNetwork(securelock.network)
      BY DEF Inv, DirInv
  <2>2. /\ securelock \in ImageSet
        /\ securelock.heap \in Heaps /\ securelock.network \in Networks
      BY <2>1 DEF IsBuilt, ImageSet
  <2>3. Measurable
      BY <2>1, <2>2, ProjectAssumption, RecordAssumption
      DEF Measurable, Same, ProjectAssumption, RecordAssumption
  <2>4. GatePasses
      BY <2>1 DEF GatePasses, Same
  <2>5. cas = securelock.production
      BY <2>1 DEF cas, IsBuilt, Same
  <2>6. sessionAttestation(env.network) = "production" => cas
    <3>1. env.network \in blockchainNetworkOptions
        BY <2>1, <2>2, ProjectAssumption DEF Same, ProjectAssumption
    <3> QED
        BY <3>1
        DEF sessionAttestation, blockchainNetworkOptions, cas, casProvisioned
  <2>7. dir.las = ("las" \in renderCompose(cas, unsafe))
    <3>1. "las" \in renderCompose(cas, unsafe) <=> ~unsafe
        BY DEF renderCompose
    <3> QED
        BY <2>1, <3>1 DEF unsafe, Same
  <2> QED
      BY <2>1, <2>3, <2>4, <2>5, <2>6, <2>7 DEF Same, esrSessionEnvironment
<1> QED
    BY <1>1, InvHolds, PTL

\* The session name of a completed build is new, until ecld-init or the
\* developer sets VERSION (build.js, build.mjs).
THEOREM NamesAreNeverReused == Spec => NamesAreNew
<1>1. Inv /\ [Next]_vars =>
         [dir' \notin {dir, None} /\ dir'.securelock # None =>
             dir'.securelock.session \notin names]_vars
  <2> SUFFICES ASSUME Inv, [Next]_vars, dir' \notin {dir, None},
                      dir'.securelock # None
               PROVE  dir'.securelock.session \notin names
      OBVIOUS
  <2>1. CopyStore
      BY DEF Next, Build, bumpVersion, CheckNetwork, Clean, CheckBackend,
             RunContainer, PullTrustedZone, CheckEsr, BuildSecurelock,
             TagTrustedZone, PushLas, CopyStore, BuildFails, Building,
             Refuses, EcldInit, EcldPublish, Measure, Edit, vars
  <2>2. dir'.securelock = store.securelock
    <3>1. CASE dir' = store
        BY <3>1
    <3>2. CASE dir' \in PartsOf(store)
      <4>1. PICK i \in {None, store.securelock},
                 z \in {None, store.trustedzone}, l \in {FALSE, store.las} :
               dir' = [securelock |-> i, trustedzone |-> z, las |-> l]
          BY <3>2 DEF PartsOf
      <4> QED
          BY <4>1
    <3> QED
        BY <2>1, <3>1, <3>2 DEF CopyStore
  <2>3. env.version \in Nat
      BY <2>1, ProjectAssumption
      DEF CopyStore, Building, Inv, TypeInv, EnvSet, ProjectAssumption
  <2> QED
      BY <2>1, <2>2, <2>3, CopyIsNamed
<1> QED
    BY <1>1, InvHolds, PTL DEF Spec, NamesAreNew
=============================================================================
