------------------------------ MODULE Project ------------------------------
(***************************************************************************)
(* A project's commands: ecld-init (init.js), ecld-build (build.js and the *)
(* build.mjs of the service) and ecld-publish (publish.js and run.js up to *)
(* the enclave's measurement, where PublishFlow begins), with the .env     *)
(* file they share, the project's sources, the docker daemon's images and  *)
(* registry container, and the directory registry/ a publish uploads.      *)
(*                                                                         *)
(* Every step of a command may fail, or the command be killed there.  The  *)
(* developer edits .env and the sources between two commands.              *)
(***************************************************************************)
EXTENDS CasConfig, Sequences

CONSTANTS Projects,   \* the values of PROJECT_NAME
          Networks,   \* the networks the developer chooses from
          Heaps,      \* the values of MEMORY_TO_ALLOCATE, in megabytes
          MaxVersion, \* bound: VERSION
          MaxChanges, \* bound: edits, and runs of ecld-init after the first
          None

ASSUME ProjectAssumption ==
    /\ Networks \subseteq blockchainNetworkOptions
    /\ Heaps \subseteq Nat /\ Heaps # {}
    /\ MaxVersion \in Nat \ {0} /\ MaxChanges \in Nat
    /\ None \notin Projects /\ None \notin Networks /\ None \notin Heaps

VARIABLES
    env,         \* .env; None before the first ecld-init
    backend,     \* src/serverless/backend.js or .py; None: there is none
    pc,          \* the step the running command is at
    key,         \* PRIVATE_KEY in the environment of the running publish
    securelock,  \* the image etny-securelock of the docker daemon
    trustedzone, \* the image etny-trustedzone, as the network it is for
    store,       \* what was pushed to the registry container
    dir,         \* registry/: a copy of the store, or the part that was copied
    handed,      \* what the publish that ran last went on to register; None
                 \* once another command runs or .env is edited
    names,       \* history: session names of builds since VERSION was last set
    touched,     \* history: since the last build that completed there was an
                 \* edit, an ecld-init or a build that broke off in its copy
    changes

files == <<env, backend>>
docker == <<securelock, trustedzone, store>>
outcome == <<handed, key>>
history == <<names, touched>>
vars == <<files, pc, outcome, docker, dir, history, changes>>

EmptyStore == [securelock |-> None, trustedzone |-> None, las |-> FALSE]

Init ==
    /\ env = None /\ backend = None
    /\ pc = "idle" /\ key = "none"
    /\ securelock = None /\ trustedzone = None
    /\ store = EmptyStore /\ dir = None /\ handed = None
    /\ names = {} /\ touched = TRUE
    /\ changes = 0

\* Another command, or an edit, begins.
Begins == handed' = None /\ key' = "none"

unsafe == isUnsafeNetwork(env.network)
cas == casProvisioned(env.template, env.network)

-----------------------------------------------------------------------------
\* Of a backend: whether it loads, and whether payloadLint.mjs, where it runs,
\* finds an error in it: eval or Function called on the task's input by name,
\* in a source that parses as a module and does not opt out.
HelloWorld == [loads |-> TRUE, flagged |-> FALSE]

Backends ==
    {HelloWorld, [HelloWorld EXCEPT !.loads = FALSE],
                 [HelloWorld EXCEPT !.flagged = TRUE]}

-----------------------------------------------------------------------------
(***************************************************************************)
(* ecld-init.  Until the availability check has passed nothing is written. *)
(***************************************************************************)

NoEnv == [project |-> None, service |-> None, network |-> None,
          template |-> None, version |-> 0, esr |-> "off", memory |-> None,
          flags |-> FALSE, session |-> None, key |-> "none", fee |-> FALSE]

\* configureEsr: "no" leaves a configured registry alone unless
\* ECLD_ESR_ENABLE says it; an address that is none ends the command.
configureEsr(esr) ==
    {[esr |-> esr, ends |-> FALSE], [esr |-> "off", ends |-> FALSE],
     [esr |-> "on", ends |-> FALSE], [esr |-> esr, ends |-> TRUE]}

\* main: the template over the sources, the settings, then VERSION "v1".
EcldInit ==
    /\ pc = "idle"
    /\ IF env = None THEN UNCHANGED changes
       ELSE changes < MaxChanges /\ changes' = changes + 1
    /\ names' = {} /\ touched' = TRUE
    /\ LET old == IF env = None THEN NoEnv ELSE env
       IN  \E project \in Projects, network \in Networks,
              service \in Services, answer \in configureEsr(old.esr) :
            env' = [old EXCEPT !.project = project, !.service = service,
                               !.network = network,
                               !.template = imageByNetwork[network],
                               !.esr = answer.esr,
                               !.version = IF answer.ends THEN @ ELSE 1]
    /\ backend' \in {backend, HelloWorld}
    /\ Begins
    /\ UNCHANGED <<pc, docker, dir>>

-----------------------------------------------------------------------------
(***************************************************************************)
(* ecld-build.                                                             *)
(***************************************************************************)

\* The order of each build.mjs.
Steps ==
    [service \in Services |->
        IF service = "Nodenithy"
        THEN <<"check", "clean", "backend", "container", "pull", "esr",
               "securelock", "trustedzone", "las", "copy">>
        ELSE <<"check", "backend", "clean", "container", "esr",
               "securelock", "pull", "trustedzone", "las", "copy">>]

Passes ==
    LET steps == Steps[env.service]
        i == CHOOSE k \in 1 .. Len(steps) : steps[k] = pc
    IN  pc' = IF i = Len(steps) THEN "idle" ELSE steps[i + 1]

Refuses == pc' = "idle" /\ UNCHANGED <<files, docker, dir>>

Building(step) ==
    /\ pc = step
    /\ UNCHANGED <<backend, outcome, changes>>

\* Mutant: the new VERSION is not written.
bumpVersionUnwritten ==
    /\ pc = "idle" /\ env # None /\ env.version < MaxVersion
    /\ pc' = "check"
    /\ Begins
    /\ UNCHANGED <<files, docker, dir, history, changes>>

\* build.js: VERSION is advanced before anything is checked.
bumpVersion ==
    /\ pc = "idle" /\ env # None /\ env.version < MaxVersion
    /\ env' = [env EXCEPT !.version = @ + 1]
    /\ pc' = "check"
    /\ Begins
    /\ UNCHANGED <<backend, docker, dir, history, changes>>

\* An -unsafe network and an -unsafe trustedzone go together.
CheckNetwork ==
    /\ Building("check")
    /\ UNCHANGED <<env, docker, dir, history>>
    /\ IF unsafe = IsUnsafeName(env.template)
       THEN Passes ELSE Refuses

\* Mutant: the copy of the last build stays until the new one is there.
CleanKeepsCopy ==
    /\ Building("clean")
    /\ store' = EmptyStore /\ securelock' = None
    /\ trustedzone' \in {trustedzone, None}
    /\ Passes
    /\ UNCHANGED <<env, dir, history>>

\* registry/, the containers and the images go; docker may fail before the
\* last two.  Its name filter may leave an image that carries a registry's
\* name.
Clean ==
    /\ Building("clean")
    /\ dir' = None
    /\ \/ UNCHANGED docker /\ pc' = "idle"
       \/ /\ store' = EmptyStore
          /\ UNCHANGED <<securelock, trustedzone>> /\ pc' = "idle"
       \/ /\ store' = EmptyStore /\ securelock' = None
          /\ trustedzone' \in {trustedzone, None} /\ Passes
    /\ UNCHANGED <<env, history>>

\* The backend is there, and that of Nodenithy loads.  An error of the lint
\* ends the build; a lint that fails is skipped, as it always is where the
\* package was installed without payloadLint.mjs.
CheckBackend ==
    /\ Building("backend")
    /\ UNCHANGED <<env, docker, dir, history>>
    /\ LET node == env.service = "Nodenithy"
       IN  IF backend # None /\ (node => backend.loads)
           THEN Passes \/ (node /\ backend.flagged /\ Refuses)
           ELSE Refuses

\* A session name: one per project, network word and VERSION.
sessionName == <<env.project, sessionTag(env.network), env.version>>

\* A name the developer wrote into ENCLAVE_NAME_SECURELOCK.
Renamed == <<None, None, 0>>

\* The registry container starts and the session name is written; Pynithy
\* writes the heap first.  ECLD_MEMORY_TO_ALLOCATE may name any heap.
RunContainer ==
    /\ Building("container")
    /\ \E heap \in IF env.service = "Pynithy" THEN Heaps ELSE {env.memory} :
        \/ env' = [env EXCEPT !.memory = heap] /\ pc' = "idle"
        \/ /\ env' = [env EXCEPT !.memory = heap, !.session = sessionName]
           /\ Passes
    /\ UNCHANGED <<docker, dir, history>>

\* Mutant: the trustedzone is pulled by its network alone.
PublishedForNetwork == env.network \in trustedZoneNetByBlockchain[env.service]

\* A trustedzone is published under its template for the template's network.
Published ==
    /\ env.network \in trustedZoneNetByBlockchain[env.service]
    /\ env.template = imageByNetwork[env.network]

PullTrustedZone ==
    /\ Building("pull")
    /\ UNCHANGED <<env, docker, dir, history>>
    /\ IF Published THEN Passes ELSE Refuses

\* An enabled state registry has a valid address.
CheckEsr ==
    /\ Building("esr")
    /\ UNCHANGED <<env, docker, dir, history>>
    /\ IF env.esr # "bad" THEN Passes ELSE Refuses

\* Without the override, a heap that does not fit V8's code range runs
\* without a JIT.
securelockNodeFlags(heap, override) ==
    IF override = "" THEN heap < 1024 ELSE override = "1"

\* What docker build makes of the template, the settings and the sources.
Image(heap, jitless) ==
    [session |-> env.session, service |-> env.service, network |-> env.network,
     template |-> env.template, heap |-> heap, flags |-> jitless,
     production |-> cas, esr |-> env.esr, source |-> backend]

\* Mutant: the heap is signed and not written down.
BuildSecurelockUnwritten ==
    /\ Building("securelock")
    /\ \E heap \in Heaps :
        LET image == Image(heap, heap < 1024)
        IN  securelock' = image /\ store' = [store EXCEPT !.securelock = image]
    /\ Passes
    /\ UNCHANGED <<env, trustedzone, dir, history>>

\* Nodenithy writes the heap and the flags; then the image is built, signed
\* and pushed, or one of the three fails.
BuildSecurelock ==
    /\ Building("securelock")
    /\ \E heap \in IF env.service = "Pynithy" THEN {env.memory} ELSE Heaps,
          override \in {"", "0", "1"} :
        LET node == env.service = "Nodenithy"
            jitless == node /\ securelockNodeFlags(heap, override)
            image == Image(heap, jitless)
        IN  /\ env' = [env EXCEPT !.memory = heap,
                                  !.flags = IF node THEN jitless ELSE @]
            /\ \/ UNCHANGED docker /\ pc' = "idle"
               \/ /\ securelock' = image
                  /\ UNCHANGED <<trustedzone, store>> /\ pc' = "idle"
               \/ /\ securelock' = image
                  /\ store' = [store EXCEPT !.securelock = image]
                  /\ UNCHANGED trustedzone /\ Passes
    /\ UNCHANGED <<dir, history>>

TagTrustedZone ==
    /\ Building("trustedzone")
    /\ trustedzone' = env.network
    /\ \/ UNCHANGED store /\ pc' = "idle"
       \/ store' = [store EXCEPT !.trustedzone = env.network] /\ Passes
    /\ UNCHANGED <<env, securelock, dir, history>>

PushLas ==
    /\ Building("las")
    /\ store' = [store EXCEPT !.las = ~unsafe]
    /\ Passes
    /\ UNCHANGED <<env, securelock, trustedzone, dir, history>>

\* What a copy of the store that broke off may hold: of each image all there
\* is, or not all.
PartsOf(s) ==
    {[securelock |-> i, trustedzone |-> z, las |-> l] :
        i \in {None, s.securelock}, z \in {None, s.trustedzone},
        l \in {FALSE, s.las}} \ {s}

\* docker cp copies file by file; the build fails or is killed in it, or ends.
CopyStore ==
    /\ Building("copy")
    /\ \/ /\ dir' = store
          /\ names' = names \cup {store.securelock.session}
          /\ touched' = FALSE
          /\ Passes
       \/ /\ dir' \in PartsOf(store)
          /\ touched' = TRUE /\ UNCHANGED names
          /\ pc' = "idle"
    /\ UNCHANGED <<env, docker>>

\* Any step of a build fails, or the build is killed.
BuildFails ==
    /\ pc \notin {"idle", "measure"}
    /\ pc' = "idle"
    /\ UNCHANGED <<files, outcome, docker, dir, history, changes>>

-----------------------------------------------------------------------------
(***************************************************************************)
(* ecld-publish.                                                           *)
(***************************************************************************)

\* The settings a publish does not ask for.
Configured == env.key # "none" /\ env.fee

\* publish.js: asks until the key is a key, writes it, and starts run.js,
\* whose environment keeps the PRIVATE_KEY this one was started with.
EcldPublish ==
    /\ pc = "idle" /\ env # None
    /\ handed' = None
    /\ LET runs == /\ pc' = "measure"
                   /\ key' = IF env.key = "none" THEN "good" ELSE env.key
           ends == pc' = "idle" /\ key' = "none"
       IN  \/ /\ Configured
              /\ env' = [env EXCEPT !.key = "good"] /\ runs
           \/ /\ ~Configured
              /\ env' = [env EXCEPT !.key = "good", !.fee = TRUE] /\ runs
           \/ /\ ~Configured \* the name is another's
              /\ env' = [env EXCEPT !.key = "good"] /\ ends
    /\ UNCHANGED <<backend, docker, dir, history, changes>>

\* SCONE computes the measurement from the image and the compose's heap.
Measurement(heap) == <<securelock, heap>>

\* The match-gate: the runtime measurement is the signed one.
GatePasses == cas => Measurement(env.memory) = Measurement(securelock.heap)

\* What run.js reads from docker and .env before it registers anything.
Measurable == trustedzone # None /\ securelock # None /\ env.memory # None

Measure ==
    /\ pc = "measure"
    /\ pc' = "idle"
    /\ IF Measurable /\ GatePasses
       THEN handed' = [tree |-> dir, image |-> securelock,
                       zone |-> trustedzone, session |-> env.session,
                       heap |-> env.memory, cas |-> cas, key |-> key]
       ELSE UNCHANGED handed
    /\ UNCHANGED <<files, key, docker, dir, history, changes>>

-----------------------------------------------------------------------------
(***************************************************************************)
(* The developer, between two commands.                                    *)
(***************************************************************************)

\* A publish that the Scontain CAS refused tells the developer to change the
\* project's name or version there.
EditSettings ==
    /\ UNCHANGED <<backend, names>>
    /\ \/ \E p \in Projects : env' = [env EXCEPT !.project = p]
       \/ \E n \in Networks : env' = [env EXCEPT !.network = n]
       \/ \E h \in Heaps : env' = [env EXCEPT !.memory = h]
       \/ \E e \in {"on", "off", "bad"} : env' = [env EXCEPT !.esr = e]
       \/ env' = [env EXCEPT !.key = "bad"]
       \/ env' = [env EXCEPT !.session = Renamed]

EditVersion ==
    /\ \E v \in 0 .. MaxVersion : env' = [env EXCEPT !.version = v]
    /\ names' = {}
    /\ UNCHANGED backend

EditBackend ==
    /\ backend' \in Backends \cup {None}
    /\ UNCHANGED <<env, names>>

Edit ==
    /\ pc = "idle" /\ env # None /\ changes < MaxChanges
    /\ changes' = changes + 1
    /\ touched' = TRUE
    /\ EditSettings \/ EditVersion \/ EditBackend
    /\ Begins
    /\ UNCHANGED <<pc, docker, dir>>

Build ==
    \/ bumpVersion \/ CheckNetwork \/ Clean \/ CheckBackend \/ RunContainer
    \/ PullTrustedZone \/ CheckEsr \/ BuildSecurelock \/ TagTrustedZone
    \/ PushLas \/ CopyStore \/ BuildFails

Next == EcldInit \/ Build \/ EcldPublish \/ Measure \/ Edit

Spec == Init /\ [][Next]_vars

-----------------------------------------------------------------------------
(***************************************************************************)
(* Properties.                                                             *)
(***************************************************************************)

Keys == {"none", "bad", "good"}

SessionNames ==
    Projects \X {sessionTag(n) : n \in Networks} \X (1 .. MaxVersion)

EnvSet ==
    [project : Projects, service : Services, network : Networks,
     template : {imageByNetwork[n] : n \in Networks},
     version : 0 .. MaxVersion, esr : {"on", "off", "bad"},
     memory : Heaps \cup {None}, flags : BOOLEAN,
     session : {None, Renamed} \cup SessionNames, key : Keys, fee : BOOLEAN]

ImageSet ==
    [session : SessionNames, service : Services, network : Networks,
     template : {imageByNetwork[n] : n \in Networks},
     heap : Heaps, flags : BOOLEAN, production : BOOLEAN,
     esr : {"on", "off"}, source : Backends]

ASSUME RecordAssumption == None \notin EnvSet /\ None \notin ImageSet

\* The image, when there is one, is one a build can make.
IsImage(image) == image # None => image \in ImageSet

\* Types.
TypeOK ==
    /\ env = None \/ env \in EnvSet
    /\ backend \in Backends \cup {None}
    /\ pc \in {"idle", "measure", "check", "clean", "backend", "container",
               "pull", "esr", "securelock", "trustedzone", "las", "copy"}
    /\ IsImage(securelock) /\ IsImage(store.securelock)
    /\ trustedzone \in Networks \cup {None}
    /\ dir # None => IsImage(dir.securelock)
    /\ key \in Keys /\ touched \in BOOLEAN
    /\ changes \in 0 .. MaxChanges

\* What a publish goes on to register is never of two builds, whatever builds
\* failed or were killed before, the last within its copy: the images in the
\* tree it uploads are the ones it measured, they carry the session name it
\* registers unless the developer wrote another, and under a CAS the compose
\* runs the enclave with the heap it was signed with.
HandedIsOneBuild ==
    handed # None =>
        /\ handed.tree # None =>
              /\ handed.tree.securelock \in {handed.image, None}
              /\ handed.tree.trustedzone \in {handed.zone, None}
              /\ handed.session \in {handed.image.session, Renamed}
        /\ handed.cas => handed.heap = handed.image.heap

\* What does not hold: the tree a publish uploads is all of a build.  Nothing
\* looks whether the copy was completed.
HandedIsWhole ==
    handed # None /\ handed.tree # None =>
        handed.tree.securelock # None /\ handed.tree.trustedzone # None

\* A registry/ is of one network throughout, also where its copy broke off: its
\* trustedzone and LAS are the network's, its securelock has the network's
\* template and is signed for production just where a CAS provisions it, and no
\* state registry is sealed without an address.
BuiltForItsNetwork ==
    dir # None /\ dir.securelock # None =>
        LET i == dir.securelock
        IN  /\ dir.trustedzone \in {i.network, None}
            /\ i.template = imageByNetwork[i.network]
            /\ i.production = casProvisioned(i.template, i.network)
            /\ dir.las => ~isUnsafeNetwork(i.network)
            /\ i.esr # "bad"

\* What publish derives from .env is what the build derived and sealed, when
\* nothing was edited in between; so the gate lets the build through.
UneditedBuildPublishes ==
    pc = "measure" /\ dir # None /\ ~touched =>
        /\ Measurable /\ GatePasses
        /\ cas = securelock.production
        /\ sessionAttestation(env.network) = "production" =>
              securelock.production
        /\ dir.las = ("las" \in renderCompose(cas, unsafe))
        /\ esrSessionEnvironment(env.esr) = "on" <=> securelock.esr = "on"
        /\ env.memory = securelock.heap
        /\ env.service = "Nodenithy" => env.flags = securelock.flags

\* The session name of a build is new, whatever the project was called before,
\* until ecld-init or the developer sets VERSION.
NamesAreNew ==
    [][dir' \notin {dir, None} /\ dir'.securelock # None =>
          dir'.securelock.session \notin names]_vars
=============================================================================
