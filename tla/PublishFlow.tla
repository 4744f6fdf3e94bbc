---------------------------- MODULE PublishFlow ----------------------------
(***************************************************************************)
(* The publish of a project, nodenithy/run.js (pynithy/run.js has the same *)
(* steps), with the registries, the local Kubo and the CAS resolver it     *)
(* uses.  A publish may fail at any step, be killed, or lose the receipt   *)
(* of a transaction that took effect; its user then publishes again.       *)
(*                                                                         *)
(* One project, one image name.  Build b gives one tree (registry/), one   *)
(* session name and one enclave, whose certificate is b.  The CID of a     *)
(* tree is <<b, c>>: c says whether the certificate files were copied into *)
(* the tree.  A compose CID is <<b, v, z, h>>: v is the CAS the compose    *)
(* names, z its trustedzone session, h the heap.  The body of a session is *)
(* the ESR setting it was rendered with.                                   *)
(*                                                                         *)
(* A step ends where run.js awaits, or waits for a child process.          *)
(***************************************************************************)
EXTENDS Integers, Sequences, FiniteSets

CONSTANTS Networks,      \* the kinds of network published to
          MaxBuilds,     \* bound: builds of the project
          MaxFaults,     \* bound: failures, kills and lost receipts
          MaxChanges,    \* bound: changes of the settings and surroundings
          RewardAddress, \* REWARD_ADDRESS is set
          Validators,    \* how many validators the CAS registry lists
          Us, Other, None

Builds == 1 .. MaxBuilds
Images == Builds \X BOOLEAN
Zones == {0, 1}
Heaps == {0, 1}
Composes == Builds \X (-1 .. Validators - 1) \X Zones \X Heaps
Bodies == {0, 1}
PeerIds == 1 .. 2 * MaxBuilds + 1

ASSUME PublishAssumption ==
    /\ Networks \subseteq {"testnet", "self", "selfV1", "mainnet"}
    /\ MaxBuilds \in Nat \ {0} /\ MaxFaults \in Nat /\ MaxChanges \in Nat
    /\ RewardAddress \in BOOLEAN
    /\ Validators \in Nat \ {0}
    /\ Us # Other /\ None \notin {Us, Other}
    /\ None \notin Images \cup Composes \cup Builds

VARIABLES
    \* The project and its settings.
    network,     \* what BLOCKCHAIN_NETWORK and the template lead to
    own,         \* IPFS_ENDPOINT is an endpoint of the application's own
    token,       \* IPFS_TOKEN holds a writer token of the public API
    build,       \* the last build: VERSION and ENCLAVE_NAME_SECURELOCK
    withCerts,   \* registry/ holds the certificate files
    esr,         \* the ESR setting
    heap,        \* MEMORY_TO_ALLOCATE: 0 as built, 1 edited since
    \* The publish that runs, and the files it leaves behind.
    pc,          \* its next step
    succeeded,   \* the last publish of this build and settings said so
    img,         \* IPFS_HASH
    compose,     \* IPFS_DOCKER_COMPOSE_HASH
    ipfsFile,    \* the file IPFS_HASH.ipfs
    cert,        \* the file PUBLIC_KEY.txt, or the certificate harvested
    \* The Scontain CAS of mainnet and the key the project posts with.
    predecessor, \* PREDECESSOR_HASH_SECURELOCK, as .env has it
    posted,      \* builds with a session
    opens,       \* builds whose session key.pem, if there is one, may update
    \* IPFS beyond the Kubo.
    ownHolds,    \* what the application's own endpoint holds
    pinned,      \* what the public API pinned
    \* The validators.
    active,      \* active, with a usable endpoint
    zone,        \* the trustedzone session the ImageRegistry records
    moved,       \* history: the validators, the zone or the heap changed
    \* The registries and the Kubo.
    images, nameOwner, channels, lagging,
    sessions, laggingSessions,
    kubo, serving,
    \* Bounds.
    faults, changes

INSTANCE ImageRegistry WITH Certs <- Builds, Channels <- 0 .. MaxBuilds
INSTANCE SessionRegistry WITH Names <- Builds, Linkable <- Images \cup {None}
INSTANCE LocalKubo WITH Content <- Images
INSTANCE CasResolver

configVars == <<network, own, token>>
projectVars == <<build, withCerts, esr, heap>>
runVars == <<img, compose, ipfsFile, cert>>
sconeVars == <<predecessor, posted, opens>>
ipfsVars == <<ownHolds, pinned>>
casVars == <<active, zone, moved>>
registryVars == <<images, nameOwner, channels, lagging>>
sessionVars == <<sessions, laggingSessions>>
kuboVars == <<kubo, serving>>
boundVars == <<faults, changes>>
vars == <<configVars, projectVars, pc, succeeded, runVars, sconeVars, ipfsVars,
          casVars, registryVars, sessionVars, kuboVars, boundVars>>

\* What run.js derives from its configuration and from the isV2 probe.
registryV2 == network \in {"testnet", "self"}
casTestnet == network = "testnet"
localKubo == ~own

Init ==
    /\ network \in Networks
    /\ own \in BOOLEAN
    /\ token \in IF registryV2 \/ own THEN {FALSE} ELSE BOOLEAN
    /\ build = 1 /\ withCerts = FALSE /\ esr = 0 /\ heap = 0
    /\ pc = "idle" /\ succeeded = FALSE
    /\ img = None /\ compose = None /\ ipfsFile = None /\ cert = None
    /\ predecessor = "absent" /\ posted = {} /\ opens = {}
    /\ ownHolds = {} /\ pinned = {}
    /\ active = Indices /\ zone = 0 /\ moved = FALSE
    /\ RegistryInit /\ SessionInit /\ KuboInit
    /\ faults = 0 /\ changes = 0

-----------------------------------------------------------------------------
(***************************************************************************)
(* How a publish ends.  process.exit and an error nobody catches emit      *)
(* `exit`, on which the Kubo is released; a signal does not.               *)
(***************************************************************************)
Released == IF localKubo THEN release ELSE UNCHANGED kuboVars

Exit(success) == pc' = "idle" /\ succeeded' = success /\ Released

\* A step that changes nothing else fails: it counts as a fault unless the
\* state makes it fail.
Fault == faults < MaxFaults /\ faults' = faults + 1 /\ UNCHANGED changes

\* What a call told the publish: go on, or fail.  A call that took effect
\* and was not told so is a fault.
Proceed(told, effect, next) ==
    IF told
    THEN pc' = next /\ UNCHANGED <<succeeded, boundVars>>
    ELSE /\ pc' = "idle" /\ UNCHANGED succeeded
         /\ IF effect THEN Fault ELSE UNCHANGED boundVars

Fails ==
    /\ pc # "idle"
    /\ Fault
    /\ Exit(FALSE)
    /\ UNCHANGED <<configVars, projectVars, runVars, sconeVars, ipfsVars,
                   casVars, registryVars, sessionVars>>

Killed ==
    /\ pc # "idle"
    /\ Fault
    /\ pc' = "idle" /\ UNCHANGED succeeded
    /\ UNCHANGED <<configVars, projectVars, runVars, sconeVars, ipfsVars,
                   casVars, registryVars, sessionVars, kuboVars>>

-----------------------------------------------------------------------------
(***************************************************************************)
(* Up to the upload.                                                       *)
(***************************************************************************)

\* The publish starts; its own Kubo runs, or the one an earlier publish left.
Publish ==
    /\ pc = "idle" /\ ~succeeded
    /\ pc' = IF network = "mainnet" THEN "scone" ELSE "render"
    /\ IF localKubo
       THEN start({images[i].peer : i \in Images})
       ELSE UNCHANGED kuboVars
    /\ img' = None /\ compose' = None
    /\ UNCHANGED <<configVars, projectVars, succeeded, ipfsFile, cert,
                   sconeVars, ipfsVars, casVars, registryVars, sessionVars,
                   boundVars>>

KuboDoesNotStart ==
    /\ pc = "idle" /\ ~succeeded /\ localKubo
    /\ startFails
    /\ Fault
    /\ UNCHANGED <<configVars, projectVars, pc, succeeded, runVars, sconeVars,
                   ipfsVars, casVars, registryVars, sessionVars>>

\* The match-gate: under a CAS the heap is the one the enclave was signed with.
GatePasses == network \in {"testnet", "mainnet"} => heap = 0

\* writeEnv: a key that is new is appended; where the key is there, its line
\* is replaced, and in a replacement `$$` stands for one `$`, on which the
\* separators `$$$%$` of a predecessor are lost.
writeEnv(old, value) ==
    IF old # "absent" /\ value = "separated" THEN "collapsed" ELSE value

\* A new key is made unless .env names a predecessor and there is a key; one
\* that has lost its separators has another project's name and version.
KeyOpens == IF predecessor = "separated" THEN opens ELSE {}

\* Mainnet: the session is posted to the Scontain CAS, which lets the key that
\* created a session update it.  An answer without a hash ends the publish, as
\* a refusal does.
PostSession(answer) ==
    /\ pc = "scone" /\ GatePasses
    /\ LET refused == build \in posted /\ build \notin KeyOpens
       IN  /\ refused => answer = "failed"
           /\ posted' = IF refused THEN posted ELSE posted \cup {build}
           /\ opens' = IF refused THEN KeyOpens ELSE KeyOpens \cup {build}
           /\ Proceed(answer = "hash", ~refused, "render")
    /\ predecessor' = CASE answer = "hash"   -> writeEnv(predecessor, "separated")
                        [] answer = "noHash" -> writeEnv(predecessor, "EMPTY")
                        [] OTHER             -> predecessor
    /\ IF answer = "hash" THEN UNCHANGED kuboVars ELSE Released
    /\ UNCHANGED <<configVars, projectVars, runVars, ipfsVars, casVars,
                   registryVars, sessionVars>>

\* The compose files are rendered.  On a CAS testnet docker-compose.yml names
\* a validator that answered and the published compose the first active one,
\* and both the trustedzone session the ImageRegistry records.
ComposeOf(b) ==
    <<b, IF casTestnet THEN publishedCasAddress(active) ELSE NoCas,
      IF casTestnet THEN zone ELSE 0, heap>>

\* Mutant: the published compose names a validator that answered.
RenderProbed ==
    /\ pc = "render" /\ GatePasses
    /\ \E v \in IF casTestnet THEN active ELSE {NoCas} :
          compose' = [ComposeOf(build) EXCEPT ![2] = v]
    /\ pc' = IF registryV2 THEN "hash" ELSE "upload"
    /\ UNCHANGED <<configVars, projectVars, succeeded, img, ipfsFile, cert,
                   sconeVars, ipfsVars, casVars, registryVars, sessionVars,
                   kuboVars, boundVars>>

Render ==
    /\ pc = "render" /\ GatePasses
    /\ casTestnet => \E answering \in SUBSET Indices, offset \in Indices :
                        resolveCas(active, answering, offset) # NoCas
    /\ compose' = ComposeOf(build)
    /\ pc' = IF registryV2 THEN "hash" ELSE "upload"
    /\ UNCHANGED <<configVars, projectVars, succeeded, img, ipfsFile, cert,
                   sconeVars, ipfsVars, casVars, registryVars, sessionVars,
                   kuboVars, boundVars>>

\* Mutant: the adds that compute the CIDs store the tree.
HashByStoring ==
    /\ pc = "hash"
    /\ img' = <<build, withCerts>>
    /\ IF own
       THEN ownHolds' = ownHolds \cup {img'} /\ UNCHANGED kuboVars
       ELSE add(<<build, withCerts>>) /\ UNCHANGED ownHolds
    /\ pc' = "register"
    /\ UNCHANGED <<configVars, projectVars, succeeded, compose, ipfsFile, cert,
                   sconeVars, pinned, casVars, registryVars, sessionVars,
                   boundVars>>

\* V2: the CIDs the upload will give, from adds that store nothing.
HashForIpfs ==
    /\ pc = "hash"
    /\ img' = <<build, withCerts>>
    /\ pc' = "register"
    /\ UNCHANGED <<configVars, projectVars, succeeded, compose, ipfsFile, cert,
                   sconeVars, ipfsVars, casVars, registryVars, sessionVars,
                   kuboVars, boundVars>>

\* V2: the image is recorded with the Kubo's peer id, before anything is
\* stored or announced.
Register(told) ==
    /\ pc = "register"
    /\ localKubo => kubo.up
    /\ registerImage(img, compose, IF localKubo THEN kubo.id ELSE 0, told)
    /\ Proceed(told, images' # images, "reward")
    /\ IF told THEN UNCHANGED kuboVars ELSE Released
    /\ UNCHANGED <<configVars, projectVars, runVars, sconeVars, ipfsVars,
                   casVars, sessionVars>>

\* The same child process sets the reward address.  When it exits, the Kubo
\* is marked as the source of a registered image.
Reward(told) ==
    /\ pc = "reward"
    /\ IF RewardAddress
       THEN setRewardAddress(img, told)
       ELSE told = TRUE /\ UNCHANGED registryVars
    /\ Proceed(told, images' # images, "upload")
    /\ IF told
       THEN serving' = localKubo /\ UNCHANGED kubo
       ELSE Released
    /\ UNCHANGED <<configVars, projectVars, runVars, sconeVars, ipfsVars,
                   casVars, sessionVars>>

-----------------------------------------------------------------------------
(***************************************************************************)
(* The upload.                                                             *)
(***************************************************************************)
Stored(cid) ==
    IF localKubo
    THEN add(cid) /\ UNCHANGED ownHolds
    ELSE ownHolds' = ownHolds \cup {cid} /\ UNCHANGED kuboVars

AfterUpload ==
    CASE registryV2 /\ casTestnet -> "session"
      [] ~registryV2 /\ localKubo -> "pin"
      [] OTHER                    -> "certificate"

\* The old .ipfs file is deleted, the tree is added, and ipfs.mjs writes the
\* file with its CID.  A V2 upload must give the registered CID.
FileAfterUpload == <<build, withCerts>>

Upload ==
    /\ pc = "upload"
    /\ Stored(<<build, withCerts>>)
    /\ ipfsFile' = FileAfterUpload
    /\ img' = ipfsFile'
    /\ registryV2 => img' = img
    /\ pc' = AfterUpload
    /\ UNCHANGED <<configVars, projectVars, succeeded, compose, cert,
                   sconeVars, pinned, casVars, registryVars, sessionVars, boundVars>>

\* The tree is added and the file with its CID cannot be written: ipfs.mjs
\* succeeds, and what run.js finds decides.  Without a file the publish ends,
\* with a Kubo it does not keep.
FileWithoutWrite == None

UploadWithoutFile ==
    /\ pc = "upload"
    /\ localKubo => kubo.up
    /\ ipfsFile' = FileWithoutWrite
    /\ Fault
    /\ UNCHANGED succeeded
    /\ IF ipfsFile' = None
       THEN /\ pc' = "idle" /\ UNCHANGED img
            /\ IF serving \/ ~localKubo
               THEN Stored(<<build, withCerts>>)
               ELSE Released /\ UNCHANGED ownHolds
       ELSE /\ pc' = AfterUpload /\ img' = ipfsFile'
            /\ Stored(<<build, withCerts>>)
    /\ UNCHANGED <<configVars, projectVars, compose, cert, sconeVars,
                   pinned, casVars, registryVars, sessionVars>>

\* V1, own Kubo: the public API pins the image while the Kubo serves it.
Pin ==
    /\ pc = "pin"
    /\ token
    /\ img \in kubo.holds
    /\ pinned' = pinned \cup {img}
    /\ pc' = "certificate"
    /\ UNCHANGED <<configVars, projectVars, succeeded, runVars, sconeVars,
                   ownHolds, casVars, registryVars, sessionVars, kuboVars,
                   boundVars>>

\* Refused by the match-gate, without a token, or when the Kubo went away,
\* the publish ends.
CannotGoOn ==
    /\ \/ pc \in {"scone", "render"} /\ ~GatePasses
       \/ pc = "pin" /\ ~(token /\ img \in kubo.holds)
       \/ pc \in {"register", "upload", "again"} /\ localKubo /\ ~kubo.up
    /\ Exit(FALSE)
    /\ UNCHANGED <<configVars, projectVars, runVars, sconeVars, ipfsVars,
                   casVars, registryVars, sessionVars, boundVars>>

-----------------------------------------------------------------------------
(***************************************************************************)
(* The session, the certificate and the registration of both.              *)
(***************************************************************************)

\* CAS testnet: registerSessionOnChain.
RegisterSession(answer) ==
    /\ pc = "session"
    /\ register(build, esr, None, nameOwner = Us, answer)
    /\ Proceed(answer # "failed", sessions' # sessions,
               IF answer = "new" THEN "visible" ELSE "certificate")
    /\ IF answer # "failed" THEN UNCHANGED kuboVars ELSE Released
    /\ UNCHANGED <<configVars, projectVars, runVars, sconeVars, ipfsVars,
                   casVars, registryVars>>

WaitVisible ==
    /\ pc = "visible"
    /\ waitVisible(build, esr)
    /\ pc' = "certificate"
    /\ UNCHANGED <<configVars, projectVars, succeeded, runVars, sconeVars,
                   ipfsVars, casVars, registryVars, kuboVars, boundVars>>

\* Where the extraction service can fetch the image from.
Available(i) == i \in pinned \cup ownHolds \/ (kubo.up /\ i \in kubo.holds)

\* Mutant: PUBLIC_KEY.txt is read although the service failed.
HarvestOfOldFile ==
    /\ pc = "certificate"
    /\ \/ cert' = build
       \/ cert # None /\ UNCHANGED cert
    /\ pc' = "copy"
    /\ UNCHANGED <<configVars, projectVars, succeeded, img, compose, ipfsFile,
                   sconeVars, ipfsVars, casVars, registryVars, sessionVars,
                   kuboVars, boundVars>>

\* The certificate comes out of the enclave, on this machine or at the
\* service, which runs the image of the CID in IPFS_HASH.ipfs.
Harvest ==
    /\ pc = "certificate"
    /\ \/ cert' = build
       \/ Available(ipfsFile) /\ cert' = ipfsFile[1]
    /\ pc' = "copy"
    /\ UNCHANGED <<configVars, projectVars, succeeded, img, compose, ipfsFile,
                   sconeVars, ipfsVars, casVars, registryVars, sessionVars,
                   kuboVars, boundVars>>

\* The user does not want the service: the publish ends with exit code 0.
Decline ==
    /\ pc = "certificate"
    /\ Fault
    /\ Exit(FALSE)
    /\ UNCHANGED <<configVars, projectVars, runVars, sconeVars, ipfsVars,
                   casVars, registryVars, sessionVars>>

\* The certificate files are copied into the tree, for image_registry.js.
CopyCerts ==
    /\ pc = "copy"
    /\ withCerts' = TRUE
    /\ pc' = IF registryV2 THEN "cert" ELSE "again"
    /\ UNCHANGED <<configVars, build, esr, heap, succeeded, runVars, sconeVars,
                   ipfsVars, casVars, registryVars, sessionVars, kuboVars,
                   boundVars>>

\* V2: the certificate is written to the record; the Kubo has served.
SetCert(told) ==
    /\ pc = "cert"
    /\ setImageCert(img, cert, told)
    /\ Proceed(told, images' # images, IF casTestnet THEN "link" ELSE "finish")
    /\ IF told THEN serving' = FALSE /\ UNCHANGED kubo ELSE Released
    /\ UNCHANGED <<configVars, projectVars, runVars, sconeVars, ipfsVars,
                   casVars, sessionVars>>

GiveUp ==
    /\ \/ pc = "cert" /\ CertDeadline(img) /\ UNCHANGED sessionVars
       \/ pc = "link" /\ LinkDeadline(build) /\ UNCHANGED registryVars
    /\ Exit(FALSE)
    /\ UNCHANGED <<configVars, projectVars, runVars, sconeVars, ipfsVars,
                   casVars, boundVars>>

\* V1: the tree with the certificates is added again.
UploadAgain ==
    /\ pc = "again"
    /\ Stored(<<build, withCerts>>)
    /\ ipfsFile' = <<build, withCerts>>
    /\ img' = ipfsFile'
    /\ pc' = "v3"
    /\ UNCHANGED <<configVars, projectVars, succeeded, compose, cert,
                   sconeVars, pinned, casVars, registryVars, sessionVars, boundVars>>

\* V1: one addImage call under v3, then one under the build's VERSION.
AddImage(told) ==
    /\ pc \in {"v3", "version"}
    /\ addImage(IF pc = "v3" THEN 0 ELSE build, img, told)
    /\ Proceed(told, channels' # channels,
               IF pc = "v3" THEN "version"
               ELSE IF RewardAddress THEN "rewardV1" ELSE "finish")
    /\ IF told THEN UNCHANGED kuboVars ELSE Released
    /\ UNCHANGED <<configVars, projectVars, runVars, sconeVars, ipfsVars,
                   casVars, sessionVars>>

\* V1: the same child process sets the reward address.
RewardV1(told) ==
    /\ pc = "rewardV1"
    /\ setRewardAddressV1(img, told)
    /\ Proceed(told, images' # images, "finish")
    /\ IF told THEN UNCHANGED kuboVars ELSE Released
    /\ UNCHANGED <<configVars, projectVars, runVars, sconeVars, ipfsVars,
                   casVars, sessionVars>>

LinkImage(answer) ==
    /\ pc = "link"
    /\ linkImage(build, img, answer)
    /\ Proceed(answer = "linked", answer = "lost", "finish")
    /\ IF answer = "linked" THEN UNCHANGED kuboVars ELSE Released
    /\ UNCHANGED <<configVars, projectVars, runVars, sconeVars, ipfsVars,
                   casVars, registryVars>>

Finish ==
    /\ pc = "finish"
    /\ Exit(TRUE)
    /\ UNCHANGED <<configVars, projectVars, runVars, sconeVars, ipfsVars,
                   casVars, registryVars, sessionVars, boundVars>>

-----------------------------------------------------------------------------
(***************************************************************************)
(* The user, the host and the network.                                     *)
(***************************************************************************)

\* ecld-build makes registry/ anew, writes the heap and advances VERSION.  It
\* takes longer than a node lags.
Rebuild ==
    /\ pc = "idle" /\ build < MaxBuilds
    /\ lagging = Chain /\ laggingSessions = sessions
    /\ build' = build + 1 /\ withCerts' = FALSE /\ heap' = 0
    /\ succeeded' = FALSE
    /\ UNCHANGED <<configVars, esr, pc, runVars, sconeVars, ipfsVars, casVars,
                   registryVars, sessionVars, kuboVars, boundVars>>

\* Bound: only the last build is published under settings and surroundings
\* that change.
Change ==
    /\ build = MaxBuilds
    /\ changes < MaxChanges
    /\ changes' = changes + 1
    /\ UNCHANGED faults

\* The user edits the ESR settings or the heap of .env between two publishes.
EditSettings ==
    /\ pc = "idle"
    /\ \/ casTestnet /\ esr' = 1 - esr /\ UNCHANGED <<heap, moved>>
       \/ heap' = 1 - heap /\ moved' = TRUE /\ UNCHANGED esr
    /\ succeeded' = FALSE
    /\ Change
    /\ UNCHANGED <<configVars, build, withCerts, pc, runVars, sconeVars,
                   ipfsVars, active, zone, registryVars, sessionVars,
                   kuboVars>>

\* The SDK is installed again: what run.js left in its directory is gone.
\* Bound: only where that is a key.
Reinstall ==
    /\ pc = "idle" /\ network = "mainnet"
    /\ ipfsFile' = None /\ cert' = None /\ opens' = {}
    /\ Change
    /\ UNCHANGED <<configVars, projectVars, pc, succeeded, img, compose,
                   predecessor, posted, ipfsVars, casVars, registryVars,
                   sessionVars, kuboVars>>

\* Other validators are active, or a new trustedzone is recorded.  A publish
\* reads both in Render, so a change while it runs is as one before or after.
\* Bound: of the validators, changes that move the published one.
SurroundingsChange ==
    /\ pc = "idle" /\ casTestnet
    /\ \/ /\ active' \in (SUBSET Indices) \ {{}}
          /\ publishedCasAddress(active') # publishedCasAddress(active)
          /\ UNCHANGED zone
       \/ zone' = 1 - zone /\ UNCHANGED active
    /\ moved' = TRUE
    /\ Change
    /\ UNCHANGED <<configVars, projectVars, pc, succeeded, runVars, sconeVars,
                   ipfsVars, registryVars, sessionVars, kuboVars>>

KuboGoes ==
    /\ kuboGoes
    /\ Fault
    /\ UNCHANGED <<configVars, projectVars, pc, succeeded, runVars, sconeVars,
                   ipfsVars, casVars, registryVars, sessionVars>>

NodesCatchUp ==
    /\ lagging # Chain \/ laggingSessions # sessions
    /\ RegistryCatchesUp /\ SessionsCatchUp
    /\ UNCHANGED <<configVars, projectVars, pc, succeeded, runVars, sconeVars,
                   ipfsVars, casVars, kuboVars, boundVars>>

\* Another wallet binds the image name.
NameTaken ==
    /\ registryV2
    /\ OtherTakesName
    /\ Change
    /\ UNCHANGED <<configVars, projectVars, pc, succeeded, runVars, sconeVars,
                   ipfsVars, casVars, sessionVars, kuboVars>>

Calls ==
    \/ \E answer \in {"hash", "noHash", "failed"} : PostSession(answer)
    \/ \E told \in BOOLEAN :
          \/ Register(told) \/ Reward(told) \/ SetCert(told)
          \/ AddImage(told) \/ RewardV1(told)
    \/ \E answer \in {"linked", "lost", "refused"} : LinkImage(answer)
    \/ \E answer \in {"new", "known", "failed"} : RegisterSession(answer)

Steps ==
    \/ Render \/ HashForIpfs \/ Upload \/ Pin \/ CannotGoOn \/ WaitVisible
    \/ Harvest \/ CopyCerts \/ UploadAgain \/ Finish

Faults ==
    \/ KuboDoesNotStart \/ UploadWithoutFile \/ Decline \/ GiveUp
    \/ Fails \/ Killed \/ KuboGoes

Environment ==
    \/ Rebuild \/ EditSettings \/ Reinstall \/ SurroundingsChange
    \/ NameTaken

Next == Publish \/ Calls \/ Steps \/ Faults \/ Environment \/ NodesCatchUp

Spec == Init /\ [][Next]_vars

\* run.js goes on while it runs, its user publishes again until it is done,
\* and a node does not lag for ever.
FairSpec ==
    /\ Spec
    /\ WF_vars(Publish \/ Calls \/ Steps)
    /\ WF_vars(NodesCatchUp)

-----------------------------------------------------------------------------
(***************************************************************************)
(* Properties.                                                             *)
(***************************************************************************)
PcSet == {"idle", "render", "scone", "hash", "register", "reward", "upload",
          "pin", "session", "visible", "certificate", "copy", "cert", "again",
          "v3", "version", "rewardV1", "link", "finish"}

TypeOK ==
    /\ network \in {"testnet", "self", "selfV1", "mainnet"}
    /\ own \in BOOLEAN /\ token \in BOOLEAN
    /\ build \in Builds /\ withCerts \in BOOLEAN /\ esr \in Bodies
    /\ heap \in Heaps /\ zone \in Zones
    /\ pc \in PcSet /\ succeeded \in BOOLEAN
    /\ img \in Images \cup {None} /\ ipfsFile \in Images \cup {None}
    /\ compose \in Composes \cup {None} /\ cert \in Builds \cup {None}
    /\ predecessor \in {"absent", "EMPTY", "separated", "collapsed"}
    /\ posted \subseteq Builds /\ opens \subseteq Builds
    /\ ownHolds \subseteq Images /\ pinned \subseteq Images
    /\ active \subseteq Indices /\ moved \in BOOLEAN
    /\ images \in [Images -> Record]
    /\ nameOwner \in {None, Us, Other}
    /\ channels \in [0 .. MaxBuilds -> Seq(Images)]
    /\ lagging \in RegistryView
    /\ sessions \in SessionView /\ laggingSessions \in SessionView
    /\ kubo \in KuboType /\ serving \in BOOLEAN
    /\ faults \in 0 .. MaxFaults /\ changes \in 0 .. MaxChanges

\* A record never carries the certificate of another build's enclave,
\* whatever failed, was retried or was left in the files by earlier publishes.
CertificateIsItsBuilds ==
    \A i \in Images : images[i].cert \in {None, i[1]}

\* On a two-step registry neither the image nor its session is anywhere a
\* stranger could see it before the image name is this wallet's.
BoundBeforeDisclosed ==
    registryV2 =>
        /\ \A i \in kubo.holds \cup ownHolds : Registered(i)
        /\ (\E b \in Builds : sessions[b] # <<>>) => nameOwner = Us

\* Until the validators, the trustedzone session on chain or the heap in .env
\* change, every rerun renders the compose its image is registered with,
\* whichever validators answer it, so none is refused for its compose.
RerunsRenderTheSameCompose ==
    ~moved => \A i \in Images :
                 Registered(i) => images[i].compose = ComposeOf(i[1])

\* A publish that reports success has its image on chain, with this build's
\* certificate, compose, reward address and session; a session name that has
\* one version links it to that image; the Scontain CAS of mainnet has its
\* session; and no container is left behind.
\* (With more versions, a node that lags may have had an older one linked.)
SuccessIsComplete ==
    succeeded =>
        /\ img[1] = build
        /\ registryV2 =>
              /\ Registered(img) /\ images[img].cert = build
              /\ images[img].compose = compose
        /\ images[img].reward = RewardAddress
        /\ ~registryV2 =>
              /\ Holds(build, img)
              /\ channels[0][Len(channels[0])] = img
        /\ casTestnet =>
              /\ HasBody(sessions, build, esr)
              /\ Len(sessions[build]) = 1 => sessions[build][1].image = img
        /\ network = "mainnet" => build \in posted
        /\ ~kubo.up

\* The certificate is harvested when the body it needs is a version of the
\* session on chain.
HarvestFindsItsSession ==
    casTestnet /\ pc \in {"certificate", "copy", "cert"} =>
        HasBody(sessions, build, esr)

\* A publish that ends and stops its Kubo had not seen its own registration of
\* the image through, or the image has its certificate.
KeptUntilCertified ==
    [][/\ registryV2
       /\ pc # "idle" /\ pc' = "idle" /\ kubo.up /\ ~kubo'.up
       => \/ pc \in {"render", "hash", "register", "reward"}
          \/ images[img].cert # None]_vars

\* Documented, run.js on the key: where there is a predecessor and a key, the
\* key stays.
KeyKept ==
    [][pc = "scone" /\ predecessor \notin {"absent", "EMPTY"}
          => opens \subseteq opens']_vars

\* Documented, localKubo.js release: a publish never stops the source of a
\* registered image whose certificate is not on chain.
NeverStopsASource ==
    [][pc # pc' /\ kubo.up /\ ~kubo'.up =>
          ~ \E i \in Images : /\ Registered(i) /\ images[i].cert = None
                              /\ images[i].peer = kubo.id]_vars

\* What no rerun can complete: the heap is not the built one, the name is
\* another wallet's, the public API takes no pin, a compose was registered that
\* is rendered no more, a session body came back that is no longer the latest,
\* or the Scontain session was created with a key that was replaced.
Blocked ==
    \/ ~GatePasses
    \/ registryV2 /\ nameOwner = Other
    \/ ~registryV2 /\ localKubo /\ ~token
    \/ LET i == <<build, withCerts>>
       IN  registryV2 /\ Registered(i) /\ images[i].compose # ComposeOf(build)
    \/ casTestnet /\ HasBody(sessions, build, esr)
                  /\ ~IsLatest(sessions, build, esr)
    \/ network = "mainnet" /\ build \in posted /\ build \notin KeyOpens

\* Publishing again completes a publish that was interrupted anywhere.
RerunsComplete == []<>(succeeded \/ Blocked)
=============================================================================
