------------------------- MODULE PublishFlow_proofs -------------------------
(***************************************************************************)
(* Proofs about PublishFlow, for any number of builds, faults, changes and *)
(* validators: on a two-step registry nothing is disclosed before the      *)
(* image name is bound; no record carries the certificate of another       *)
(* build; reruns render the same compose; the certificate is harvested     *)
(* with its session on chain; a publish that reports success is complete;  *)
(* and the Kubo of a registration seen through stays until the certificate *)
(* is written.                                                             *)
(*                                                                         *)
(* Inv is the inductive invariant of the first two, given SettingTypes;    *)
(* ComposeInv, SessionInv and Serves are inductive given Inv.  The part    *)
(* about success has invariants of its own.                                *)
(***************************************************************************)
EXTENDS PublishFlow, TLAPS

\* Composes as they are rendered, for every set of active validators.
Rendered ==
    Builds \X ({publishedCasAddress(a) : a \in SUBSET Indices} \cup {NoCas})
           \X Zones \X Heaps

\* What a compose is rendered from, besides.
SettingTypes == heap \in Heaps /\ zone \in Zones

RecordT == [owner : {None, Us}, compose : Rendered \cup {None}, peer : Nat,
            cert : Builds \cup {None}, reward : BOOLEAN]

RegistryTypes ==
    /\ images \in [Images -> RecordT]
    /\ nameOwner \in {None, Us, Other}
    /\ lagging \in [images : [Images -> RecordT],
                    nameOwner : {None, Us, Other}]

KuboTypes == kubo \in KuboType /\ ownHolds \subseteq Images

\* The steps after the upload.
Uploaded == {"pin", "session", "visible", "certificate", "copy", "cert",
             "again", "v3", "version", "rewardV1", "link", "finish"}

RunTypes ==
    /\ build \in Builds /\ withCerts \in BOOLEAN
    /\ active \subseteq Indices
    /\ pc \in {"hash", "register"} => compose \in Rendered
    /\ pc \in {"register", "reward"} \cup Uploaded => img \in Images
    /\ pc \in Uploaded => ipfsFile \in Images
    /\ pc \in {"copy", "cert"} => cert \in Builds

\* No node is ahead of the chain, a registered image has its name, and what
\* was stored or posted was registered before.
Bound ==
    /\ \A i \in Images : lagging.images[i].owner = Us => Registered(i)
    /\ \A i \in Images : Registered(i) => nameOwner = Us
    /\ \A i \in kubo.holds \cup ownHolds : Registered(i)
    /\ \A b \in Builds : sessions[b] # <<>> => nameOwner = Us
    /\ \A b \in Builds : laggingSessions[b] # <<>> => nameOwner = Us

\* From the registration to the upload, the image is the tree as it is; and
\* no step of a one-step registry is taken.
BoundSteps ==
    /\ pc \in {"register", "reward", "upload"} => img = <<build, withCerts>>
    /\ pc \in {"reward", "upload"} => Registered(img)
    /\ pc \notin {"scone", "pin", "again", "v3", "version", "rewardV1"}

\* After the upload, what the certificate is taken from and the image it is
\* written to are both of the build.  (The first registration
\* is a step of a two-step registry.)
CertSteps ==
    /\ pc \in Uploaded => img[1] = build /\ ipfsFile[1] = build
    /\ pc \in {"copy", "cert"} => cert = build
    /\ pc \in {"hash", "register", "reward"} => registryV2

StateInv ==
    /\ RegistryTypes /\ KuboTypes
    /\ registryV2 => Bound
    /\ CertificateIsItsBuilds

RunInv ==
    /\ RunTypes /\ CertSteps
    /\ registryV2 => BoundSteps

Inv == StateInv /\ RunInv

-----------------------------------------------------------------------------
(***************************************************************************)
(* The registry's operations: they keep the types, take no owner away, and *)
(* tell of what they did.                                                  *)
(***************************************************************************)
KeepsOwners == \A j \in Images : images[j].owner = Us => images'[j].owner = Us

LEMMA RegisterImage ==
    ASSUME RegistryTypes, NEW i \in Images, NEW c \in Rendered,
           NEW p \in Nat, NEW told, registerImage(i, c, p, told)
    PROVE  /\ RegistryTypes' /\ UNCHANGED lagging
           /\ KeepsOwners
           /\ told = TRUE => \/ images'[i].owner = Us
                             \/ lagging.images[i].owner = Us
           /\ \A j \in Images : images'[j].cert \in {images[j].cert, None}
           /\ \A j \in Images :
                 \/ images'[j] = images[j]
                 \/ j = i /\ images'[j].compose = c
           /\ \/ images' = images /\ nameOwner' = nameOwner
              \/ nameOwner' = Us
<1> DEFINE new == [owner |-> Us, compose |-> c, peer |-> p, cert |-> None,
                   reward |-> FALSE]
<1>1. /\ new \in RecordT
      /\ new.owner = Us /\ new.cert = None /\ new.compose = c
    BY DEF RecordT
<1>2. /\ UNCHANGED lagging
      /\ \/ UNCHANGED <<images, nameOwner>>
         \/ images' = [images EXCEPT ![i] = new] /\ nameOwner' = Us
    BY DEF registerImage, SendRegister
<1> HIDE DEF new
<1>3. CASE UNCHANGED <<images, nameOwner>>
  <2>1. told = TRUE => images[i].owner = Us \/ lagging.images[i].owner = Us
    <3> SUFFICES ASSUME told = TRUE
                 PROVE  images[i].owner = Us \/ lagging.images[i].owner = Us
        OBVIOUS
    <3>1. CASE \E read \in Views : AlreadyRegistered(read, i, c)
        BY <3>1 DEF AlreadyRegistered, Views, Chain
    <3>2. CASE images' = [images EXCEPT ![i] = new]
      <4>1. images'[i] = new
          BY <3>2 DEF RegistryTypes
      <4> QED
          BY <1>1, <1>3, <4>1
    <3> QED
        BY <3>1, <3>2 DEF registerImage, SendRegister, new
  <2> QED
      BY <1>2, <1>3, <2>1 DEF RegistryTypes, KeepsOwners
<1>4. CASE images' = [images EXCEPT ![i] = new] /\ nameOwner' = Us
  <2>1. images' \in [Images -> RecordT]
      BY <1>1, <1>4 DEF RegistryTypes
  <2>2. \A j \in Images : images'[j] = IF j = i THEN new ELSE images[j]
      BY <1>4 DEF RegistryTypes
  <2>3. RegistryTypes'
      BY <1>2, <1>4, <2>1 DEF RegistryTypes
  <2> QED
      BY <1>1, <1>2, <1>4, <2>2, <2>3 DEF KeepsOwners
<1> QED
    BY <1>2, <1>3, <1>4

\* The reward address changes no owner and no certificate.
LEMMA SetReward ==
    ASSUME RegistryTypes, NEW i \in Images, NEW told,
           setRewardAddress(i, told) \/ setRewardAddressV1(i, told)
    PROVE  /\ RegistryTypes' /\ UNCHANGED <<lagging, nameOwner>>
           /\ \A j \in Images : /\ images'[j].owner = images[j].owner
                                /\ images'[j].cert = images[j].cert
                                /\ images'[j].compose = images[j].compose
<1> DEFINE new == [images[i] EXCEPT !.reward = TRUE]
<1>1. /\ UNCHANGED <<lagging, nameOwner>>
      /\ UNCHANGED images \/ images' = [images EXCEPT ![i] = new]
    BY DEF setRewardAddress, setRewardAddressV1
<1>2. images[i] \in RecordT
    BY DEF RegistryTypes
<1>3. /\ new \in RecordT
      /\ new.owner = images[i].owner /\ new.cert = images[i].cert
      /\ new.compose = images[i].compose
    BY <1>2 DEF RecordT
<1> HIDE DEF new
<1>4. CASE images' = [images EXCEPT ![i] = new]
  <2>1. images' \in [Images -> RecordT]
      BY <1>3, <1>4 DEF RegistryTypes
  <2>2. \A j \in Images : images'[j] = IF j = i THEN new ELSE images[j]
      BY <1>4 DEF RegistryTypes
  <2>3. RegistryTypes'
      BY <1>1, <2>1 DEF RegistryTypes
  <2> QED
      BY <1>1, <1>3, <2>2, <2>3
<1>5. CASE UNCHANGED images
    BY <1>1, <1>5 DEF RegistryTypes
<1> QED
    BY <1>1, <1>4, <1>5

\* A certificate is written where there was none; no owner changes.
LEMMA SetImageCert ==
    ASSUME RegistryTypes, NEW i \in Images, NEW c \in Builds, NEW told,
           setImageCert(i, c, told)
    PROVE  /\ RegistryTypes' /\ UNCHANGED <<lagging, nameOwner>>
           /\ \A j \in Images :
                 /\ images'[j].owner = images[j].owner
                 /\ images'[j].compose = images[j].compose
                 /\ \/ images'[j].cert = images[j].cert
                    \/ j = i /\ images'[j].cert = c
<1> DEFINE new == [images[i] EXCEPT !.cert = c]
<1>1. /\ UNCHANGED <<lagging, nameOwner>>
      /\ UNCHANGED images \/ images' = [images EXCEPT ![i] = new]
    BY DEF setImageCert, SendCert
<1>2. images[i] \in RecordT
    BY DEF RegistryTypes
<1>3. /\ new \in RecordT
      /\ new.owner = images[i].owner /\ new.cert = c
      /\ new.compose = images[i].compose
    BY <1>2 DEF RecordT
<1> HIDE DEF new
<1>4. CASE images' = [images EXCEPT ![i] = new]
  <2>1. images' \in [Images -> RecordT]
      BY <1>3, <1>4 DEF RegistryTypes
  <2>2. \A j \in Images : images'[j] = IF j = i THEN new ELSE images[j]
      BY <1>4 DEF RegistryTypes
  <2>3. RegistryTypes'
      BY <1>1, <2>1 DEF RegistryTypes
  <2> QED
      BY <1>1, <1>3, <2>2, <2>3
<1>5. CASE UNCHANGED images
    BY <1>1, <1>5 DEF RegistryTypes
<1> QED
    BY <1>1, <1>4, <1>5

-----------------------------------------------------------------------------
(***************************************************************************)
(* The invariant.  A step that discloses nothing and takes no owner away   *)
(* keeps Bound; the steps of the publish are then about RunInv.            *)
(***************************************************************************)
Discloses == \/ ~(kubo' \in KuboType /\ kubo'.holds \subseteq kubo.holds)
             \/ ~UNCHANGED <<ownHolds, sessions, laggingSessions>>

LEMMA NothingDisclosed ==
    ASSUME StateInv, UNCHANGED <<network, lagging>>, ~Discloses,
           RegistryTypes', KeepsOwners, CertificateIsItsBuilds',
           \/ nameOwner' = Us
           \/ /\ nameOwner' = nameOwner
              /\ \A j \in Images : images'[j].owner = images[j].owner
    PROVE  StateInv'
<1>1. KuboTypes'
    BY DEF StateInv, KuboTypes, Discloses
<1>2. registryV2' = registryV2
    BY DEF registryV2
<1>3. registryV2 /\ Bound => Bound'
    BY DEF Bound, Discloses, Registered, KeepsOwners, StateInv, KuboTypes,
           KuboType
<1> QED
    BY <1>1, <1>2, <1>3 DEF StateInv

\* Nothing the registries or IPFS hold changes, but that a Kubo may go.
Rests == /\ UNCHANGED <<network, images, nameOwner, lagging, ownHolds>>
         /\ UNCHANGED <<sessions, laggingSessions>>
         /\ kubo' \in KuboType /\ kubo'.holds \subseteq kubo.holds

LEMMA Resting ==
    ASSUME StateInv, Rests PROVE StateInv'
<1> QED
    BY NothingDisclosed
    DEF Rests, Discloses, StateInv, RegistryTypes, KeepsOwners,
        CertificateIsItsBuilds

\* A publish that ends leaves nothing to say of its steps.
LEMMA Ends ==
    ASSUME RunInv, pc' = "idle", build' \in Builds, withCerts' \in BOOLEAN,
           active' \subseteq Indices
    PROVE  RunInv'
<1> QED
    BY DEF RunInv, RunTypes, CertSteps, BoundSteps, Uploaded

\* However a publish ends, its Kubo holds no more than it held.
LEMMA KuboReleased ==
    ASSUME KuboTypes, Released \/ UNCHANGED kuboVars
    PROVE  kubo' \in KuboType /\ kubo'.holds \subseteq kubo.holds
<1>1. Down \in KuboType /\ Down.holds = {}
    BY DEF Down, KuboType
<1> QED
    BY <1>1 DEF KuboTypes, Released, release, kuboVars

LEMMA Initially ==
    ASSUME Init PROVE Inv
<1> USE PublishAssumption DEF PublishAssumption
<1>1. NoRecord \in RecordT /\ NoRecord.owner = None /\ NoRecord.cert = None
    BY DEF NoRecord, RecordT
<1>2. images \in [Images -> RecordT] /\ \A i \in Images : images[i] = NoRecord
    BY <1>1 DEF Init, RegistryInit
<1>3. RegistryTypes /\ CertificateIsItsBuilds
    BY <1>1, <1>2
    DEF Init, RegistryInit, RegistryTypes, CertificateIsItsBuilds
<1>4. KuboTypes
    BY DEF Init, KuboInit, KuboTypes, Down, KuboType
<1>5. Bound
    BY <1>1, <1>2
    DEF Init, RegistryInit, SessionInit, KuboInit, Bound, Registered, Down
<1>6. RunInv
  <2>1. 1 \in Builds
      BY DEF Builds
  <2>2. build = 1 /\ withCerts = FALSE /\ active = Indices /\ pc = "idle"
      BY DEF Init
  <2> QED
      BY <2>1, <2>2 DEF RunInv, RunTypes, CertSteps, BoundSteps, Uploaded
<1> QED
    BY <1>3, <1>4, <1>5, <1>6 DEF Inv, StateInv

\* What the two calls with answers of their own are told.
PostAnswers == {"hash", "noHash", "failed"}
LinkAnswers == {"linked", "lost", "refused"}

\* The calls: what each leaves of the registries is in its lemma.
LEMMA RegisterKeeps ==
    ASSUME Inv, NEW told \in BOOLEAN, Register(told) PROVE Inv'
<1> USE DEF Inv
<1>1. pc = "register" /\ img \in Images /\ compose \in Rendered
    BY DEF Register, RunInv, RunTypes
<1>2. /\ kubo \in KuboType
      /\ (IF localKubo THEN kubo.id ELSE 0) \in Nat
    BY DEF StateInv, KuboTypes, KuboType, PeerIds
<1>3. /\ RegistryTypes' /\ UNCHANGED lagging
      /\ KeepsOwners
      /\ told = TRUE => \/ images'[img].owner = Us
                        \/ lagging.images[img].owner = Us
      /\ \A j \in Images : images'[j].cert \in {images[j].cert, None}
      /\ \/ images' = images /\ nameOwner' = nameOwner
         \/ nameOwner' = Us
    BY <1>1, <1>2, RegisterImage DEF Register, StateInv
<1>4. StateInv'
  <2>1. ~Discloses
      BY KuboReleased
      DEF Register, Discloses, StateInv, ipfsVars, sessionVars
  <2>2. CertificateIsItsBuilds'
      BY <1>3 DEF CertificateIsItsBuilds, StateInv
  <2> QED
      BY <1>3, <2>1, <2>2, NothingDisclosed DEF Register, configVars
<1>5. RunInv'
  <2>1. CASE told = FALSE
      BY <2>1, Ends DEF Register, Proceed, projectVars, casVars, RunInv,
         RunTypes
  <2>2. CASE told = TRUE
    <3>1. registryV2 => Registered(img)'
        BY <1>1, <1>3, <2>2
        DEF StateInv, Bound, Registered, KeepsOwners, Register, runVars
    <3> QED
        BY <1>1, <2>2, <3>1
        DEF Register, Proceed, RunInv, RunTypes, CertSteps, BoundSteps,
            Uploaded, registryV2, projectVars, casVars, runVars, configVars
  <2> QED
      BY <2>1, <2>2
<1> QED
    BY <1>4, <1>5

\* What a call leaves when it takes no owner away and writes no certificate.
Records == /\ RegistryTypes' /\ UNCHANGED <<lagging, nameOwner>>
           /\ \A j \in Images : images'[j].owner = images[j].owner
           /\ CertificateIsItsBuilds'

LEMMA Recording ==
    ASSUME StateInv, Records, UNCHANGED network, ~Discloses PROVE StateInv'
<1> QED
    BY NothingDisclosed DEF Records, KeepsOwners

LEMMA RewardKeeps ==
    ASSUME Inv, NEW told \in BOOLEAN, Reward(told) PROVE Inv'
<1> USE DEF Inv
<1>1. pc = "reward" /\ img \in Images
    BY DEF Reward, RunInv, RunTypes
<1>2. Records
  <2>1. CASE RewardAddress
      BY <1>1, <2>1, SetReward
      DEF Reward, Records, StateInv, CertificateIsItsBuilds
  <2>2. CASE ~RewardAddress
      BY <2>2 DEF Reward, Records, StateInv, CertificateIsItsBuilds,
                  registryVars, RegistryTypes
  <2> QED
      BY <2>1, <2>2
<1>3. StateInv'
  <2>1. ~Discloses
      BY KuboReleased
      DEF Reward, Discloses, StateInv, KuboTypes, ipfsVars, sessionVars
  <2> QED
      BY <1>2, <2>1, Recording DEF Reward, configVars
<1>4. RunInv'
  <2>1. CASE told = FALSE
      BY <2>1, Ends DEF Reward, Proceed, projectVars, casVars, RunInv,
         RunTypes
  <2>2. CASE told = TRUE
      BY <1>1, <1>2, <2>2
      DEF Reward, Proceed, RunInv, RunTypes, CertSteps, BoundSteps, Uploaded,
          Records, Registered, registryV2, projectVars, casVars, runVars,
          configVars
  <2> QED
      BY <2>1, <2>2
<1> QED
    BY <1>3, <1>4

LEMMA SetCertKeeps ==
    ASSUME Inv, NEW told \in BOOLEAN, SetCert(told) PROVE Inv'
<1> USE DEF Inv
<1>1. pc = "cert" /\ img \in Images /\ cert \in Builds /\ img[1] = cert
    BY DEF SetCert, RunInv, RunTypes, CertSteps, Uploaded
<1>2. Records
    BY <1>1, SetImageCert
    DEF SetCert, Records, StateInv, CertificateIsItsBuilds
<1>3. StateInv'
  <2>1. ~Discloses
      BY KuboReleased
      DEF SetCert, Discloses, StateInv, KuboTypes, ipfsVars, sessionVars
  <2> QED
      BY <1>2, <2>1, Recording DEF SetCert, configVars
<1>4. RunInv'
    BY <1>1
    DEF SetCert, Proceed, RunInv, RunTypes, CertSteps, BoundSteps, Uploaded,
        registryV2, projectVars, casVars, runVars, configVars
<1> QED
    BY <1>3, <1>4

LEMMA RewardV1Keeps ==
    ASSUME Inv, NEW told \in BOOLEAN, RewardV1(told) PROVE Inv'
<1> USE DEF Inv
<1>1. pc = "rewardV1" /\ img \in Images
    BY DEF RewardV1, RunInv, RunTypes, Uploaded
<1>2. Records
    BY <1>1, SetReward
    DEF RewardV1, Records, StateInv, CertificateIsItsBuilds
<1>3. StateInv'
  <2>1. ~Discloses
      BY KuboReleased
      DEF RewardV1, Discloses, StateInv, ipfsVars, sessionVars
  <2> QED
      BY <1>2, <2>1, Recording DEF RewardV1, configVars
<1>4. RunInv'
    BY <1>1
    DEF RewardV1, Proceed, RunInv, RunTypes, CertSteps, BoundSteps, Uploaded,
        registryV2, projectVars, casVars, runVars, configVars
<1> QED
    BY <1>3, <1>4

LEMMA RegisterSessionKeeps ==
    ASSUME Inv, NEW answer \in {"new", "known", "failed"},
           RegisterSession(answer)
    PROVE  Inv'
<1> USE DEF Inv
<1>1. /\ UNCHANGED <<images, nameOwner, channels, lagging>>
      /\ UNCHANGED <<network, laggingSessions, ownHolds>>
      /\ kubo' \in KuboType /\ kubo'.holds \subseteq kubo.holds
    BY KuboReleased
    DEF RegisterSession, register, registryVars, configVars, ipfsVars, StateInv
<1>2. sessions' # sessions => nameOwner = Us
    BY DEF RegisterSession, register
<1>3. StateInv'
    BY <1>1, <1>2
    DEF StateInv, RegistryTypes, KuboTypes, KuboType, Bound, Registered,
        registryV2, CertificateIsItsBuilds
<1>4. RunInv'
    BY <1>1
    DEF RegisterSession, Proceed, RunInv, RunTypes, CertSteps, BoundSteps,
        Uploaded, registryV2, projectVars, casVars, runVars, configVars
<1> QED
    BY <1>3, <1>4

LEMMA LinkImageKeeps ==
    ASSUME Inv, NEW answer \in LinkAnswers, LinkImage(answer) PROVE Inv'
<1> USE DEF Inv
<1>1. /\ UNCHANGED <<images, nameOwner, channels, lagging>>
      /\ UNCHANGED <<network, laggingSessions, ownHolds, build>>
      /\ kubo' \in KuboType /\ kubo'.holds \subseteq kubo.holds
    BY KuboReleased
    DEF LinkImage, linkImage, registryVars, configVars, ipfsVars, StateInv,
        projectVars
<1>2. build \in Builds /\ (sessions[build] # <<>> \/ laggingSessions[build] # <<>>)
    BY DEF LinkImage, linkImage, SessionViews, RunInv, RunTypes
<1>3. StateInv'
  <2>1. registryV2 => nameOwner = Us
      BY <1>2 DEF StateInv, Bound
  <2> QED
      BY <1>1, <2>1
      DEF StateInv, RegistryTypes, KuboTypes, KuboType, Bound, Registered,
          registryV2, CertificateIsItsBuilds
<1>4. RunInv'
    BY <1>1
    DEF LinkImage, Proceed, RunInv, RunTypes, CertSteps, BoundSteps,
        Uploaded, registryV2, projectVars, casVars, runVars, configVars
<1> QED
    BY <1>3, <1>4

\* What is stored: on a two-step registry, a registered tree.
LEMMA Storing ==
    ASSUME StateInv, NEW i \in Images, Stored(i), registryV2 => Registered(i),
           UNCHANGED <<network, images, nameOwner, lagging>>,
           UNCHANGED <<sessions, laggingSessions>>
    PROVE  StateInv'
<1>1. /\ kubo' \in KuboType
      /\ kubo'.holds \cup ownHolds' \subseteq kubo.holds \cup ownHolds \cup {i}
      /\ ownHolds' \subseteq Images
  <2>1. CASE localKubo
    <3>1. kubo' = [kubo EXCEPT !.holds = kubo.holds \cup {i}]
          /\ UNCHANGED ownHolds
        BY <2>1 DEF Stored, add
    <3>2. kubo \in KuboType /\ ownHolds \subseteq Images
        BY DEF StateInv, KuboTypes
    <3>3. kubo' \in KuboType /\ kubo'.holds = kubo.holds \cup {i}
        BY <3>1, <3>2 DEF KuboType
    <3> QED
        BY <3>1, <3>2, <3>3
  <2>2. CASE ~localKubo
      BY <2>2 DEF Stored, kuboVars, StateInv, KuboTypes
  <2> QED
      BY <2>1, <2>2
<1>2. registryV2 => Bound'
    BY <1>1 DEF StateInv, Bound, Registered
<1> QED
    BY <1>1, <1>2 DEF StateInv, RegistryTypes, KuboTypes, registryV2,
                      CertificateIsItsBuilds

LEMMA UploadKeeps ==
    ASSUME Inv, Upload \/ UploadWithoutFile \/ UploadAgain PROVE Inv'
<1> USE DEF Inv
<1> DEFINE tree == <<build, withCerts>>
<1>1. /\ tree \in Images /\ tree[1] = build
      /\ Stored(tree) \/ (Released /\ UNCHANGED ownHolds)
      /\ registryV2 => Registered(tree)
    BY DEF Upload, UploadWithoutFile, UploadAgain, RunInv, RunTypes,
           BoundSteps, Images
<1>2. /\ UNCHANGED <<network, images, nameOwner, lagging>>
      /\ UNCHANGED <<sessions, laggingSessions>>
      /\ UNCHANGED <<build, withCerts, active>>
    BY DEF Upload, UploadWithoutFile, UploadAgain, configVars, registryVars,
           sessionVars, projectVars, casVars
<1>3. StateInv'
  <2>1. CASE Stored(tree)
      BY <1>1, <1>2, <2>1, Storing
  <2>2. CASE Released /\ UNCHANGED ownHolds
      BY <1>2, <2>2, KuboReleased, Resting DEF Rests, StateInv
  <2> QED
      BY <1>1, <2>1, <2>2
<1>4. RunInv'
  <2>1. CASE Upload
      BY <1>1, <1>2, <2>1
      DEF Upload, FileAfterUpload, AfterUpload, RunInv, RunTypes, CertSteps,
          BoundSteps, Uploaded, registryV2, casTestnet
  <2>2. CASE UploadWithoutFile
      BY <1>2, <2>2, Ends
      DEF UploadWithoutFile, FileWithoutWrite, RunInv, RunTypes
  <2>3. CASE UploadAgain
      BY <1>1, <1>2, <2>3
      DEF UploadAgain, RunInv, RunTypes, CertSteps, BoundSteps, Uploaded,
          registryV2
  <2> QED
      BY <2>1, <2>2, <2>3
<1> QED
    BY <1>3, <1>4

\* The nodes catch up: they now answer what the chain says.
LEMMA NodesCatchUpKeeps ==
    ASSUME Inv, NodesCatchUp PROVE Inv'
<1>1. /\ lagging' = Chain /\ laggingSessions' = sessions
      /\ UNCHANGED <<network, images, nameOwner, sessions, ownHolds, kubo>>
      /\ UNCHANGED <<pc, img, compose, ipfsFile, cert, build, withCerts, active>>
    BY DEF NodesCatchUp, RegistryCatchesUp, SessionsCatchUp, configVars,
           projectVars, runVars, ipfsVars, casVars, kuboVars
<1>2. StateInv'
    BY <1>1 DEF Inv, StateInv, RegistryTypes, KuboTypes, Bound, Registered,
                registryV2, CertificateIsItsBuilds, Chain
<1>3. RunInv'
    BY <1>1 DEF Inv, RunInv, RunTypes, CertSteps, BoundSteps, registryV2,
                Registered
<1> QED
    BY <1>2, <1>3 DEF Inv

\* Another wallet takes a name nobody had: no image was registered under it.
LEMMA NameTakenKeeps ==
    ASSUME Inv, NameTaken PROVE Inv'
<1>1. /\ registryV2 /\ nameOwner = None /\ nameOwner' = Other
      /\ UNCHANGED <<network, images, lagging, sessions, laggingSessions>>
      /\ UNCHANGED <<ownHolds, kubo>>
      /\ UNCHANGED <<pc, img, compose, ipfsFile, cert, build, withCerts, active>>
    BY DEF NameTaken, OtherTakesName, configVars, projectVars, runVars,
           ipfsVars, casVars, kuboVars, sessionVars
<1>2. None # Us
    BY PublishAssumption DEF PublishAssumption
<1>3. StateInv'
    BY <1>1, <1>2 DEF Inv, StateInv, RegistryTypes, KuboTypes, Bound,
                      Registered, registryV2, CertificateIsItsBuilds
<1>4. RunInv'
    BY <1>1 DEF Inv, RunInv, RunTypes, CertSteps, BoundSteps, registryV2,
                Registered
<1> QED
    BY <1>3, <1>4 DEF Inv

-----------------------------------------------------------------------------
(***************************************************************************)
(* The steps at which the registries and IPFS rest.                        *)
(***************************************************************************)
LEMMA PublishKeeps ==
    ASSUME Inv, Publish PROVE Inv'
<1>1. kubo' \in KuboType /\ kubo'.holds \subseteq kubo.holds
  <2>1. kubo \in KuboType
      BY DEF Inv, StateInv, KuboTypes
  <2>2. CASE UNCHANGED kubo
      BY <2>1, <2>2
  <2>3. CASE \E id \in PeerIds : kubo' = [up |-> TRUE, id |-> id, holds |-> {}]
      BY <2>3 DEF KuboType
  <2> QED
      BY <2>2, <2>3 DEF Publish, start, NewIds, kuboVars
<1>2. Rests
    BY <1>1 DEF Publish, Rests, configVars, registryVars, sessionVars, ipfsVars
<1>3. RunInv'
    BY DEF Publish, Inv, RunInv, RunTypes, CertSteps, BoundSteps, Uploaded,
           registryV2, configVars, projectVars, casVars
<1> QED
    BY <1>2, <1>3, Resting DEF Inv

\* A publish that ends, at whichever step, with its Kubo released or not.
Ending == KuboDoesNotStart \/ CannotGoOn \/ Finish \/ Decline \/ GiveUp
          \/ Fails \/ Killed

LEMMA EndingKeeps ==
    ASSUME Inv, Ending PROVE Inv'
<1>1. /\ UNCHANGED <<network, build, withCerts, active>>
      /\ UNCHANGED <<images, nameOwner, lagging, sessions, laggingSessions>>
      /\ UNCHANGED ownHolds
    BY DEF Ending, KuboDoesNotStart, CannotGoOn, Finish, Decline, GiveUp,
           Fails, Killed, CertDeadline, LinkDeadline, configVars, projectVars,
           casVars, registryVars, sessionVars, ipfsVars
<1>2. kubo' \in KuboType /\ kubo'.holds \subseteq kubo.holds
  <2>1. CASE KuboDoesNotStart
      BY <2>1 DEF KuboDoesNotStart, startFails, Down, KuboType
  <2>2. CASE ~KuboDoesNotStart
      BY <2>2, KuboReleased
      DEF Ending, CannotGoOn, Finish, Decline, GiveUp, Fails, Killed, Exit,
          Inv, StateInv
  <2> QED
      BY <2>1, <2>2
<1>3. pc' = "idle"
    BY DEF Ending, KuboDoesNotStart, CannotGoOn, Finish, Decline, GiveUp,
           Fails, Killed, Exit
<1>4. Rests
    BY <1>1, <1>2 DEF Rests
<1>5. build' \in Builds /\ withCerts' \in BOOLEAN /\ active' \subseteq Indices
    BY <1>1 DEF Inv, RunInv, RunTypes
<1> QED
    BY <1>3, <1>4, <1>5, Resting, Ends DEF Inv

\* The steps that compute, ask or harvest.
LEMMA StepsKeep ==
    ASSUME Inv, SettingTypes,
           \/ Render \/ HashForIpfs \/ Pin \/ WaitVisible \/ Harvest
           \/ CopyCerts
    PROVE  Inv'
<1> USE DEF Inv
<1>1. Rests
    BY DEF Render, HashForIpfs, Pin, WaitVisible, waitVisible, Harvest,
           CopyCerts, Rests, StateInv, KuboTypes, configVars, registryVars,
           sessionVars, ipfsVars, kuboVars
<1>2. UNCHANGED <<network, build, active, images>>
    BY DEF Render, HashForIpfs, Pin, WaitVisible, Harvest, CopyCerts,
           configVars, projectVars, casVars, registryVars
<1>3. CASE Render
  <2>1. compose' \in Rendered
      BY <1>3 DEF Render, ComposeOf, Rendered, RunInv, RunTypes, SettingTypes,
                  Zones
  <2> QED
    <3>1. RunInv'
        BY <1>2, <1>3, <2>1
        DEF Render, RunInv, RunTypes, CertSteps, BoundSteps, Uploaded,
            registryV2, projectVars
    <3> QED
        BY <1>1, <3>1, Resting
<1>4. CASE HashForIpfs
  <2>1. RunInv'
      BY <1>2, <1>4
      DEF HashForIpfs, RunInv, RunTypes, CertSteps, BoundSteps, Uploaded,
          Images, registryV2, projectVars
  <2> QED
      BY <1>1, <2>1, Resting
<1>5. CASE Pin
  <2>1. RunInv'
      BY <1>2, <1>5
      DEF Pin, RunInv, RunTypes, CertSteps, BoundSteps, Uploaded,
          registryV2, projectVars, runVars
  <2> QED
      BY <1>1, <2>1, Resting
<1>6. CASE WaitVisible
  <2>1. RunInv'
      BY <1>2, <1>6
      DEF WaitVisible, RunInv, RunTypes, CertSteps, BoundSteps, Uploaded,
          registryV2, projectVars, runVars
  <2> QED
      BY <1>1, <2>1, Resting
<1>7. CASE Harvest
  <2>1. cert' = build
      BY <1>7 DEF Harvest, RunInv, CertSteps, Uploaded
  <2>2. RunInv'
      BY <1>2, <1>7, <2>1
      DEF Harvest, RunInv, RunTypes, CertSteps, BoundSteps, Uploaded,
          registryV2, projectVars
  <2> QED
      BY <1>1, <2>2, Resting
<1>8. CASE CopyCerts
  <2>1. RunInv'
      BY <1>2, <1>8
      DEF CopyCerts, RunInv, RunTypes, CertSteps, BoundSteps, Uploaded,
          registryV2, runVars
  <2> QED
      BY <1>1, <2>1, Resting
<1> QED
    BY <1>3, <1>4, <1>5, <1>6, <1>7, <1>8

\* The calls a publish to a registry of one step makes.
LEMMA PostSessionKeeps ==
    ASSUME Inv, NEW answer \in PostAnswers, PostSession(answer)
    PROVE  Inv'
<1> USE DEF Inv
<1>1. Rests
    BY KuboReleased
    DEF PostSession, Rests, StateInv, configVars, registryVars, sessionVars,
        ipfsVars
<1>2. RunInv'
    BY DEF PostSession, Proceed, RunInv, RunTypes, CertSteps, BoundSteps,
           Uploaded, registryV2, configVars, projectVars, casVars
<1> QED
    BY <1>1, <1>2, Resting

LEMMA AddImageKeeps ==
    ASSUME Inv, NEW told \in BOOLEAN, AddImage(told)
    PROVE  Inv'
<1> USE DEF Inv
<1>1. ~registryV2
    BY DEF AddImage, RunInv, BoundSteps
<1>2. Rests
    BY KuboReleased
    DEF AddImage, addImage, Rests, StateInv, configVars, registryVars,
        sessionVars, ipfsVars
<1>3. RunInv'
    BY <1>1
    DEF AddImage, Proceed, RunInv, RunTypes, CertSteps, Uploaded, registryV2,
        configVars, projectVars, casVars, runVars
<1> QED
    BY <1>2, <1>3, Resting

\* The user, the host and the validators.
LEMMA EnvironmentKeeps ==
    ASSUME Inv, \/ KuboGoes \/ Rebuild \/ EditSettings \/ Reinstall
                \/ SurroundingsChange
    PROVE  Inv'
<1> USE DEF Inv
<1>1. Down \in KuboType /\ Down.holds = {}
    BY DEF Down, KuboType
<1>2. Rests
    BY <1>1
    DEF KuboGoes, kuboGoes, Rebuild, EditSettings, Reinstall,
        SurroundingsChange, Rests, StateInv, KuboTypes, configVars,
        registryVars, sessionVars, ipfsVars, kuboVars
<1>3. CASE KuboGoes
    BY <1>2, <1>3, Resting
    DEF KuboGoes, RunInv, RunTypes, CertSteps, BoundSteps, Registered,
        registryV2, projectVars, runVars, casVars, registryVars, configVars
<1>4. CASE Rebuild
  <2>1. build' \in Builds
      BY <1>4, PublishAssumption
      DEF Rebuild, RunInv, RunTypes, Builds, PublishAssumption
  <2>2. withCerts' \in BOOLEAN /\ active' \subseteq Indices /\ pc' = "idle"
      BY <1>4 DEF Rebuild, RunInv, RunTypes, casVars
  <2> QED
      BY <1>2, <2>1, <2>2, Resting, Ends
<1>5. CASE EditSettings \/ Reinstall \/ SurroundingsChange
  <2>1. build' \in Builds /\ withCerts' \in BOOLEAN /\ active' \subseteq Indices
        /\ pc' = "idle"
      BY <1>5 DEF EditSettings, Reinstall, SurroundingsChange, RunInv,
                  RunTypes, casVars, projectVars
  <2> QED
      BY <1>2, <2>1, Resting, Ends
<1> QED
    BY <1>3, <1>4, <1>5

\* Every step leaves the heap and the trustedzone session in their sets.
LEMMA SettingTypesKept ==
    ASSUME SettingTypes, [Next]_vars PROVE SettingTypes'
<1>1. CASE UNCHANGED <<heap, zone>>
    BY <1>1 DEF SettingTypes
<1>2. CASE Rebuild \/ EditSettings \/ SurroundingsChange
    BY <1>2
    DEF Rebuild, EditSettings, SurroundingsChange, SettingTypes, Heaps, Zones,
        casVars, projectVars
<1>3. CASE Publish \/ Steps \/ NodesCatchUp \/ NameTaken \/ Reinstall
    BY <1>1, <1>3
    DEF Publish, Steps, Render, HashForIpfs, Upload, Pin, CannotGoOn,
        WaitVisible, Harvest, CopyCerts, UploadAgain, Finish, NodesCatchUp,
        NameTaken, Reinstall, casVars, projectVars
<1>4. CASE Calls
    BY <1>1, <1>4
    DEF Calls, PostSession, Register, Reward, SetCert, LinkImage, AddImage,
        RewardV1, RegisterSession, casVars, projectVars
<1>5. CASE Faults
    BY <1>1, <1>5
    DEF Faults, KuboDoesNotStart, UploadWithoutFile, Decline, GiveUp, Fails,
        Killed, KuboGoes, casVars, projectVars
<1>6. CASE UNCHANGED vars
    BY <1>1, <1>6 DEF vars, casVars, projectVars
<1> QED
    BY <1>2, <1>3, <1>4, <1>5, <1>6 DEF Next, Environment

THEOREM InvHolds == Spec => []Inv
<1>1. Inv /\ SettingTypes /\ [Next]_vars => Inv'
  <2> SUFFICES ASSUME Inv, SettingTypes, [Next]_vars
               PROVE  Inv'
      OBVIOUS
  <2>1. CASE Publish
      BY <2>1, PublishKeeps
  <2>2. CASE Calls
      BY <2>2, RegisterKeeps, RewardKeeps, SetCertKeeps, RewardV1Keeps,
         RegisterSessionKeeps, LinkImageKeeps, PostSessionKeeps, AddImageKeeps
      DEF Calls, PostAnswers, LinkAnswers
  <2>3. CASE Steps
      BY <2>3, StepsKeep, UploadKeeps, EndingKeeps DEF Steps, Ending
  <2>4. CASE Faults
      BY <2>4, EndingKeeps, UploadKeeps, EnvironmentKeeps DEF Faults, Ending
  <2>5. CASE Environment
      BY <2>5, EnvironmentKeeps, NameTakenKeeps DEF Environment
  <2>6. CASE NodesCatchUp
      BY <2>6, NodesCatchUpKeeps
  <2>7. CASE UNCHANGED vars
    <3>1. Rests
        BY <2>7
        DEF vars, Rests, Inv, StateInv, KuboTypes, configVars, registryVars,
            sessionVars, ipfsVars, kuboVars
    <3>2. RunInv'
        BY <2>7
        DEF vars, Inv, RunInv, RunTypes, CertSteps, BoundSteps, Registered,
            registryV2, configVars, projectVars, casVars, runVars, registryVars
    <3> QED
        BY <3>1, <3>2, Resting DEF Inv
  <2> QED
      BY <2>1, <2>2, <2>3, <2>4, <2>5, <2>6, <2>7 DEF Next
<1>2. Init => Inv /\ SettingTypes
    BY Initially DEF Init, SettingTypes, Heaps, Zones
<1>3. SettingTypes /\ [Next]_vars => SettingTypes'
    BY SettingTypesKept
<1> QED
    BY <1>1, <1>2, <1>3, PTL DEF Spec

\* On a two-step registry neither the image nor its session is anywhere a
\* stranger could see it before the image name is this wallet's, whatever
\* nodes lag, calls fail and publishes are rerun (nodenithy/run.js).
THEOREM BindsFirst == Spec => []BoundBeforeDisclosed
<1>1. Inv => BoundBeforeDisclosed
    BY DEF Inv, StateInv, Bound, BoundBeforeDisclosed
<1> QED
    BY <1>1, InvHolds, PTL

\* A record never carries the certificate of another build's enclave
\* (nodenithy/run.js with its IPFS_HASH.ipfs and PUBLIC_KEY.txt).
THEOREM CertifiesItsBuild == Spec => []CertificateIsItsBuilds
<1>1. Inv => CertificateIsItsBuilds
    BY DEF Inv, StateInv
<1> QED
    BY <1>1, InvHolds, PTL

-----------------------------------------------------------------------------
(***************************************************************************)
(* The compose an image is registered with, while the surroundings stay.   *)
(***************************************************************************)
ComposeInv ==
    ~moved =>
        /\ heap = 0
        /\ pc \in {"hash", "register"} => compose = ComposeOf(build)
        /\ \A i \in Images :
              Registered(i) => images[i].compose = ComposeOf(i[1])

\* The steps that leave the records' composes alone.
ComposesRest ==
    /\ UNCHANGED <<network, active, zone, heap, moved>>
    /\ \A i \in Images : /\ images'[i].owner = images[i].owner
                         /\ images'[i].compose = images[i].compose
    /\ pc' \in {"hash", "register"} =>
          pc \in {"hash", "register"} /\ UNCHANGED <<compose, build>>

LEMMA ComposesAtRest ==
    ASSUME ComposeInv, ComposesRest PROVE ComposeInv'
<1> QED
    BY DEF ComposeInv, ComposesRest, ComposeOf, casTestnet, Registered

LEMMA CallsKeepCompose ==
    ASSUME Inv, ComposeInv, Calls PROVE ComposeInv'
<1> USE DEF Inv
<1>1. ASSUME NEW told \in BOOLEAN, Register(told)
      PROVE  ComposeInv'
  <2>1. /\ pc = "register" /\ img \in Images /\ img[1] = build
        /\ compose \in Rendered
      BY <1>1 DEF Register, RunInv, RunTypes, CertSteps, BoundSteps
  <2>2. (IF localKubo THEN kubo.id ELSE 0) \in Nat
      BY DEF StateInv, KuboTypes, KuboType, PeerIds
  <2>3. /\ \A j \in Images : \/ images'[j] = images[j]
                             \/ j = img /\ images'[j].compose = compose
        /\ UNCHANGED <<network, active, zone, heap, moved, build, compose>>
        /\ pc' \notin {"hash", "register"}
      BY <1>1, <2>1, <2>2, RegisterImage
      DEF Register, StateInv, Proceed, configVars, casVars, projectVars,
          runVars
  <2> QED
      BY <2>1, <2>3 DEF ComposeInv, ComposeOf, casTestnet, Registered
<1>2. ASSUME NEW told \in BOOLEAN,
             Reward(told) \/ SetCert(told) \/ RewardV1(told)
      PROVE  ComposesRest
  <2>1. /\ UNCHANGED <<network, active, zone, heap, moved>>
        /\ pc' \notin {"hash", "register"}
      BY <1>2 DEF Reward, SetCert, RewardV1, Proceed, configVars, casVars,
                  projectVars
  <2>2. CASE Reward(told)
    <3>1. img \in Images
        BY <2>2 DEF Reward, RunInv, RunTypes
    <3> QED
        BY <2>1, <2>2, <3>1, SetReward
        DEF Reward, ComposesRest, StateInv, registryVars
  <2>3. CASE SetCert(told)
    <3>1. img \in Images /\ cert \in Builds
        BY <2>3 DEF SetCert, RunInv, RunTypes, Uploaded
    <3> QED
        BY <2>1, <2>3, <3>1, SetImageCert DEF SetCert, ComposesRest, StateInv
  <2>4. CASE RewardV1(told)
    <3>1. img \in Images
        BY <2>4 DEF RewardV1, RunInv, RunTypes, Uploaded
    <3> QED
        BY <2>1, <2>4, <3>1, SetReward DEF RewardV1, ComposesRest, StateInv
  <2> QED
      BY <1>2, <2>2, <2>3, <2>4
<1>3. ASSUME NEW told \in BOOLEAN, AddImage(told)
      PROVE  ComposesRest
    BY <1>3
    DEF AddImage, addImage, Proceed, ComposesRest, configVars, casVars,
        projectVars, registryVars
<1>4. ASSUME NEW answer,
             \/ PostSession(answer) \/ LinkImage(answer)
             \/ RegisterSession(answer)
      PROVE  ComposesRest
    BY <1>4
    DEF PostSession, LinkImage, RegisterSession, Proceed, ComposesRest,
        configVars, casVars, projectVars, registryVars
<1> QED
    BY <1>1, <1>2, <1>3, <1>4, ComposesAtRest DEF Calls

LEMMA OthersKeepCompose ==
    ASSUME ComposeInv, [Next]_vars, ~Calls PROVE ComposeInv'
<1>1. CASE Render
    BY <1>1
    DEF Render, ComposeInv, ComposeOf, casTestnet, Registered, configVars,
        casVars, projectVars, registryVars
<1>2. CASE Publish
    BY <1>2, ComposesAtRest
    DEF Publish, ComposesRest, configVars, casVars, projectVars, registryVars
<1>3. CASE Steps /\ ~Render
  <2>1. ComposesRest
      BY <1>3
      DEF Steps, HashForIpfs, Upload, AfterUpload, Pin, CannotGoOn,
          WaitVisible, Harvest, CopyCerts, UploadAgain, Finish, Exit,
          ComposesRest, configVars, casVars, registryVars, projectVars,
          runVars
  <2> QED
      BY <2>1, ComposesAtRest
<1>4. CASE Faults
  <2>1. ComposesRest
      BY <1>4
      DEF Faults, KuboDoesNotStart, UploadWithoutFile, AfterUpload, Decline,
          GiveUp, CertDeadline, LinkDeadline, Fails, Killed, KuboGoes, Exit,
          ComposesRest, configVars, casVars, registryVars, projectVars,
          runVars
  <2> QED
      BY <2>1, ComposesAtRest
<1>5. CASE Reinstall \/ NameTaken \/ NodesCatchUp
  <2>1. ComposesRest
      BY <1>5
      DEF Reinstall, NameTaken, OtherTakesName, NodesCatchUp,
          RegistryCatchesUp, ComposesRest, configVars, casVars, registryVars,
          projectVars, runVars
  <2> QED
      BY <2>1, ComposesAtRest
<1>6. CASE Rebuild \/ EditSettings \/ SurroundingsChange
    BY <1>6
    DEF Rebuild, EditSettings, SurroundingsChange, ComposeInv, ComposeOf,
        casTestnet, Registered, configVars, casVars, registryVars
<1>7. CASE UNCHANGED vars
  <2>1. ComposesRest
      BY <1>7 DEF vars, ComposesRest, configVars, casVars, registryVars,
                  projectVars, runVars
  <2> QED
      BY <2>1, ComposesAtRest
<1> QED
    BY <1>1, <1>2, <1>3, <1>4, <1>5, <1>6, <1>7 DEF Next, Environment

\* Until the validators, the trustedzone session on chain or the heap of .env
\* change, every rerun renders the compose its image is registered with
\* (nodenithy/run.js, cas/resolver.js).
THEOREM SameCompose == Spec => []RerunsRenderTheSameCompose
<1>1. Init => ComposeInv
  <2>1. NoRecord.owner = None /\ None # Us
      BY PublishAssumption DEF NoRecord, PublishAssumption
  <2> QED
      BY <2>1 DEF Init, RegistryInit, ComposeInv, Registered
<1>2. Inv /\ ComposeInv /\ [Next]_vars => ComposeInv'
    BY CallsKeepCompose, OthersKeepCompose
<1>3. ComposeInv => RerunsRenderTheSameCompose
    BY DEF ComposeInv, RerunsRenderTheSameCompose
<1> QED
    BY <1>1, <1>2, <1>3, InvHolds, PTL DEF Spec

-----------------------------------------------------------------------------
(***************************************************************************)
(* The session the certificate is harvested with: no version of a session  *)
(* ever loses its body, and a publish goes past the registration of its    *)
(* session only when the body is there.                                    *)
(***************************************************************************)
KeepsBodies == \A b \in Builds, y \in Bodies :
                  HasBody(sessions, b, y) => HasBody(sessions', b, y)

SessionTypes == sessions \in SessionView /\ laggingSessions \in SessionView

SessionInv ==
    /\ SessionTypes
    /\ esr \in Bodies
    /\ \A b \in Builds, y \in Bodies :
          HasBody(laggingSessions, b, y) => HasBody(sessions, b, y)
    /\ casTestnet /\ pc \in {"visible", "certificate", "copy", "cert"} =>
          HasBody(sessions, build, esr)

LEMMA Appending ==
    ASSUME SessionTypes, NEW n \in Builds, NEW y \in Bodies,
           sessions' = [sessions EXCEPT ![n] =
                           Append(@, [body |-> y, image |-> None])]
    PROVE  sessions' \in SessionView /\ KeepsBodies /\ HasBody(sessions', n, y)
<1> DEFINE new == [body |-> y, image |-> None]
           after == Append(sessions[n], new)
<1>1. new \in Version /\ new.body = y
    BY DEF Version
<1>2. sessions[n] \in Seq(Version)
    BY DEF SessionTypes, SessionView
<1> HIDE DEF new
<1>3. /\ after \in Seq(Version) /\ Len(after) = Len(sessions[n]) + 1
      /\ Len(sessions[n]) \in Nat
      /\ after[Len(sessions[n]) + 1] = new
      /\ \A k \in 1 .. Len(sessions[n]) : after[k] = sessions[n][k]
    BY <1>1, <1>2
<1> HIDE DEF after
<1>4. /\ sessions' \in SessionView
      /\ \A b \in Builds : sessions'[b] = IF b = n THEN after ELSE sessions[b]
    BY <1>3 DEF SessionTypes, SessionView, after, new
<1>5. KeepsBodies
    BY <1>3, <1>4 DEF KeepsBodies, HasBody
<1>6. HasBody(sessions', n, y)
    BY <1>1, <1>3, <1>4 DEF HasBody
<1> QED
    BY <1>4, <1>5, <1>6

LEMMA Linking ==
    ASSUME SessionTypes, NEW n \in Builds, NEW i \in Images, NEW k \in Nat,
           sessions' = [sessions EXCEPT ![n][k].image = i]
    PROVE  sessions' \in SessionView /\ KeepsBodies
<1> DEFINE was == sessions[n]
           linked == [was[k] EXCEPT !.image = i]
           after == [was EXCEPT ![k] = linked]
<1>1. was \in Seq(Version)
    BY DEF SessionTypes, SessionView
<1>2. sessions' = [sessions EXCEPT ![n] = after]
    OBVIOUS
<1> HIDE DEF was
<1>3. k \in 1 .. Len(was) => linked \in Version /\ linked.body = was[k].body
  <2>1. k \in 1 .. Len(was) => was[k] \in Version
      BY <1>1
  <2> QED
      BY <2>1 DEF Version
<1> HIDE DEF linked
<1>4. /\ after \in Seq(Version) /\ Len(after) = Len(was)
      /\ \A m \in 1 .. Len(was) : after[m] = IF m = k THEN linked ELSE was[m]
  <2>1. was \in [1 .. Len(was) -> Version] /\ Len(was) \in Nat
      BY <1>1
  <2>2. after \in [1 .. Len(was) -> Version]
      BY <1>3, <2>1
  <2> QED
      BY <2>1, <2>2
<1> HIDE DEF after
<1>5. /\ sessions' \in SessionView
      /\ \A b \in Builds : sessions'[b] = IF b = n THEN after ELSE sessions[b]
    BY <1>2, <1>4 DEF SessionTypes, SessionView
<1>6. KeepsBodies
    BY <1>3, <1>4, <1>5 DEF KeepsBodies, HasBody, was
<1> QED
    BY <1>5, <1>6

\* The steps of a publish that need the body.
BodySteps == {"visible", "certificate", "copy", "cert"}

\* The bodies stay, and no step that needs one is reached from outside.
BodiesStay ==
    /\ UNCHANGED <<network, laggingSessions>>
    /\ sessions' \in SessionView /\ KeepsBodies
    /\ esr' \in Bodies
    /\ casTestnet /\ pc' \in BodySteps =>
          pc \in BodySteps /\ UNCHANGED <<build, esr>>

LEMMA Staying ==
    ASSUME SessionInv, build \in Builds, BodiesStay PROVE SessionInv'
<1>1. SessionTypes'
    BY DEF SessionInv, SessionTypes, BodiesStay
<1>2. \A b \in Builds, y \in Bodies :
         HasBody(laggingSessions', b, y) => HasBody(sessions', b, y)
    BY DEF SessionInv, BodiesStay, KeepsBodies
<1>3. casTestnet' /\ pc' \in BodySteps => HasBody(sessions', build', esr')
    BY DEF SessionInv, BodiesStay, KeepsBodies, casTestnet, BodySteps
<1> QED
    BY <1>1, <1>2, <1>3 DEF SessionInv, BodiesStay, BodySteps, HasBody

LEMMA SessionCallKeepsBodies ==
    ASSUME Inv, SessionInv, NEW answer \in {"new", "known", "failed"},
           RegisterSession(answer)
    PROVE  SessionInv'
<1>1. build \in Builds /\ esr \in Bodies /\ UNCHANGED <<network, build, esr>>
    BY DEF RegisterSession, configVars, projectVars, Inv, RunInv, RunTypes,
           SessionInv
<1>2. UNCHANGED laggingSessions
    BY DEF RegisterSession, register
<1>3. /\ sessions' \in SessionView /\ KeepsBodies
      /\ answer # "failed" => HasBody(sessions', build, esr)
  <2>1. CASE UNCHANGED sessions
    <3>1. answer # "failed" =>
             \E read \in SessionViews : IsLatest(read, build, esr)
      <4>1. CASE \E read \in SessionViews : IsLatest(read, build, esr)
          BY <4>1
      <4>2. CASE sessions' = [sessions EXCEPT ![build] =
                    Append(@, [body |-> esr, image |-> None])]
        <5>1. sessions'[build] = Append(sessions[build],
                                        [body |-> esr, image |-> None])
            BY <1>1, <4>2 DEF SessionInv, SessionTypes, SessionView
        <5>2. /\ sessions[build] \in Seq(Version)
              /\ [body |-> esr, image |-> None] \in Version
            BY <1>1 DEF SessionInv, SessionTypes, SessionView, Version
        <5>3. Len(sessions'[build]) = Len(sessions[build]) + 1
            BY <5>1, <5>2
        <5>4. Len(sessions[build]) \in Nat
            BY <5>2
        <5> QED
            BY <2>1, <5>3, <5>4
      <4> QED
          BY <4>1, <4>2 DEF RegisterSession, register
    <3>2. ASSUME NEW read \in SessionViews, IsLatest(read, build, esr)
          PROVE  HasBody(sessions, build, esr)
      <4>1. read[build] \in Seq(Version) /\ read[build] # <<>>
          BY <1>1, <3>2
          DEF SessionViews, IsLatest, SessionInv, SessionTypes, SessionView
      <4>2. Len(read[build]) \in 1 .. Len(read[build])
          BY <4>1
      <4>3. HasBody(read, build, esr)
          BY <3>2, <4>2 DEF IsLatest, HasBody
      <4> QED
          BY <1>1, <4>3 DEF SessionViews, SessionInv
    <3> QED
        BY <2>1, <3>1, <3>2 DEF SessionInv, SessionTypes, KeepsBodies
  <2>2. CASE sessions' = [sessions EXCEPT ![build] =
                             Append(@, [body |-> esr, image |-> None])]
      BY <1>1, <2>2, Appending DEF SessionInv
  <2> QED
      BY <2>1, <2>2 DEF RegisterSession, register
<1>4. pc' \in BodySteps => answer # "failed"
    BY DEF RegisterSession, Proceed, BodySteps
<1>5. SessionTypes'
    BY <1>2, <1>3 DEF SessionInv, SessionTypes
<1>6. \A b \in Builds, y \in Bodies :
         HasBody(laggingSessions', b, y) => HasBody(sessions', b, y)
    BY <1>2, <1>3 DEF SessionInv, KeepsBodies
<1> QED
    BY <1>1, <1>3, <1>4, <1>5, <1>6 DEF SessionInv, BodySteps, HasBody

LEMMA LinkKeepsBodies ==
    ASSUME Inv, SessionInv, NEW answer \in LinkAnswers, LinkImage(answer)
    PROVE  SessionInv'
<1>1. build \in Builds /\ img \in Images
    BY DEF LinkImage, Inv, RunInv, RunTypes, Uploaded
<1>2. PICK read \in SessionViews :
         \/ UNCHANGED sessions
         \/ sessions' = [sessions EXCEPT ![build][Len(read[build])].image = img]
    BY DEF LinkImage, linkImage
<1>3. Len(read[build]) \in Nat
    BY <1>1 DEF SessionViews, SessionInv, SessionTypes, SessionView
<1>4. sessions' \in SessionView /\ KeepsBodies
  <2>1. CASE UNCHANGED sessions
      BY <2>1 DEF SessionInv, SessionTypes, KeepsBodies
  <2>2. CASE sessions' =
                [sessions EXCEPT ![build][Len(read[build])].image = img]
      BY <1>1, <1>3, <2>2, Linking DEF SessionInv
  <2> QED
      BY <1>2, <2>1, <2>2
<1>5. BodiesStay
    BY <1>4
    DEF LinkImage, linkImage, Proceed, BodiesStay, BodySteps, SessionInv,
        configVars, projectVars
<1> QED
    BY <1>1, <1>5, Staying

LEMMA OthersKeepBodies ==
    ASSUME Inv, SessionInv, [Next]_vars,
           ~ \E answer \in LinkAnswers : LinkImage(answer),
           ~ \E answer \in {"new", "known", "failed"} : RegisterSession(answer)
    PROVE  SessionInv'
<1> DEFINE rests == UNCHANGED <<sessions, laggingSessions, network>>
           stays == pc' \in BodySteps /\ casTestnet =>
                       pc \in BodySteps /\ UNCHANGED <<build, esr>>
<1>1. ASSUME rests, stays, esr' \in Bodies
      PROVE  SessionInv'
    BY <1>1, Staying
    DEF BodiesStay, SessionInv, SessionTypes, KeepsBodies, Inv, RunInv, RunTypes
<1>2. esr \in Bodies
    BY DEF SessionInv
<1>3. CASE Calls
    BY <1>1, <1>2, <1>3
    DEF Calls, PostSession, Register, Reward, SetCert, AddImage, RewardV1,
        Proceed, BodySteps, LinkAnswers, configVars, projectVars, sessionVars
<1>4. CASE Publish \/ Render \/ HashForIpfs \/ Pin \/ UploadAgain \/ Finish
           \/ CannotGoOn
    BY <1>1, <1>2, <1>4
    DEF Publish, Render, HashForIpfs, Pin, UploadAgain, Finish, CannotGoOn,
        Exit, BodySteps, configVars, projectVars, sessionVars, Inv, RunInv,
        BoundSteps, casTestnet, registryV2
<1>5. CASE Upload \/ UploadWithoutFile
    BY <1>1, <1>2, <1>5
    DEF Upload, UploadWithoutFile, FileWithoutWrite, AfterUpload, BodySteps,
        configVars, projectVars, sessionVars, casTestnet, registryV2
<1>6. CASE WaitVisible \/ Harvest \/ CopyCerts
    BY <1>1, <1>2, <1>6
    DEF WaitVisible, waitVisible, Harvest, CopyCerts, BodySteps, configVars,
        projectVars, sessionVars
<1>7. CASE KuboDoesNotStart \/ Decline \/ GiveUp \/ Fails \/ Killed \/ KuboGoes
    BY <1>1, <1>2, <1>7
    DEF KuboDoesNotStart, Decline, GiveUp, LinkDeadline, Fails, Killed,
        KuboGoes, Exit, BodySteps, configVars, projectVars, sessionVars
<1>8. CASE Environment
    BY <1>1, <1>2, <1>8
    DEF Environment, Rebuild, EditSettings, Reinstall, SurroundingsChange,
        NameTaken, BodySteps, Bodies, configVars, projectVars, sessionVars
<1>9. CASE NodesCatchUp
  <2>1. /\ laggingSessions' = sessions
        /\ UNCHANGED <<sessions, network, build, esr, pc>>
      BY <1>9 DEF NodesCatchUp, SessionsCatchUp, configVars, projectVars
  <2> QED
      BY <2>1 DEF SessionInv, SessionTypes, casTestnet, HasBody
<1>10. CASE UNCHANGED vars
    BY <1>1, <1>2, <1>10
    DEF vars, configVars, projectVars, sessionVars
<1> QED
    BY <1>3, <1>4, <1>5, <1>6, <1>7, <1>8, <1>9, <1>10
    DEF Next, Steps, Faults

\* The certificate is harvested when the body it needs is a version of the
\* session on chain (cas/session_registry.js, nodenithy/run.js).
THEOREM HarvestsWithItsSession == Spec => []HarvestFindsItsSession
<1>1. Init => SessionInv
  <2>1. ASSUME NEW s, s = [n \in Builds |-> <<>>]
        PROVE  s \in SessionView /\ \A b \in Builds, y \in Bodies : ~HasBody(s, b, y)
      BY <2>1 DEF SessionView, HasBody
  <2>2. Init => /\ sessions = [n \in Builds |-> <<>>]
                /\ laggingSessions = sessions
                /\ esr \in Bodies /\ pc = "idle"
      BY DEF Init, SessionInit, Bodies
  <2> QED
      BY <2>1, <2>2 DEF SessionInv, SessionTypes
<1>2. Inv /\ SessionInv /\ [Next]_vars => SessionInv'
    BY SessionCallKeepsBodies, LinkKeepsBodies, OthersKeepBodies
<1>3. SessionInv => HarvestFindsItsSession
    BY DEF SessionInv, HarvestFindsItsSession
<1> QED
    BY <1>1, <1>2, <1>3, InvHolds, PTL DEF Spec
-----------------------------------------------------------------------------
(***************************************************************************)
(* A publish that reports success is complete: its image is recorded with  *)
(* this build's certificate, compose and reward address, the channels of a *)
(* one-step registry end with it, its session has the body and the link,   *)
(* and no container is left.                                               *)
(*                                                                         *)
(* Each part is an invariant of its own, inductive given Inv and           *)
(* SessionInv: what a lagging node answers has happened on chain and is    *)
(* not taken back (RecordsGrow), so a call that was told of success, by    *)
(* whichever node, had its effect; and the later steps of the publish keep *)
(* it (RecordedSteps, ChannelInv, LinkedInv, GoneInv).                     *)
(***************************************************************************)

\* The publish is at one of the steps S, or has succeeded since.
At(S) == pc \in S \/ succeeded

SuccessIsIdle == succeeded => pc = "idle" /\ img \in Images /\ img[1] = build

\* A record of a slower node is an earlier state of the record on chain, and
\* what a record has it keeps.
RecordsGrow ==
    \A i \in Images :
        /\ lagging.images[i].owner = Us =>
              images[i].owner = Us /\ images[i].compose = lagging.images[i].compose
        /\ lagging.images[i].cert # None =>
              images[i].cert = lagging.images[i].cert
        /\ lagging.images[i].reward => images[i].reward
        /\ images[i].cert # None => images[i].owner = Us
        /\ images[i].reward => RewardAddress
        /\ images[i].reward /\ registryV2 => images[i].owner = Us

RewardedSteps == {"upload", "session", "visible", "certificate", "copy",
                  "cert", "link", "finish"}

RecordedSteps ==
    /\ registryV2 /\ At({"reward"} \cup RewardedSteps) =>
          images[img].owner = Us /\ images[img].compose = compose
    /\ registryV2 /\ At(RewardedSteps) => images[img].reward = RewardAddress
    /\ At({"finish"}) => images[img].reward = RewardAddress
    /\ registryV2 /\ At({"link", "finish"}) => images[img].cert = build
    /\ pc \in {"cert", "link"} => registryV2
    /\ pc = "rewardV1" => RewardAddress

RecordInv == SuccessIsIdle /\ RecordsGrow /\ RecordedSteps

-----------------------------------------------------------------------------
(***************************************************************************)
(* The records.                                                            *)
(***************************************************************************)

\* A write to a record that leaves an owner, a certificate and a reward that
\* are there.
Grows(new, i) ==
    /\ images' = [images EXCEPT ![i] = new]
    /\ images[i].owner = Us => new.owner = Us /\ new.compose = images[i].compose
    /\ images[i].cert # None => new.cert = images[i].cert
    /\ images[i].reward => new.reward
    /\ new.cert # None => new.owner = Us
    /\ new.reward => RewardAddress
    /\ new.reward /\ registryV2 => new.owner = Us

LEMMA Growing ==
    ASSUME RegistryTypes, RecordsGrow, NEW i \in Images, NEW new,
           Grows(new, i), UNCHANGED <<lagging, network>>
    PROVE  RecordsGrow' /\ images'[i] = new
<1>1. \A j \in Images : images'[j] = IF j = i THEN new ELSE images[j]
    BY DEF RegistryTypes, Grows
<1> QED
    BY <1>1 DEF RecordsGrow, Grows, registryV2

LEMMA RegisterGrows ==
    ASSUME Inv, RecordsGrow, registryV2, UNCHANGED network,
           NEW i \in Images, NEW c \in Rendered, NEW p \in Nat,
           NEW told \in BOOLEAN, registerImage(i, c, p, told)
    PROVE  /\ RecordsGrow'
           /\ told => images'[i].owner = Us /\ images'[i].compose = c
<1> DEFINE new == [owner |-> Us, compose |-> c, peer |-> p, cert |-> None,
                   reward |-> FALSE]
<1>1. RegistryTypes /\ None # Us
    BY PublishAssumption DEF Inv, StateInv, PublishAssumption
<1>2. UNCHANGED lagging
    BY DEF registerImage
<1>3. CASE UNCHANGED images
  <2>1. RecordsGrow'
      BY <1>2, <1>3 DEF RecordsGrow, registryV2
  <2>2. told => \/ \E read \in Views : AlreadyRegistered(read, i, c)
                \/ images' = [images EXCEPT ![i] = new]
      BY DEF registerImage, SendRegister
  <2>3. images' = [images EXCEPT ![i] = new] => images'[i] = new
      BY <1>1 DEF RegistryTypes
  <2>4. ASSUME NEW read \in Views, AlreadyRegistered(read, i, c)
        PROVE  images[i].owner = Us /\ images[i].compose = c
      BY <2>4 DEF Views, Chain, AlreadyRegistered, RecordsGrow
  <2> QED
      BY <1>3, <2>1, <2>2, <2>3, <2>4
<1>4. CASE images' = [images EXCEPT ![i] = new] /\ images[i].owner = None
  <2>1. Grows(new, i)
      BY <1>1, <1>4 DEF Grows, RecordsGrow
  <2>2. RecordsGrow' /\ images'[i] = new
      BY <1>1, <1>2, <2>1, Growing
  <2> QED
      BY <2>2
<1> QED
    BY <1>3, <1>4 DEF registerImage, SendRegister, MayRegister, Chain

\* Told of success, the reward address is set, on chain.
LEMMA RewardGrows ==
    ASSUME Inv, RecordsGrow, RewardAddress, UNCHANGED network,
           NEW i \in Images, NEW told \in BOOLEAN,
           \/ setRewardAddress(i, told)
           \/ ~registryV2 /\ setRewardAddressV1(i, told)
    PROVE  RecordsGrow' /\ (told => images'[i].reward)
<1> DEFINE new == [images[i] EXCEPT !.reward = TRUE]
<1>1. RegistryTypes /\ images[i] \in RecordT
    BY DEF Inv, StateInv, RegistryTypes
<1>2. /\ new.reward /\ new.owner = images[i].owner
      /\ new.compose = images[i].compose /\ new.cert = images[i].cert
    BY <1>1 DEF RecordT
<1>3. UNCHANGED lagging
    BY DEF setRewardAddress, setRewardAddressV1
<1>4. CASE UNCHANGED images
  <2>1. RecordsGrow'
      BY <1>3, <1>4 DEF RecordsGrow, registryV2
  <2>2. told => \/ \E read \in Views : read.images[i].reward
                \/ images' = [images EXCEPT ![i] = new]
      BY DEF setRewardAddress, setRewardAddressV1
  <2>3. images' = [images EXCEPT ![i] = new] => images'[i].reward
      BY <1>1, <1>2 DEF RegistryTypes
  <2> QED
      BY <1>4, <2>1, <2>2, <2>3 DEF Views, Chain, RecordsGrow
<1>5. CASE /\ images' = [images EXCEPT ![i] = new]
           /\ registryV2 => images[i].owner = Us
  <2>1. Grows(new, i)
      BY <1>2, <1>5 DEF Grows, RecordsGrow
  <2>2. RecordsGrow' /\ images'[i] = new
      BY <1>1, <1>3, <2>1, Growing
  <2> QED
      BY <1>2, <2>2
<1>6. \A sim \in Views : sim.images[i].owner = Us => images[i].owner = Us
    BY DEF Views, Chain, RecordsGrow
<1> QED
    BY <1>4, <1>5, <1>6 DEF setRewardAddress, setRewardAddressV1

\* Told of success, the certificate is the record's.
LEMMA CertGrows ==
    ASSUME Inv, RecordsGrow, UNCHANGED network,
           NEW i \in Images, NEW c \in Builds, NEW told \in BOOLEAN,
           setImageCert(i, c, told)
    PROVE  /\ RecordsGrow' /\ (told => images'[i].cert = c)
           /\ images'[i].reward = images[i].reward
<1> DEFINE new == [images[i] EXCEPT !.cert = c]
<1>1. RegistryTypes /\ images[i] \in RecordT
    BY DEF Inv, StateInv, RegistryTypes
<1>2. /\ new.cert = c /\ new.owner = images[i].owner
      /\ new.compose = images[i].compose /\ new.reward = images[i].reward
    BY <1>1 DEF RecordT
<1>3. UNCHANGED lagging
    BY DEF setImageCert
<1>4. CASE UNCHANGED images
  <2>1. RecordsGrow'
      BY <1>3, <1>4 DEF RecordsGrow, registryV2
  <2>2. told => \/ \E read \in Views : /\ read.images[i].cert # None
                                       /\ read.images[i].cert = c
                \/ images' = [images EXCEPT ![i] = new]
      BY DEF setImageCert, SendCert
  <2>3. images' = [images EXCEPT ![i] = new] => images'[i].cert = c
      BY <1>1, <1>2 DEF RegistryTypes
  <2> QED
      BY <1>4, <2>1, <2>2, <2>3 DEF Views, Chain, RecordsGrow
<1>5. CASE /\ images' = [images EXCEPT ![i] = new]
           /\ images[i].owner = Us /\ images[i].cert = None
  <2>1. Grows(new, i)
      BY <1>2, <1>5 DEF Grows, RecordsGrow
  <2>2. RecordsGrow' /\ images'[i] = new
      BY <1>1, <1>3, <2>1, Growing
  <2> QED
      BY <1>2, <2>2
<1> QED
    BY <1>4, <1>5 DEF setImageCert, SendCert, Registered

\* The publish ends, or is before the registration of its image.
FallsOut == /\ ~succeeded'
            /\ pc' \notin {"reward", "rewardV1"} \cup RewardedSteps

\* The image of the publish keeps its record, and the publish its step.
StaysPut == UNCHANGED <<pc, succeeded, img, compose, build>>

LEMMA RecordsRest ==
    ASSUME RecordInv, UNCHANGED <<images, lagging, network>>,
           FallsOut \/ StaysPut
    PROVE  RecordInv'
<1>1. RecordsGrow'
    BY DEF RecordInv, RecordsGrow, registryV2
<1>2. SuccessIsIdle' /\ RecordedSteps'
    BY DEF RecordInv, SuccessIsIdle, RecordedSteps, FallsOut, StaysPut, At,
           RewardedSteps, registryV2
<1> QED
    BY <1>1, <1>2 DEF RecordInv

LEMMA RecordCalls ==
    ASSUME Inv, RecordInv, Calls PROVE RecordInv'
<1> USE DEF RecordInv
<1>1. pc # "idle" /\ ~succeeded
    BY DEF Calls, PostSession, Register, Reward, SetCert, LinkImage, AddImage,
           RewardV1, RegisterSession, SuccessIsIdle
<1>2. ASSUME NEW told \in BOOLEAN, Register(told)
      PROVE  RecordInv'
  <2>1. /\ pc = "register" /\ img \in Images /\ compose \in Rendered
        /\ registryV2
      BY <1>2 DEF Register, Inv, RunInv, RunTypes, CertSteps
  <2>2. (IF localKubo THEN kubo.id ELSE 0) \in Nat
      BY DEF Inv, StateInv, KuboTypes, KuboType, PeerIds
  <2>3. UNCHANGED <<network, img, compose, succeeded>>
        /\ pc' = IF told THEN "reward" ELSE "idle"
      BY <1>2 DEF Register, Proceed, configVars, runVars
  <2>4. RecordsGrow' /\ (told => images'[img].owner = Us
                                 /\ images'[img].compose = compose)
      BY <1>2, <2>1, <2>2, <2>3, RegisterGrows DEF Register
  <2> QED
      BY <1>1, <2>3, <2>4
      DEF SuccessIsIdle, RecordedSteps, At, RewardedSteps
<1>3. ASSUME NEW told \in BOOLEAN, Reward(told)
      PROVE  RecordInv'
  <2>1. /\ pc = "reward" /\ img \in Images /\ registryV2
        /\ images \in [Images -> RecordT]
      BY <1>3 DEF Reward, Inv, StateInv, RegistryTypes, RunInv, RunTypes,
                  CertSteps
  <2>2. UNCHANGED <<network, img, compose, succeeded>>
        /\ pc' = IF told THEN "upload" ELSE "idle"
      BY <1>3 DEF Reward, Proceed, configVars, runVars
  <2>3. images[img].owner = Us /\ images[img].compose = compose
      BY <2>1 DEF RecordedSteps, At
  <2>4. CASE RewardAddress
    <3>1. RecordsGrow' /\ (told => images'[img].reward)
        BY <1>3, <2>1, <2>2, <2>4, RewardGrows DEF Reward
    <3>2. /\ images' \in [Images -> RecordT]
          /\ images'[img].owner = Us /\ images'[img].compose = compose
        BY <1>3, <2>1, <2>3, <2>4, SetReward
        DEF Reward, Inv, StateInv, RegistryTypes
    <3>3. images'[img].reward \in BOOLEAN
        BY <2>1, <3>2 DEF RecordT
    <3> QED
        BY <1>1, <2>2, <2>4, <3>1, <3>2, <3>3
        DEF SuccessIsIdle, RecordedSteps, At, RewardedSteps, Reward
  <2>5. CASE ~RewardAddress
    <3>1. UNCHANGED <<images, lagging>>
        BY <1>3, <2>5 DEF Reward, registryVars
    <3>2. images[img].reward = RewardAddress
        BY <2>1, <2>5, PublishAssumption
        DEF RecordsGrow, RecordT, PublishAssumption
    <3> QED
        BY <1>1, <2>2, <2>3, <3>1, <3>2
        DEF SuccessIsIdle, RecordsGrow, RecordedSteps, At, RewardedSteps,
            registryV2
  <2> QED
      BY <2>4, <2>5
<1>4. ASSUME NEW told \in BOOLEAN, SetCert(told)
      PROVE  RecordInv'
  <2>1. /\ pc = "cert" /\ img \in Images /\ cert = build /\ build \in Builds
        /\ registryV2
      BY <1>4 DEF SetCert, Inv, RunInv, RunTypes, CertSteps, Uploaded,
                  RecordedSteps
  <2>2. UNCHANGED <<network, img, compose, succeeded, build>>
        /\ pc' \in IF told THEN {"link", "finish"} ELSE {"idle"}
      BY <1>4 DEF SetCert, Proceed, configVars, runVars, projectVars
  <2>3. /\ images[img].owner = Us /\ images[img].compose = compose
        /\ images[img].reward = RewardAddress
      BY <2>1 DEF RecordedSteps, At, RewardedSteps
  <2>4. /\ RecordsGrow' /\ (told => images'[img].cert = build)
        /\ images'[img].reward = RewardAddress
      BY <1>4, <2>1, <2>2, <2>3, CertGrows DEF SetCert
  <2>5. images'[img].owner = Us /\ images'[img].compose = compose
      BY <1>4, <2>1, <2>3, SetImageCert DEF SetCert, Inv, StateInv
  <2> QED
      BY <1>1, <2>1, <2>2, <2>4, <2>5
      DEF SuccessIsIdle, RecordedSteps, At, RewardedSteps, registryV2
<1>5. ASSUME NEW told \in BOOLEAN, RewardV1(told)
      PROVE  RecordInv'
  <2>1. /\ pc = "rewardV1" /\ img \in Images /\ ~registryV2
        /\ images \in [Images -> RecordT]
      BY <1>5 DEF RewardV1, Inv, StateInv, RegistryTypes, RunInv, RunTypes,
                  BoundSteps, Uploaded
  <2>2. UNCHANGED <<network, img, compose, succeeded>>
        /\ pc' = IF told THEN "finish" ELSE "idle"
      BY <1>5 DEF RewardV1, Proceed, configVars, runVars
  <2>3. RewardAddress
      BY <2>1 DEF RecordedSteps
  <2>4. RecordsGrow' /\ (told => images'[img].reward)
      BY <1>5, <2>1, <2>2, <2>3, RewardGrows DEF RewardV1
  <2>5. images' \in [Images -> RecordT]
      BY <1>5, <2>1, SetReward DEF RewardV1, Inv, StateInv, RegistryTypes
  <2>6. images'[img].reward \in BOOLEAN
      BY <2>1, <2>5 DEF RecordT
  <2> QED
      BY <1>1, <2>1, <2>2, <2>3, <2>4, <2>6
      DEF SuccessIsIdle, RecordedSteps, At, RewardedSteps, registryV2
<1>6. ASSUME NEW told \in BOOLEAN, AddImage(told)
      PROVE  RecordInv'
  <2>1. ~registryV2
      BY <1>6 DEF AddImage, Inv, RunInv, BoundSteps
  <2>2. UNCHANGED <<network, img, compose, succeeded, images, lagging>>
      BY <1>6 DEF AddImage, addImage, Proceed, configVars, runVars,
                  registryVars
  <2>3. pc' = "finish" => ~RewardAddress /\ img \in Images
      BY <1>6 DEF AddImage, Proceed, Inv, RunInv, RunTypes, Uploaded
  <2>4. pc' = "finish" => images[img].reward = RewardAddress
      BY <2>3, PublishAssumption
      DEF RecordsGrow, RecordT, PublishAssumption, Inv, StateInv,
          RegistryTypes
  <2>5. pc' \in {"finish", "version", "rewardV1", "idle"}
        /\ (pc' = "rewardV1" => RewardAddress)
      BY <1>6 DEF AddImage, Proceed
  <2> QED
      BY <1>1, <2>1, <2>2, <2>4, <2>5
      DEF SuccessIsIdle, RecordsGrow, RecordedSteps, At, RewardedSteps,
          registryV2
<1>7. ASSUME NEW answer \in LinkAnswers, LinkImage(answer)
      PROVE  RecordInv'
    BY <1>1, <1>7
    DEF LinkImage, Proceed, SuccessIsIdle, RecordsGrow, RecordedSteps, At,
        RewardedSteps, registryV2, configVars, runVars, registryVars,
        projectVars
<1>8. ASSUME NEW answer \in {"new", "known", "failed"},
             RegisterSession(answer)
      PROVE  RecordInv'
    BY <1>1, <1>8
    DEF RegisterSession, Proceed, SuccessIsIdle, RecordsGrow, RecordedSteps,
        At, RewardedSteps, registryV2, configVars, runVars, registryVars,
        projectVars
<1>9. ASSUME NEW answer \in PostAnswers, PostSession(answer)
      PROVE  RecordInv'
  <2>1. FallsOut
      BY <1>1, <1>9 DEF PostSession, Proceed, FallsOut, RewardedSteps
  <2> QED
      BY <1>9, <2>1, RecordsRest DEF PostSession, configVars, registryVars
<1> QED
    BY <1>2, <1>3, <1>4, <1>5, <1>6, <1>7, <1>8, <1>9
    DEF Calls, PostAnswers, LinkAnswers

\* The steps that go on without a call: they leave the records alone.
LEMMA RecordSteps ==
    ASSUME Inv, RecordInv, Steps, ~CannotGoOn, ~Finish PROVE RecordInv'
<1> USE DEF RecordInv
<1>1. pc # "idle" /\ ~succeeded
    BY DEF Steps, Render, HashForIpfs, Upload, Pin, WaitVisible, Harvest,
           CopyCerts, UploadAgain, SuccessIsIdle
<1>2. UNCHANGED <<images, lagging, network, succeeded, build>>
    BY DEF Steps, Render, HashForIpfs, Upload, Pin, WaitVisible, Harvest,
           CopyCerts, UploadAgain, registryVars, configVars, projectVars
<1>3. SuccessIsIdle' /\ RecordsGrow'
    BY <1>1, <1>2 DEF SuccessIsIdle, RecordsGrow, registryV2
<1>4. registryV2 /\ pc' \in RewardedSteps =>
         pc \in RewardedSteps /\ pc # "link" /\ UNCHANGED <<img, compose>>
    BY DEF Steps, Render, HashForIpfs, Upload, AfterUpload, Pin, WaitVisible,
           Harvest, CopyCerts, UploadAgain, RewardedSteps, runVars, Inv,
           RunInv, BoundSteps, registryV2
<1>5. /\ pc' \notin {"reward", "rewardV1", "link", "finish"}
      /\ pc' = "cert" => registryV2
    BY DEF Steps, Render, HashForIpfs, Upload, AfterUpload, Pin, WaitVisible,
           Harvest, CopyCerts, UploadAgain
<1>6. RecordedSteps'
    BY <1>1, <1>2, <1>4, <1>5 DEF RecordedSteps, At, registryV2
<1> QED
    BY <1>3, <1>6

LEMMA RecordOthers ==
    ASSUME Inv, RecordInv, [Next]_vars, ~Calls PROVE RecordInv'
<1>1. CASE Publish \/ Rebuild \/ EditSettings
    BY <1>1, RecordsRest
    DEF Publish, Rebuild, EditSettings, FallsOut, RewardedSteps, configVars,
        registryVars
<1>2. CASE Steps /\ ~CannotGoOn /\ ~Finish
    BY <1>2, RecordSteps
<1>3. CASE Finish
    BY <1>3
    DEF Finish, Exit, Inv, RunInv, RunTypes, CertSteps, Uploaded, RecordInv,
        SuccessIsIdle, RecordsGrow, RecordedSteps, At, RewardedSteps,
        registryV2, configVars, projectVars, runVars, registryVars
<1>4. CASE CannotGoOn \/ UploadWithoutFile \/ Decline \/ GiveUp \/ Fails
           \/ Killed
  <2>1. FallsOut
      BY <1>4
      DEF CannotGoOn, UploadWithoutFile, FileWithoutWrite, Decline, GiveUp,
          Fails, Killed, Exit, FallsOut, RewardedSteps, RecordInv,
          SuccessIsIdle
  <2> QED
      BY <1>4, <2>1, RecordsRest
      DEF CannotGoOn, UploadWithoutFile, Decline, GiveUp, CertDeadline, Fails,
          Killed, configVars, registryVars
<1>5. CASE KuboDoesNotStart \/ KuboGoes \/ Reinstall \/ SurroundingsChange
           \/ NameTaken \/ UNCHANGED vars
    BY <1>5, RecordsRest
    DEF KuboDoesNotStart, KuboGoes, Reinstall, SurroundingsChange, NameTaken,
        OtherTakesName, vars, StaysPut, configVars, projectVars, runVars,
        registryVars
<1>6. CASE NodesCatchUp
  <2>1. /\ lagging' = Chain
        /\ UNCHANGED <<images, network, pc, succeeded, img, compose, build>>
      BY <1>6
      DEF NodesCatchUp, RegistryCatchesUp, configVars, projectVars, runVars
  <2> QED
      BY <2>1
      DEF Chain, RecordInv, SuccessIsIdle, RecordsGrow, RecordedSteps, At,
          registryV2
<1> QED
    BY <1>1, <1>2, <1>3, <1>4, <1>5, <1>6
    DEF Next, Steps, Faults, Environment

-----------------------------------------------------------------------------
(***************************************************************************)
(* The channels of a one-step registry, in the order of the builds.        *)
(***************************************************************************)
Last0 == Len(channels[0])

\* The tree a build is registered with: it holds the certificate files.
Tree(b) == <<b, TRUE>>

ChannelInv ==
    /\ channels \in [0 .. MaxBuilds -> Seq(Images)]
    /\ \A n \in 1 .. Last0 :
          /\ channels[0][n] = Tree(channels[0][n][1])
          /\ channels[0][n][1] <= build
          /\ n < Last0 => channels[0][n][1] < channels[0][Last0][1]
    /\ pc = "again" => <<build, withCerts>> = Tree(build)
    /\ pc \in {"v3", "version"} => img = Tree(build)
    /\ pc \in {"version", "rewardV1"} \/ (~registryV2 /\ At({"finish"})) =>
          Last0 > 0 /\ channels[0][Last0] = img
    /\ pc = "rewardV1" \/ (~registryV2 /\ At({"finish"})) => Holds(build, img)

\* The publish is not past its uploads, or it keeps its step.
ChannelsRest ==
    /\ UNCHANGED <<network, channels>>
    /\ \/ UNCHANGED <<pc, succeeded, build, withCerts, img>>
       \/ /\ build' \in {build, build + 1} /\ ~succeeded'
          /\ pc' \notin {"again", "v3", "version", "rewardV1"}
          /\ pc' = "finish" => registryV2

LEMMA ChannelsAtRest ==
    ASSUME ChannelInv, build \in Builds, ChannelsRest PROVE ChannelInv'
<1>1. build \in Nat /\ build' \in Nat /\ build <= build'
    BY PublishAssumption DEF Builds, PublishAssumption, ChannelsRest
<1>2. \A n \in 1 .. Last0 : channels[0][n] \in Images
    BY PublishAssumption DEF ChannelInv, Last0, PublishAssumption
<1>3. \A n \in 1 .. Last0 : channels[0][n][1] \in Nat
    BY <1>2, PublishAssumption DEF Images, Builds, PublishAssumption
<1>4. /\ channels' = channels /\ Last0' = Last0 /\ registryV2' = registryV2
    BY DEF ChannelsRest, Last0, registryV2
<1>5. \A n \in 1 .. Last0 : channels[0][n][1] <= build'
    BY <1>1, <1>3 DEF ChannelInv
<1>6. /\ channels' \in [0 .. MaxBuilds -> Seq(Images)]
      /\ \A n \in 1 .. Last0' :
            /\ channels'[0][n] = Tree(channels'[0][n][1])
            /\ channels'[0][n][1] <= build'
            /\ n < Last0' => channels'[0][n][1] < channels'[0][Last0'][1]
    BY <1>4, <1>5 DEF ChannelInv
<1>7. CASE UNCHANGED <<pc, succeeded, build, withCerts, img>>
    BY <1>4, <1>6, <1>7 DEF ChannelInv, At, Holds
<1>8. CASE ~UNCHANGED <<pc, succeeded, build, withCerts, img>>
    BY <1>4, <1>6, <1>8 DEF ChannelInv, ChannelsRest, At
<1> QED
    BY <1>7, <1>8

\* The tree of the last build goes after those of all earlier ones, and a
\* channel that holds it ends with it.
LEMMA AddImageKeepsOrder ==
    ASSUME Inv, RecordInv, ChannelInv, NEW told \in BOOLEAN, AddImage(told)
    PROVE  ChannelInv'
<1> DEFINE c == IF pc = "v3" THEN 0 ELSE build
           after == Append(channels[c], img)
           was == channels[0]
<1>1. /\ pc \in {"v3", "version"} /\ ~succeeded
      /\ img = Tree(build) /\ img \in Images
      /\ img[1] = build
      /\ build \in 1 .. MaxBuilds /\ c \in 0 .. MaxBuilds
      /\ ~registryV2
  <2>1. /\ pc \in {"v3", "version"} /\ ~succeeded /\ img = Tree(build)
      BY DEF AddImage, RecordInv, SuccessIsIdle, ChannelInv
  <2>2. /\ img \in Images /\ img[1] = build /\ ~registryV2
        /\ build \in 1 .. MaxBuilds
      BY <2>1 DEF Inv, RunInv, RunTypes, BoundSteps, CertSteps, Uploaded,
                  Builds
  <2> QED
      BY <2>1, <2>2, PublishAssumption DEF PublishAssumption
<1>2. /\ UNCHANGED <<network, img, build, withCerts, succeeded>>
      /\ \/ ~told /\ pc' = "idle"
         \/ told /\ pc = "v3" /\ pc' = "version"
         \/ told /\ pc = "version" /\ pc' \in {"rewardV1", "finish"}
  <2>1. /\ UNCHANGED <<network, img, build, withCerts, succeeded>>
        /\ ~told => pc' = "idle"
      BY DEF AddImage, Proceed, configVars, runVars, projectVars
  <2>2. told /\ pc = "v3" => pc' = "version"
      BY DEF AddImage, Proceed
  <2>3. told /\ pc = "version" => pc' \in {"rewardV1", "finish"}
      BY DEF AddImage, Proceed
  <2> QED
      BY <1>1, <2>1, <2>2, <2>3
<1>3. channels[c] \in Seq(Images) /\ was \in Seq(Images)
    BY <1>1, PublishAssumption DEF ChannelInv, PublishAssumption
<1>4. /\ after \in Seq(Images) /\ Len(after) = Len(channels[c]) + 1
      /\ after[Len(after)] = img
      /\ \A n \in 1 .. Len(channels[c]) : after[n] = channels[c][n]
    BY <1>1, <1>3
<1>5. Len(was) \in Nat /\ \A n \in 1 .. Len(was) : was[n] \in Images
    BY <1>3
<1>6. \A n \in 1 .. Len(was) : was[n][1] \in Nat
    BY <1>5 DEF Images, Builds
<1> HIDE DEF after
<1>7. CASE Holds(c, img)
  <2>1. channels' = channels /\ told = TRUE
      BY <1>7 DEF AddImage, addImage
  <2>2. pc = "v3" => Len(was) > 0 /\ was[Len(was)] = img
    <3> SUFFICES ASSUME pc = "v3"
                 PROVE  Len(was) > 0 /\ was[Len(was)] = img
        OBVIOUS
    <3>1. PICK n \in 1 .. Len(was) : was[n] = img
        BY <1>7 DEF Holds
    <3>2. Len(was) \in 1 .. Len(was)
        BY <1>5, <3>1
    <3>3. ~(n < Len(was))
        BY <1>1, <1>6, <3>1, <3>2 DEF ChannelInv, Last0
    <3> QED
        BY <1>5, <3>1, <3>3
  <2>3. pc = "version" => Holds(build, img)
      BY <1>7
  <2> QED
      BY <1>1, <1>2, <2>1, <2>2, <2>3
      DEF ChannelInv, Last0, At, Holds, registryV2
<1>8. CASE ~Holds(c, img) /\ pc = "version"
  <2>1. channels' = [channels EXCEPT ![build] = after]
      BY <1>8 DEF AddImage, addImage, after
  <2>2. channels' \in [0 .. MaxBuilds -> Seq(Images)]
      BY <1>3, <1>4, <2>1 DEF ChannelInv
  <2>3. channels'[0] = was /\ channels'[build] = after
      BY <1>1, <2>1 DEF ChannelInv
  <2>4. Holds(build, img)'
      BY <1>2, <1>3, <1>4, <1>8, <2>3 DEF Holds
  <2> QED
      BY <1>1, <1>2, <1>8, <2>2, <2>3, <2>4
      DEF ChannelInv, Last0, At, registryV2
<1>9. CASE ~Holds(c, img) /\ pc = "v3"
  <2>1. channels' = [channels EXCEPT ![0] = after]
      BY <1>9 DEF AddImage, addImage, after
  <2>2. channels' \in [0 .. MaxBuilds -> Seq(Images)]
      BY <1>3, <1>4, <2>1 DEF ChannelInv
  <2>3. channels'[0] = after /\ Last0' = Len(was) + 1
      BY <1>1, <1>4, <1>9, <2>1, PublishAssumption
      DEF ChannelInv, Last0, PublishAssumption
  <2>4. \A n \in 1 .. Len(was) : was[n][1] < build /\ was[n] = Tree(was[n][1])
    <3>1. \A n \in 1 .. Len(was) : was[n] # img
        BY <1>9 DEF Holds
    <3>2. \A n \in 1 .. Len(was) : was[n][1] <= build /\ was[n] = Tree(was[n][1])
        BY DEF ChannelInv, Last0
    <3> QED
        BY <1>1, <1>6, <3>1, <3>2
  <2>5. \A n \in 1 .. Last0' :
           /\ channels'[0][n] = Tree(channels'[0][n][1])
           /\ channels'[0][n][1] <= build
           /\ n < Last0' => channels'[0][n][1] < channels'[0][Last0'][1]
    <3> SUFFICES ASSUME NEW n \in 1 .. Len(was) + 1
                 PROVE  /\ after[n] = Tree(after[n][1])
                        /\ after[n][1] <= build
                        /\ n < Len(was) + 1 => after[n][1] < build
        BY <1>1, <1>4, <1>9, <2>3
    <3>1. CASE n = Len(was) + 1
        BY <1>1, <1>4, <1>5, <1>9, <3>1
    <3>2. CASE n \in 1 .. Len(was)
        BY <1>1, <1>4, <1>5, <1>6, <1>9, <2>4, <3>2
    <3> QED
        BY <1>5, <3>1, <3>2
  <2> QED
      BY <1>1, <1>2, <1>4, <1>5, <1>9, <2>2, <2>3, <2>5
      DEF ChannelInv, Last0, At, registryV2
<1> QED
    BY <1>1, <1>7, <1>8, <1>9

LEMMA ChannelsKept ==
    ASSUME Inv, RecordInv, ChannelInv, [Next]_vars,
           ~ \E told \in BOOLEAN : AddImage(told)
    PROVE  ChannelInv'
<1> DEFINE stays == UNCHANGED <<pc, succeeded, build, withCerts, img>>
           falls == /\ build' \in {build, build + 1} /\ ~succeeded'
                    /\ pc' \notin {"again", "v3", "version", "rewardV1"}
                    /\ pc' = "finish" => registryV2
<1>1. build \in Builds
    BY DEF Inv, RunInv, RunTypes
<1>2. ASSUME UNCHANGED <<network, channels>>, stays \/ falls
      PROVE  ChannelInv'
    BY <1>1, <1>2, ChannelsAtRest DEF ChannelsRest
<1>3. pc # "idle" => ~succeeded
    BY DEF RecordInv, SuccessIsIdle
<1>4. ASSUME NEW told \in BOOLEAN, RewardV1(told)
      PROVE  ChannelInv'
  <2>1. UNCHANGED <<network, channels, build, img, withCerts, succeeded>>
        /\ pc = "rewardV1" /\ pc' \in {"idle", "finish"}
      BY <1>4 DEF RewardV1, setRewardAddressV1, Proceed, configVars,
                  projectVars, runVars
  <2> QED
      BY <1>3, <2>1 DEF ChannelInv, Last0, At, Holds, registryV2
<1>5. ASSUME NEW told \in BOOLEAN,
             Register(told) \/ Reward(told) \/ SetCert(told)
      PROVE  ChannelInv'
  <2>1. UNCHANGED <<network, channels>>
      BY <1>5 DEF Register, registerImage, Reward, setRewardAddress, SetCert,
                  setImageCert, configVars, registryVars
  <2>2. falls
      BY <1>3, <1>5 DEF Register, Reward, SetCert, Proceed, projectVars,
                  RecordInv, RecordedSteps
  <2> QED
      BY <1>2, <2>1, <2>2
<1>6. ASSUME NEW answer,
             \/ PostSession(answer) \/ LinkImage(answer)
             \/ RegisterSession(answer)
      PROVE  ChannelInv'
  <2>1. UNCHANGED <<network, channels>>
      BY <1>6 DEF PostSession, LinkImage, RegisterSession, configVars,
                  registryVars
  <2>2. falls
      BY <1>3, <1>6 DEF PostSession, LinkImage, RegisterSession, Proceed,
                  projectVars, RecordInv, RecordedSteps
  <2> QED
      BY <1>2, <2>1, <2>2
<1>7. CASE CopyCerts
  <2>1. /\ UNCHANGED <<network, channels, build, succeeded>>
        /\ withCerts' = TRUE /\ ~succeeded'
        /\ pc' \in {"cert", "again"}
      BY <1>3, <1>7 DEF CopyCerts, configVars, registryVars
  <2>2. <<build', withCerts'>> = Tree(build')
      BY <2>1 DEF Tree
  <2> QED
      BY <2>1, <2>2 DEF ChannelInv, Last0, At, registryV2
<1>8. CASE UploadAgain
  <2>1. /\ UNCHANGED <<network, channels, build, withCerts, succeeded>>
        /\ pc = "again" /\ pc' = "v3" /\ img' = <<build, withCerts>>
      BY <1>8 DEF UploadAgain, configVars, registryVars, projectVars
  <2> QED
      BY <1>3, <2>1 DEF ChannelInv, Last0, At, registryV2
<1>9. CASE Finish
  <2>1. /\ UNCHANGED <<network, channels, build, img>>
        /\ pc = "finish" /\ pc' = "idle"
      BY <1>9 DEF Finish, Exit, configVars, registryVars, projectVars, runVars
  <2> QED
      BY <2>1 DEF ChannelInv, Last0, At, Holds, registryV2
<1>10. CASE Steps /\ ~CopyCerts /\ ~UploadAgain /\ ~Finish
    BY <1>2, <1>3, <1>10
    DEF Steps, Render, HashForIpfs, Upload, AfterUpload, Pin, CannotGoOn,
        WaitVisible, Harvest, Exit, configVars, registryVars, projectVars
<1>11. CASE Publish \/ Rebuild \/ EditSettings
    BY <1>2, <1>11
    DEF Publish, Rebuild, EditSettings, configVars, registryVars, projectVars
<1>12. CASE UploadWithoutFile \/ Decline \/ GiveUp \/ Fails \/ Killed
    BY <1>2, <1>3, <1>12
    DEF UploadWithoutFile, FileWithoutWrite, Decline, GiveUp, CertDeadline,
        Fails, Killed, Exit, configVars, registryVars, projectVars
<1>13. CASE KuboDoesNotStart \/ KuboGoes \/ Reinstall \/ SurroundingsChange
            \/ NameTaken \/ NodesCatchUp \/ UNCHANGED vars
    BY <1>2, <1>13
    DEF KuboDoesNotStart, KuboGoes, Reinstall, SurroundingsChange, NameTaken,
        OtherTakesName, NodesCatchUp, RegistryCatchesUp, vars, configVars,
        registryVars, projectVars, runVars
<1> QED
    BY <1>4, <1>5, <1>6, <1>7, <1>8, <1>9, <1>10, <1>11, <1>12, <1>13
    DEF Next, Calls, Faults, Environment

-----------------------------------------------------------------------------
(***************************************************************************)
(* The session and its link.  A name that has one version has it as the    *)
(* latest wherever a node reports one.                                     *)
(***************************************************************************)
LinkedInv ==
    /\ \A b \in Builds : Len(laggingSessions[b]) <= Len(sessions[b])
    /\ casTestnet /\ At({"link", "finish"}) => HasBody(sessions, build, esr)
    /\ /\ casTestnet /\ At({"finish"})
       /\ Len(sessions[build]) = 1
       => sessions[build][1].image = img

LEMMA LinkedAtRest ==
    ASSUME SessionInv, LinkedInv,
           UNCHANGED <<network, sessions, laggingSessions>>,
           \/ UNCHANGED <<pc, succeeded, build, img, esr>>
           \/ ~succeeded' /\ pc' \notin {"link", "finish"}
           \/ ~casTestnet
    PROVE  LinkedInv'
<1> QED
    BY DEF LinkedInv, At, HasBody, casTestnet, registryV2

LEMMA RegisterSessionLinked ==
    ASSUME Inv, RecordInv, SessionInv, LinkedInv,
           NEW answer \in {"new", "known", "failed"}, RegisterSession(answer)
    PROVE  LinkedInv'
<1>1. build \in Builds /\ esr \in Bodies
    BY DEF Inv, RunInv, RunTypes, SessionInv
<1>2. /\ UNCHANGED <<network, laggingSessions>>
      /\ ~succeeded' /\ pc' \notin {"link", "finish"}
    BY DEF RegisterSession, register, Proceed, configVars, RecordInv,
           SuccessIsIdle
<1>3. \A b \in Builds : /\ sessions[b] \in Seq(Version)
                       /\ laggingSessions[b] \in Seq(Version)
    BY DEF SessionInv, SessionTypes, SessionView
<1>4. \A b \in Builds : Len(sessions[b]) <= Len(sessions'[b])
  <2>1. CASE UNCHANGED sessions
      BY <1>3, <2>1
  <2>2. CASE sessions' = [sessions EXCEPT ![build] =
                             Append(@, [body |-> esr, image |-> None])]
    <3> DEFINE new == [body |-> esr, image |-> None]
    <3>1. new \in Version
        BY <1>1 DEF Version
    <3> HIDE DEF new
    <3> DEFINE after == Append(sessions[build], new)
    <3>2. /\ Len(after) = Len(sessions[build]) + 1
          /\ Len(sessions[build]) \in Nat
        BY <1>1, <1>3, <3>1
    <3> HIDE DEF after
    <3>3. \A b \in Builds : sessions'[b] = IF b = build
                                          THEN after ELSE sessions[b]
        BY <1>1, <2>2 DEF SessionInv, SessionTypes, SessionView, new, after
    <3>4. \A b \in Builds : Len(sessions[b]) \in Nat
        BY <1>3
    <3> QED
        BY <3>2, <3>3, <3>4
  <2> QED
      BY <2>1, <2>2 DEF RegisterSession, register
<1>5. \A b \in Builds : Len(sessions'[b]) \in Nat
    BY SessionCallKeepsBodies DEF SessionInv, SessionTypes, SessionView
<1>6. \A b \in Builds : Len(laggingSessions'[b]) <= Len(sessions'[b])
    BY <1>2, <1>3, <1>4, <1>5 DEF LinkedInv
<1> QED
    BY <1>2, <1>6 DEF LinkedInv, At

\* A call that is refused ends the publish, and nothing is linked.
LEMMA LinkImageRefused ==
    ASSUME RecordInv, SessionInv, LinkedInv, LinkImage("refused")
    PROVE  LinkedInv'
<1>1. UNCHANGED <<network, sessions, laggingSessions>>
    BY DEF LinkImage, linkImage, configVars
<1>2. ~succeeded' /\ pc' \notin {"link", "finish"}
    BY DEF LinkImage, Proceed, RecordInv, SuccessIsIdle
<1> QED
    BY <1>1, <1>2, LinkedAtRest

\* What a publish links is the latest version some node reports.
LEMMA LinkImageLinks ==
    ASSUME Inv, RecordInv, SessionInv, LinkedInv,
           NEW answer \in {"linked", "lost"}, LinkImage(answer)
    PROVE  LinkedInv'
<1>1. /\ build \in Builds /\ img \in Images /\ pc = "link" /\ registryV2
      /\ ~succeeded
    BY DEF LinkImage, Inv, RunInv, RunTypes, Uploaded, RecordInv,
           RecordedSteps, SuccessIsIdle
<1>2. PICK read \in SessionViews :
         /\ read[build] # <<>>
         /\ sessions' = [sessions EXCEPT ![build][Len(read[build])].image = img]
    BY DEF LinkImage, linkImage
<1> DEFINE was == sessions[build]
           k == Len(read[build])
           linked == [was[k] EXCEPT !.image = img]
<1>3. /\ UNCHANGED <<network, laggingSessions, build, esr, img, succeeded>>
      /\ pc' \in {"idle", "finish"}
    BY DEF LinkImage, linkImage, Proceed, configVars, projectVars, runVars
<1>4. \A b \in Builds : /\ sessions[b] \in Seq(Version)
                       /\ laggingSessions[b] \in Seq(Version)
    BY DEF SessionInv, SessionTypes, SessionView
<1>5. k \in Nat /\ 1 <= k /\ k <= Len(was) /\ Len(was) \in Nat
  <2>1. read[build] \in Seq(Version)
      BY <1>1, <1>4 DEF SessionViews
  <2>2. Len(read[build]) \in Nat \ {0}
      BY <1>2, <2>1
  <2>3. read[build] = was \/ read[build] = laggingSessions[build]
      BY DEF SessionViews
  <2>4. Len(laggingSessions[build]) <= Len(was)
      BY <1>1 DEF LinkedInv
  <2>5. Len(was) \in Nat
      BY <1>1, <1>4
  <2> QED
      BY <2>2, <2>3, <2>4, <2>5
<1>6. was[k] \in Version
    BY <1>1, <1>4, <1>5
<1>7. linked.image = img
    BY <1>6 DEF Version
<1>8. /\ sessions'[build] = [was EXCEPT ![k] = linked]
      /\ \A b \in Builds : b # build => sessions'[b] = sessions[b]
    BY <1>1, <1>2 DEF SessionInv, SessionTypes, SessionView
<1> HIDE DEF linked, k
<1>9. /\ Len(sessions'[build]) = Len(was) /\ sessions'[build][k] = linked
  <2>1. was \in [1 .. Len(was) -> Version]
      BY <1>1, <1>4
  <2> QED
      BY <1>4, <1>5, <1>8, <2>1
<1>10. \A b \in Builds : Len(laggingSessions'[b]) <= Len(sessions'[b])
    BY <1>3, <1>8, <1>9 DEF LinkedInv
<1>11. KeepsBodies
    BY <1>1, <1>2, <1>5, Linking DEF SessionInv, k
<1>12. casTestnet => HasBody(sessions', build, esr)
    BY <1>1, <1>11 DEF LinkedInv, At, KeepsBodies, SessionInv
<1>13. Len(sessions'[build]) = 1 => sessions'[build][1].image = img
    BY <1>5, <1>7, <1>9
<1> QED
    BY <1>1, <1>3, <1>10, <1>12, <1>13
    DEF LinkedInv, At, HasBody, casTestnet, registryV2

LEMMA LinkedKept ==
    ASSUME Inv, RecordInv, SessionInv, LinkedInv, [Next]_vars,
           ~ \E answer \in LinkAnswers : LinkImage(answer),
           ~ \E answer \in {"new", "known", "failed"} : RegisterSession(answer)
    PROVE  LinkedInv'
<1> DEFINE rests == UNCHANGED <<network, sessions, laggingSessions>>
           stays == UNCHANGED <<pc, succeeded, build, img, esr>>
           falls == ~succeeded' /\ pc' \notin {"link", "finish"}
<1>1. ASSUME rests, stays \/ falls \/ ~casTestnet
      PROVE  LinkedInv'
    BY <1>1, LinkedAtRest
<1>2. pc # "idle" => ~succeeded
    BY DEF RecordInv, SuccessIsIdle
<1>3. ASSUME NEW told \in BOOLEAN, SetCert(told)
      PROVE  LinkedInv'
  <2>1. /\ rests /\ UNCHANGED <<build, img, esr, succeeded>> /\ pc = "cert"
        /\ pc' = "finish" => ~casTestnet
      BY <1>3 DEF SetCert, Proceed, configVars, sessionVars, projectVars,
                  runVars
  <2>2. casTestnet => HasBody(sessions, build, esr)
      BY <2>1 DEF SessionInv
  <2> QED
      BY <1>2, <2>1, <2>2 DEF LinkedInv, At, HasBody, casTestnet
<1>4. ASSUME NEW told \in BOOLEAN, AddImage(told) \/ RewardV1(told)
      PROVE  LinkedInv'
    BY <1>1, <1>4
    DEF AddImage, RewardV1, Inv, RunInv, BoundSteps, registryV2, casTestnet,
        configVars, sessionVars
<1>5. ASSUME NEW told, PostSession(told) \/ Register(told) \/ Reward(told)
      PROVE  LinkedInv'
    BY <1>1, <1>2, <1>5
    DEF PostSession, Register, Reward, Proceed, configVars, sessionVars
<1>6. CASE Finish
    BY <1>6
    DEF Finish, Exit, LinkedInv, At, HasBody, casTestnet, configVars,
        sessionVars, projectVars, runVars
<1>7. CASE Steps /\ ~Finish
    BY <1>1, <1>2, <1>7
    DEF Steps, Render, HashForIpfs, Upload, AfterUpload, Pin, CannotGoOn,
        WaitVisible, waitVisible, Harvest, CopyCerts, UploadAgain, Exit,
        configVars, sessionVars
<1>8. CASE Publish \/ Rebuild \/ EditSettings
    BY <1>1, <1>8
    DEF Publish, Rebuild, EditSettings, configVars, sessionVars
<1>9. CASE UploadWithoutFile \/ Decline \/ GiveUp \/ Fails \/ Killed
    BY <1>1, <1>2, <1>9
    DEF UploadWithoutFile, FileWithoutWrite, Decline, GiveUp, LinkDeadline,
        Fails, Killed, Exit, configVars, sessionVars
<1>10. CASE KuboDoesNotStart \/ KuboGoes \/ Reinstall \/ SurroundingsChange
            \/ NameTaken \/ UNCHANGED vars
    BY <1>1, <1>10
    DEF KuboDoesNotStart, KuboGoes, Reinstall, SurroundingsChange, NameTaken,
        vars, configVars, sessionVars, projectVars, runVars
<1>11. CASE NodesCatchUp
  <2>1. /\ laggingSessions' = sessions
        /\ UNCHANGED <<network, sessions, pc, succeeded, build, img, esr>>
      BY <1>11
      DEF NodesCatchUp, SessionsCatchUp, configVars, projectVars, runVars
  <2>2. \A b \in Builds : Len(sessions[b]) \in Nat
      BY DEF SessionInv, SessionTypes, SessionView
  <2> QED
      BY <2>1, <2>2 DEF LinkedInv, At, HasBody, casTestnet
<1> QED
    BY <1>3, <1>4, <1>5, <1>6, <1>7, <1>8, <1>9, <1>10, <1>11
    DEF Next, Calls, Faults, Environment, LinkAnswers

-----------------------------------------------------------------------------
(***************************************************************************)
(* The Kubo is gone when the publish says it succeeded.                    *)
(***************************************************************************)
GoneInv ==
    /\ ~localKubo => ~kubo.up
    /\ ~registryV2 => ~serving
    /\ pc \in {"link", "finish"} => ~serving
    /\ succeeded => ~kubo.up

LEMMA KuboEnds ==
    ASSUME GoneInv, Released \/ UNCHANGED kuboVars, UNCHANGED configVars,
           pc' \notin {"link", "finish"} \/ pc \in {"link", "finish"},
           ~succeeded'
    PROVE  GoneInv'
<1> QED
    BY DEF GoneInv, Released, release, Down, kuboVars, configVars, localKubo,
           registryV2

LEMMA GoneStays ==
    ASSUME Inv, RecordInv, GoneInv, [Next]_vars PROVE GoneInv'
<1>1. pc # "idle" => ~succeeded
    BY DEF RecordInv, SuccessIsIdle
<1>2. Down.up = FALSE
    BY DEF Down
<1>3. CASE Publish
    BY <1>3
    DEF Publish, start, kuboVars, GoneInv, configVars, localKubo, registryV2
<1>4. ASSUME NEW told \in BOOLEAN, Reward(told)
      PROVE  GoneInv'
  <2>1. registryV2
      BY <1>4 DEF Reward, Inv, RunInv, CertSteps
  <2>2. CASE told
      BY <1>1, <1>4, <2>1, <2>2
      DEF Reward, Proceed, GoneInv, configVars, localKubo, registryV2
  <2>3. CASE ~told
      BY <1>1, <1>4, <2>3, KuboEnds DEF Reward, Proceed
  <2> QED
      BY <2>2, <2>3
<1>5. ASSUME NEW told \in BOOLEAN, SetCert(told)
      PROVE  GoneInv'
  <2>1. CASE told
      BY <1>1, <1>5, <2>1
      DEF SetCert, Proceed, GoneInv, configVars, localKubo, registryV2
  <2>2. CASE ~told
      BY <1>1, <1>5, <2>2, KuboEnds DEF SetCert, Proceed
  <2> QED
      BY <2>1, <2>2
<1>6. ASSUME NEW told \in BOOLEAN, AddImage(told) \/ RewardV1(told)
      PROVE  GoneInv'
  <2>1. ~registryV2
      BY <1>6 DEF AddImage, RewardV1, Inv, RunInv, BoundSteps
  <2> QED
      BY <1>1, <1>2, <1>6, <2>1
      DEF AddImage, RewardV1, Proceed, GoneInv, Released, release, kuboVars,
          configVars, localKubo, registryV2
<1>7. ASSUME NEW told,
             PostSession(told) \/ Register(told) \/ LinkImage(told)
      PROVE  GoneInv'
    BY <1>1, <1>7, KuboEnds
    DEF PostSession, Register, LinkImage, Proceed
<1>8. ASSUME NEW answer \in {"new", "known", "failed"},
             RegisterSession(answer)
      PROVE  GoneInv'
    BY <1>1, <1>8, KuboEnds DEF RegisterSession, Proceed
<1>9. CASE Upload \/ UploadAgain \/ UploadWithoutFile
  <2>1. kubo \in KuboType
      BY DEF Inv, StateInv, KuboTypes
  <2>2. /\ UNCHANGED configVars
        /\ ~succeeded' /\ pc' \notin {"link", "finish"}
      BY <1>1, <1>9
      DEF Upload, AfterUpload, UploadAgain, UploadWithoutFile,
          FileWithoutWrite
  <2>3. CASE Stored(<<build, withCerts>>)
    <3>1. UNCHANGED serving /\ kubo'.up = kubo.up
        BY <2>1, <2>3 DEF Stored, add, KuboType, kuboVars
    <3> QED
        BY <2>2, <3>1 DEF GoneInv, configVars, localKubo, registryV2
  <2>4. CASE Released
      BY <2>2, <2>4, KuboEnds
  <2> QED
      BY <1>9, <2>3, <2>4 DEF Upload, UploadAgain, UploadWithoutFile
<1>10. CASE Render \/ HashForIpfs \/ Pin \/ WaitVisible \/ Harvest \/ CopyCerts
    BY <1>1, <1>10, KuboEnds
    DEF Render, HashForIpfs, Pin, WaitVisible, Harvest, CopyCerts
<1>11. CASE CannotGoOn \/ Decline \/ GiveUp \/ Fails \/ Killed
    BY <1>1, <1>11, KuboEnds
    DEF CannotGoOn, Decline, GiveUp, Fails, Killed, Exit
<1>12. CASE Finish
    BY <1>2, <1>12
    DEF Finish, Exit, Released, release, GoneInv, kuboVars, configVars,
        localKubo, registryV2
<1>13. CASE KuboDoesNotStart
    BY <1>2, <1>13
    DEF KuboDoesNotStart, startFails, GoneInv, configVars, localKubo,
        registryV2
<1>14. CASE KuboGoes
    BY <1>2, <1>14
    DEF KuboGoes, kuboGoes, GoneInv, configVars, localKubo, registryV2
<1>15. CASE Environment \/ NodesCatchUp \/ UNCHANGED vars
    BY <1>15
    DEF Environment, Rebuild, EditSettings, Reinstall, SurroundingsChange,
        NameTaken, NodesCatchUp, vars, GoneInv, kuboVars, configVars,
        localKubo, registryV2
<1> QED
    BY <1>3, <1>4, <1>5, <1>6, <1>7, <1>8, <1>9, <1>10, <1>11, <1>12, <1>13,
       <1>14, <1>15
    DEF Next, Calls, Steps, Faults

-----------------------------------------------------------------------------
(***************************************************************************)
(* On mainnet a publish goes past its post only when the CAS has a session *)
(* of the build.                                                           *)
(***************************************************************************)
PastPost == pc \notin {"idle", "scone"} \/ succeeded

PostedInv == network = "mainnet" /\ PastPost => build \in posted

LEMMA PostedStays ==
    ASSUME Inv, PostedInv, [Next]_vars PROVE PostedInv'
<1> DEFINE rests == UNCHANGED <<network, build, posted>>
<1>1. ASSUME rests, PastPost' => PastPost
      PROVE  PostedInv'
    BY <1>1 DEF PostedInv
<1>2. CASE Publish
    BY <1>2 DEF Publish, PostedInv, PastPost, configVars
<1>3. ASSUME NEW answer, PostSession(answer)
      PROVE  PostedInv'
    BY <1>3
    DEF PostSession, Proceed, PostedInv, PastPost, configVars, projectVars
<1>4. ASSUME NEW told,
             \/ Register(told) \/ Reward(told) \/ SetCert(told)
             \/ AddImage(told) \/ RewardV1(told) \/ LinkImage(told)
             \/ RegisterSession(told)
      PROVE  PostedInv'
    BY <1>1, <1>4
    DEF Register, Reward, SetCert, AddImage, RewardV1, LinkImage,
        RegisterSession, Proceed, PastPost, configVars, projectVars, sconeVars
<1>5. CASE Steps
  <2>1. CASE Render \/ HashForIpfs \/ Upload \/ Pin \/ WaitVisible
             \/ Harvest
      BY <1>1, <2>1
      DEF Render, HashForIpfs, Upload, Pin, WaitVisible, Harvest, PastPost,
          configVars, projectVars, sconeVars
  <2>2. CASE CannotGoOn \/ CopyCerts \/ UploadAgain \/ Finish
      BY <1>1, <2>2
      DEF CannotGoOn, CopyCerts, UploadAgain, Finish, Exit, PastPost,
          configVars, projectVars, sconeVars
  <2> QED
      BY <1>5, <2>1, <2>2 DEF Steps
<1>6. CASE Faults
    BY <1>1, <1>6
    DEF Faults, KuboDoesNotStart, UploadWithoutFile, Decline, GiveUp, Fails,
        Killed, KuboGoes, Exit, PastPost, configVars, projectVars, sconeVars
<1>7. CASE Rebuild \/ EditSettings
    BY <1>7 DEF Rebuild, EditSettings, PostedInv, PastPost
<1>8. CASE Reinstall \/ SurroundingsChange \/ NameTaken \/ NodesCatchUp
           \/ UNCHANGED vars
    BY <1>1, <1>8
    DEF Reinstall, SurroundingsChange, NameTaken, NodesCatchUp, vars,
        PastPost, configVars, projectVars, sconeVars
<1> QED
    BY <1>2, <1>3, <1>4, <1>5, <1>6, <1>7, <1>8
    DEF Next, Calls, Environment

-----------------------------------------------------------------------------
(***************************************************************************)
(* The theorem.                                                            *)
(***************************************************************************)
SuccessInv == RecordInv /\ ChannelInv /\ LinkedInv /\ GoneInv /\ PostedInv

LEMMA SuccessInitially ==
    ASSUME Init PROVE SessionInv /\ SuccessInv
<1>1. /\ pc = "idle" /\ ~succeeded
      /\ images = [i \in Images |-> NoRecord] /\ lagging.images = images
      /\ channels = [c \in 0 .. MaxBuilds |-> <<>>]
      /\ sessions = [n \in Builds |-> <<>>] /\ laggingSessions = sessions
      /\ esr \in Bodies
      /\ kubo.up = FALSE /\ serving = FALSE
    BY DEF Init, RegistryInit, SessionInit, KuboInit, Down, Bodies
<1>2. SessionInv
  <2>1. sessions \in SessionView
      BY <1>1 DEF SessionView
  <2> QED
      BY <1>1, <2>1 DEF SessionInv, SessionTypes
<1>3. RecordInv
  <2>1. /\ NoRecord.owner = None /\ NoRecord.cert = None
        /\ NoRecord.reward = FALSE /\ None # Us
      BY PublishAssumption DEF NoRecord, PublishAssumption
  <2>2. RecordsGrow
      BY <1>1, <2>1 DEF RecordsGrow
  <2> QED
      BY <1>1, <2>2
      DEF RecordInv, SuccessIsIdle, RecordedSteps, At, RewardedSteps
<1>4. ChannelInv
  <2>1. Last0 = 0
      BY <1>1, PublishAssumption DEF Last0, PublishAssumption
  <2> QED
      BY <1>1, <2>1 DEF ChannelInv, At
<1>5. LinkedInv
    BY <1>1 DEF LinkedInv, At
<1>6. GoneInv /\ PostedInv
    BY <1>1 DEF GoneInv, PostedInv, PastPost
<1> QED
    BY <1>2, <1>3, <1>4, <1>5, <1>6 DEF SuccessInv

\* A publish that reports success has its image on chain with this build's
\* certificate, compose, reward address and session, the session linked to
\* it, its session in the CAS of mainnet, and leaves no container, whichever nodes lagged and whatever failed
\* before (nodenithy/run.js).
THEOREM SuccessCompletes == Spec => []SuccessIsComplete
<1>1. Init => SessionInv /\ SuccessInv
    BY SuccessInitially
<1>2. Inv /\ SessionInv /\ SuccessInv /\ [Next]_vars =>
         SessionInv' /\ SuccessInv'
  <2> SUFFICES ASSUME Inv, SessionInv, SuccessInv, [Next]_vars
               PROVE  SessionInv' /\ SuccessInv'
      OBVIOUS
  <2> USE DEF SuccessInv
  <2>1. SessionInv'
      BY SessionCallKeepsBodies, LinkKeepsBodies, OthersKeepBodies
  <2>2. RecordInv'
      BY RecordCalls, RecordOthers
  <2>3. ChannelInv'
      BY AddImageKeepsOrder, ChannelsKept
  <2>4. LinkedInv'
      BY RegisterSessionLinked, LinkImageLinks, LinkImageRefused, LinkedKept
      DEF LinkAnswers
  <2>5. GoneInv' /\ PostedInv'
      BY GoneStays, PostedStays
  <2> QED
      BY <2>1, <2>2, <2>3, <2>4, <2>5
<1>3. SuccessInv => SuccessIsComplete
    BY DEF SuccessInv, RecordInv, SuccessIsIdle, RecordedSteps, ChannelInv,
           Last0, LinkedInv, GoneInv, PostedInv, PastPost, At,
           SuccessIsComplete, Registered, RewardedSteps
<1> QED
    BY <1>1, <1>2, <1>3, InvHolds, PTL DEF Spec

-----------------------------------------------------------------------------
(***************************************************************************)
(* The Kubo that serves a registered image.                                *)
(***************************************************************************)

\* From the end of the registration until the certificate is written, the
\* Kubo of a two-step registry is marked as the source of the image.
Unserved == {"idle", "scone", "render", "hash", "register", "reward", "link",
             "finish"}

Serves == registryV2 /\ localKubo /\ pc \notin Unserved => serving

LEMMA ServesStays ==
    ASSUME Inv, Serves, [Next]_vars PROVE Serves'
<1>1. CASE Publish
    BY <1>1 DEF Publish, Serves, Unserved
<1>2. ASSUME NEW told \in BOOLEAN, Reward(told)
      PROVE  Serves'
    BY <1>2
    DEF Reward, Proceed, Serves, Unserved, registryV2, localKubo, configVars
<1>3. ASSUME NEW told,
             \/ PostSession(told) \/ Register(told) \/ SetCert(told)
             \/ LinkImage(told)
      PROVE  Serves'
    BY <1>3
    DEF PostSession, Register, SetCert, LinkImage, Proceed, Serves, Unserved
<1>4. ASSUME NEW told, AddImage(told) \/ RewardV1(told)
      PROVE  Serves'
    BY <1>4
    DEF AddImage, RewardV1, Serves, registryV2, configVars, Inv, RunInv,
        BoundSteps
<1>5. ASSUME NEW answer, RegisterSession(answer)
      PROVE  Serves'
    BY <1>5
    DEF RegisterSession, Proceed, Serves, Unserved, registryV2, localKubo,
        kuboVars, configVars
<1>6. CASE Upload \/ UploadAgain
    BY <1>6
    DEF Upload, UploadAgain, Stored, add, Serves, Unserved, registryV2,
        localKubo, kuboVars, configVars
<1>7. CASE Render \/ HashForIpfs \/ Pin
    BY <1>7
    DEF Render, HashForIpfs, Pin, Serves, Unserved, registryV2, configVars,
        Inv, RunInv, BoundSteps
<1>8. CASE WaitVisible \/ Harvest \/ CopyCerts
    BY <1>8
    DEF WaitVisible, Harvest, CopyCerts, Serves, Unserved, registryV2,
        localKubo, kuboVars, configVars
<1>9. CASE CannotGoOn \/ Finish \/ Decline \/ GiveUp \/ Fails \/ Killed
           \/ KuboDoesNotStart
    BY <1>9
    DEF CannotGoOn, Finish, Decline, GiveUp, Fails, Killed, KuboDoesNotStart,
        Exit, Serves, Unserved
<1>10. CASE UploadWithoutFile
    BY <1>10
    DEF UploadWithoutFile, Stored, add, Serves, Unserved, registryV2,
        localKubo, kuboVars, configVars
<1>11. CASE KuboGoes \/ Environment \/ NodesCatchUp \/ UNCHANGED vars
    BY <1>11
    DEF KuboGoes, kuboGoes, Environment, Rebuild, EditSettings, Reinstall,
        SurroundingsChange, NameTaken, NodesCatchUp, vars, Serves,
        registryV2, localKubo, kuboVars, configVars
<1> QED
    BY <1>1, <1>2, <1>3, <1>4, <1>5, <1>6, <1>7, <1>8, <1>9, <1>10, <1>11
    DEF Next, Calls, Steps, Faults

\* A publish that ends and stops its Kubo had not seen its own registration of
\* the image through, or the image has its certificate (localKubo.js,
\* nodenithy/run.js).
THEOREM KeepsItsSource == Spec => KeptUntilCertified
<1>1. Init => Serves /\ RecordInv
    BY SuccessInitially DEF Init, Serves, Unserved, SuccessInv
<1> DEFINE Stops == /\ registryV2
                    /\ pc # "idle" /\ pc' = "idle" /\ kubo.up /\ ~kubo'.up
           Step == Stops => \/ pc \in {"render", "hash", "register", "reward"}
                            \/ images[img].cert # None
<1>2. Inv /\ Serves /\ RecordInv /\ [Next]_vars => [Step]_vars
  <2> SUFFICES ASSUME Inv, Serves, RecordInv, [Next]_vars, Stops,
                      pc \notin {"render", "hash", "register", "reward"}
               PROVE  images[img].cert # None
      OBVIOUS
  <2>1. pc # "idle" /\ pc # "scone"
      BY DEF Inv, RunInv, BoundSteps
  <2>2. CASE pc \in {"link", "finish"}
    <3>1. images[img].cert = build /\ build \in Builds
        BY <2>2 DEF RecordInv, RecordedSteps, At, Inv, RunInv, RunTypes
    <3> QED
        BY <3>1, PublishAssumption DEF PublishAssumption
  <2>3. ASSUME pc \notin Unserved
        PROVE  FALSE
    <3>1. ~Released /\ ~UNCHANGED kubo
        BY <2>3 DEF Serves, Released, release, kuboVars
    <3>2. CASE Publish \/ KuboDoesNotStart \/ Rebuild \/ EditSettings
               \/ Reinstall \/ SurroundingsChange
        BY <2>1, <3>2
        DEF Publish, KuboDoesNotStart, Rebuild, EditSettings, Reinstall,
            SurroundingsChange
    <3>3. CASE KuboGoes \/ NameTaken \/ NodesCatchUp \/ UNCHANGED vars
        BY <3>3 DEF KuboGoes, NameTaken, NodesCatchUp, vars
    <3>4. CASE Calls
        BY <3>1, <3>4
        DEF Calls, PostSession, Register, Reward, SetCert, LinkImage,
            AddImage, RewardV1, RegisterSession, kuboVars
    <3>5. CASE UploadWithoutFile
      <4>1. kubo \in KuboType
          BY DEF Inv, StateInv, KuboTypes
      <4> QED
          BY <3>1, <3>5, <4>1
          DEF UploadWithoutFile, Stored, add, kuboVars, KuboType
    <3>6. CASE Steps
        BY <3>1, <3>6
        DEF Steps, Render, HashForIpfs, Upload, AfterUpload, Pin, CannotGoOn,
            WaitVisible, Harvest, CopyCerts, UploadAgain, Finish, Exit
    <3>7. CASE Decline \/ GiveUp \/ Fails \/ Killed
        BY <3>1, <3>7 DEF Decline, GiveUp, Fails, Killed, Exit, kuboVars
    <3> QED
        BY <3>2, <3>3, <3>4, <3>5, <3>6, <3>7 DEF Next, Faults, Environment
  <2> QED
      BY <2>1, <2>2, <2>3 DEF Unserved
<1>3. [Step]_vars =>
         [/\ registryV2
          /\ pc # "idle" /\ pc' = "idle" /\ kubo.up /\ ~kubo'.up
          => \/ pc \in {"render", "hash", "register", "reward"}
             \/ images[img].cert # None]_vars
    OBVIOUS
<1> QED
    BY <1>1, <1>2, <1>3, ServesStays, RecordCalls, RecordOthers, InvHolds, PTL
    DEF Spec, KeptUntilCertified
=============================================================================
