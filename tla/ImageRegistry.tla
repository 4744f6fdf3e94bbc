--------------------------- MODULE ImageRegistry ---------------------------
(***************************************************************************)
(* The image registry as the publish sees it: image_registry.js and, under *)
(* it, the contract, which is outside the repository and is modelled from  *)
(* the answers image_registry.js expects.                                  *)
(*                                                                         *)
(* The RPC endpoint balances its requests over nodes that can lag the      *)
(* chain, so every read and every simulation is answered from one of two   *)
(* views: the chain, or what the slowest node has seen of it.  A write is  *)
(* simulated by some node, then sent; it takes effect or reverts on the    *)
(* chain, and its receipt may be lost.                                     *)
(*                                                                         *)
(* An operation of this module is a relation between the registry before   *)
(* and after, with what the caller is told as its last argument.           *)
(***************************************************************************)
EXTENDS Integers, Sequences, FiniteSets

CONSTANTS Images,    \* CIDs of image trees
          Composes,  \* CIDs of compose files
          Certs,     \* certificates
          Channels,  \* the version keys of a V1 registry
          Us, Other, \* the publishing wallet and another one
          None

VARIABLES images,    \* imageDetails by image CID
          nameOwner, \* imageNameOwner of the project's image name
          channels,  \* V1: the images of each version key, in order
          lagging    \* images and nameOwner as the slowest node answers them

Record == [owner : {None, Us}, compose : Composes \cup {None}, peer : Nat,
           cert : Certs \cup {None}, reward : BOOLEAN]
NoRecord == [owner |-> None, compose |-> None, peer |-> 0, cert |-> None,
             reward |-> FALSE]
RegistryView == [images : [Images -> Record], nameOwner : {None, Us, Other}]

RegistryInit ==
    /\ images = [i \in Images |-> NoRecord]
    /\ nameOwner = None
    /\ channels = [c \in Channels |-> <<>>]
    /\ lagging = [images |-> images, nameOwner |-> nameOwner]

Chain == [images |-> images, nameOwner |-> nameOwner]
Views == {Chain, lagging}

\* The slowest node catches up.
RegistryCatchesUp ==
    /\ lagging' = Chain
    /\ UNCHANGED <<images, nameOwner, channels>>

\* Another wallet registers an image under the name first.
OtherTakesName ==
    /\ nameOwner = None
    /\ nameOwner' = Other
    /\ UNCHANGED <<images, channels, lagging>>

Registered(i) == images[i].owner = Us

-----------------------------------------------------------------------------
(***************************************************************************)
(* registerImage.  A record of this wallet with the same compose is left   *)
(* as it is, one with another compose is refused, and so is a name that    *)
(* belongs to another wallet.  (The record's name and session are the      *)
(* image's own here: a tree belongs to one build.)                         *)
(***************************************************************************)
MayRegister(v, i) == v.images[i].owner = None /\ v.nameOwner # Other

\* Mutant: a record of this wallet is refused like any other.
AlreadyRegisteredNever(v, i, compose) == FALSE

AlreadyRegistered(v, i, compose) ==
    v.images[i].owner = Us /\ v.images[i].compose = compose

\* The transaction of registerImage; told says whether its receipt arrived.
SendRegister(i, compose, peer, told) ==
    IF MayRegister(Chain, i)
    THEN /\ told \in BOOLEAN
         /\ images' = [images EXCEPT ![i] =
                          [owner |-> Us, compose |-> compose, peer |-> peer,
                           cert |-> None, reward |-> FALSE]]
         /\ nameOwner' = Us
    ELSE told = FALSE /\ UNCHANGED <<images, nameOwner>>

registerImage(i, compose, peer, told) ==
    /\ UNCHANGED <<channels, lagging>>
    /\ \E read \in Views :
          \/ /\ AlreadyRegistered(read, i, compose)
             /\ told = TRUE
             /\ UNCHANGED <<images, nameOwner>>
          \/ /\ ~AlreadyRegistered(read, i, compose)
             /\ ~MayRegister(read, i)
             /\ told = FALSE
             /\ UNCHANGED <<images, nameOwner>>
          \/ /\ MayRegister(read, i)
             /\ \E sim \in Views :
                   IF MayRegister(sim, i)
                   THEN SendRegister(i, compose, peer, told)
                   ELSE told = FALSE /\ UNCHANGED <<images, nameOwner>>

\* setRewardAddress: left alone when a node answers that it is set already.
setRewardAddress(i, told) ==
    /\ UNCHANGED <<nameOwner, channels, lagging>>
    /\ \E read, sim \in Views :
          \/ read.images[i].reward /\ told = TRUE /\ UNCHANGED images
          \/ ~read.images[i].reward /\ sim.images[i].owner # Us
             /\ told = FALSE /\ UNCHANGED images
          \/ /\ ~read.images[i].reward /\ sim.images[i].owner = Us
             /\ told \in BOOLEAN
             /\ images' = [images EXCEPT ![i].reward = TRUE]

-----------------------------------------------------------------------------
(***************************************************************************)
(* setImageCert.  While the node that is asked, or the one that simulates, *)
(* does not know the image, the loop tries again every 15 s: the operation *)
(* is not enabled.  Giving up at the deadline is CertDeadline.             *)
(***************************************************************************)
SendCert(i, cert, told) ==
    IF Registered(i) /\ images[i].cert = None
    THEN told \in BOOLEAN /\ images' = [images EXCEPT ![i].cert = cert]
    ELSE told = FALSE /\ UNCHANGED images

setImageCert(i, cert, told) ==
    /\ UNCHANGED <<nameOwner, channels, lagging>>
    /\ \E read \in Views :
          /\ read.images[i].owner = Us
          /\ \/ /\ read.images[i].cert # None
                /\ told = (read.images[i].cert = cert)
                /\ UNCHANGED images
             \/ /\ read.images[i].cert = None
                /\ \E sim \in Views :
                      /\ sim.images[i].owner = Us
                      /\ IF sim.images[i].cert = None
                         THEN SendCert(i, cert, told)
                         ELSE told = FALSE /\ UNCHANGED images

\* Ten minutes went by and some node still answers without the image.
CertDeadline(i) ==
    /\ \E v \in Views : v.images[i].owner = None
    /\ UNCHANGED <<images, nameOwner, channels, lagging>>

-----------------------------------------------------------------------------
(***************************************************************************)
(* The V1 registry: registerSecureLockImage appends the image to the       *)
(* channel of the protocol version and to the one of the build's VERSION.  *)
(* A channel refuses an image it holds, which the loop goes past.          *)
(***************************************************************************)
Holds(c, i) == \E n \in 1 .. Len(channels[c]) : channels[c][n] = i

addImage(c, i, told) ==
    /\ IF Holds(c, i)
       THEN told = TRUE /\ UNCHANGED channels
       ELSE /\ told \in BOOLEAN
            /\ channels' = [channels EXCEPT ![c] = Append(@, i)]
    /\ UNCHANGED <<images, nameOwner, lagging>>

\* setRewardAddress of an image a channel holds.  (Of its record this module
\* keeps the reward address alone.)
setRewardAddressV1(i, told) ==
    /\ UNCHANGED <<nameOwner, channels, lagging>>
    /\ \E read \in Views :
          IF read.images[i].reward
          THEN told = TRUE /\ UNCHANGED images
          ELSE /\ told \in BOOLEAN
               /\ images' = [images EXCEPT ![i].reward = TRUE]
=============================================================================
