----------------------------- MODULE IpfsClient -----------------------------
(***************************************************************************)
(* The IPFS client ipfs.mjs, run as a child process for every add, hash,   *)
(* pin and download, and the checks run.js makes of its exit code, its     *)
(* output and its files.                                                   *)
(*                                                                         *)
(* A job is one child process.  The CID of a target is <<target, pass>>:   *)
(* the second upload of a V1 publish adds another tree.  A CID that is not *)
(* the target's is PartCid (a file of the tree), Junk (a line of output   *)
(* that is no CID) or OldCid (left by an earlier publish).                  *)
(*                                                                         *)
(* No request has a timeout: that every request is answered, or fails, is  *)
(* what the fairness says of the API.                                      *)
(***************************************************************************)
EXTENDS Integers, Sequences, SequencesExt

CONSTANTS RETRY_COUNT,  \* attempts of an add
          maxRetries,   \* attempts of a download
          Chunks,       \* how many chunks the downloaded file has
          None

Targets == {"compose", "tree"}
PartCid == <<"part", 0>>
Junk == <<"junk", 0>>
OldCid == <<"old", 0>>
Cids == (Targets \X {1, 2}) \cup {PartCid, Junk, OldCid}

ASSUME IpfsAssumption ==
    /\ RETRY_COUNT \in Nat \ {0} /\ maxRetries \in Nat \ {0}
    /\ Chunks \in Nat \ {0}
    /\ None \notin Cids

\* The children of a publish: uploadToIpfs adds the compose, then the tree.
Job(action, target, pass) ==
    [action |-> action, target |-> target, pass |-> pass]
Both(action, pass) ==
    <<Job(action, "compose", pass), Job(action, "tree", pass)>>
Jobs(kind) ==
    CASE kind = "twoStep"  -> Both("hash", 1) \o Both("upload", 1)
      [] kind = "v1"       -> Both("upload", 1) \o Both("pin", 1)
                                \o Both("upload", 2)
      [] kind = "download" -> <<Job("download", "tree", 1)>>

VARIABLES
    kind,       \* a publish on a two-step or V1 registry, or a download
    job,        \* the child that runs
    outcome,    \* "running", "published", "failed"
    \* run.js
    env,        \* IPFS_HASH and IPFS_DOCKER_COMPOSE_HASH
    expectedCids, \* what hashForIpfs gave, and was registered
    files,      \* the .ipfs files
    \* The child's add.
    phase,      \* "start", "open" (a request is under way), "backoff"
    attempt,    \* attempts that have failed
    hundred,    \* the API's 100-continue is still to come
    timer,      \* the 3 s timer of the request is still to fire
    bodySent,   \* the flag of postAdd
    bodies,     \* history: how often the request's body was sent
    \* The child's download.
    res,        \* the chunks decoded so far
    at,         \* chunks the running cat has given
    out,        \* the file written
    clean,      \* history: every chunk kept is the running cat's, and its text
    \* The API.
    stored, pinned,
    wrong       \* history: answers of status 200 to an add that was cut short

runVars == <<env, expectedCids, files>>
requestVars == <<phase, attempt, hundred, timer, bodySent, bodies>>
catVars == <<res, at, out, clean>>
apiVars == <<stored, pinned, wrong>>
vars == <<kind, job, outcome, runVars, requestVars, catVars, apiVars>>

Current == Jobs(kind)[job]
Doing(action) == outcome = "running" /\ Current.action = action
Adding == outcome = "running" /\ Current.action \in {"hash", "upload"}
onlyHash == Current.action = "hash"
Cid == <<Current.target, Current.pass>>

NoCids == [t \in Targets |-> None]

Init ==
    /\ kind \in {"twoStep", "v1", "download"}
    /\ job = 1 /\ outcome = "running"
    /\ env = NoCids /\ expectedCids = NoCids
    /\ files \in [Targets -> {None, OldCid}]
    /\ phase = "start" /\ attempt = 0
    /\ hundred = FALSE /\ timer = FALSE /\ bodySent = FALSE /\ bodies = 0
    /\ res = <<>> /\ at = 0 /\ out = None /\ clean = TRUE
    /\ stored = {} /\ pinned = {} /\ wrong = 0

-----------------------------------------------------------------------------
(***************************************************************************)
(* What an attempt makes of an answer.                                     *)
(***************************************************************************)
Line(name, hash) == [Name |-> name, Hash |-> hash]

lastHash(lines) == IF lines # <<>> THEN Last(lines).Hash ELSE None

\* The line of the wrapping directory has an empty name; some gateways give
\* no such line, and the last one counts.
parseRootHash(lines) ==
    LET roots == {i \in DOMAIN lines : lines[i].Name = ""}
    IN  IF roots # {} THEN lines[Max(roots)].Hash ELSE lastHash(lines)

\* What the API answers to a completed add.
FullAnswers(cid) ==
    IF cid[1] = "compose" THEN {<<Line("compose", cid)>>}
    ELSE {<<Line("file", PartCid), Line("", cid)>>,
          <<Line("file", PartCid), Line("registry", cid)>>}

\* An add that ends early, by its own timeout for one, after lines were sent.
CutAnswers(cid) ==
    IF cid[1] = "compose" THEN {<<>>} ELSE {<<>>, <<Line("file", PartCid)>>}

HashOf(lines) ==
    IF Current.target = "tree" THEN parseRootHash(lines) ELSE lastHash(lines)

-----------------------------------------------------------------------------
(***************************************************************************)
(* How a child ends, and what run.js does then.                            *)
(***************************************************************************)
Fresh ==
    /\ phase' = "start" /\ attempt' = 0 /\ hundred' = FALSE /\ timer' = FALSE
    /\ bodySent' = FALSE /\ bodies' = 0

\* A non-zero exit ends the publish.
ExitOne == outcome' = "failed" /\ UNCHANGED <<kind, job, runVars>> /\ Fresh

\* The next child starts.
GoOn ==
    /\ IF job = Len(Jobs(kind))
       THEN outcome' = "published" /\ UNCHANGED job
       ELSE job' = job + 1 /\ UNCHANGED outcome
    /\ UNCHANGED kind
    /\ Fresh

\* A hash child printed `line` last; run.js takes it as it is.
HashPrinted(line) ==
    /\ env' = [env EXCEPT ![Current.target] = line]
    /\ expectedCids' = env'
    /\ UNCHANGED files
    /\ GoOn

\* Mutant: the uploads are not compared with the registered CIDs.
OtherThanRegisteredNever == FALSE

\* The registered CIDs are compared once both uploads are done.
OtherThanRegistered ==
    kind = "twoStep" /\ Current.target = "tree" /\ env' # expectedCids

\* An upload child ended with code 0, and run.js reads the file it finds.
UploadDone ==
    /\ UNCHANGED expectedCids
    /\ LET found == files'[Current.target]
       IN  IF found = None
           THEN UNCHANGED env
           ELSE env' = [env EXCEPT ![Current.target] = found]
    /\ IF files'[Current.target] = None \/ OtherThanRegistered
       THEN outcome' = "failed" /\ UNCHANGED <<kind, job>> /\ Fresh
       ELSE GoOn

-----------------------------------------------------------------------------
(***************************************************************************)
(* An add: retryOnFailure around postAdd.                                  *)
(***************************************************************************)

\* A request is opened, with Expect: 100-continue; the API may send the
\* continue or skip it.  The .ipfs files are deleted before the first upload.
Open ==
    /\ phase' = "open" /\ timer' = TRUE /\ hundred' \in BOOLEAN
    /\ bodySent' = FALSE /\ bodies' = 0
    /\ UNCHANGED <<kind, job, outcome, env, expectedCids, attempt, catVars,
                   apiVars>>

Start ==
    /\ Adding /\ phase = "start"
    /\ Open
    /\ files' = IF Doing("upload") /\ Current.target = "compose"
                THEN NoCids ELSE files

Retry ==
    /\ Adding /\ phase = "backoff"
    /\ Open
    /\ UNCHANGED files

sendBody ==
    /\ ~bodySent => bodies' = bodies + 1
    /\ bodySent => UNCHANGED bodies
    /\ bodySent' = TRUE
    /\ UNCHANGED <<kind, job, outcome, runVars, phase, attempt, catVars,
                   apiVars>>

Continue ==
    /\ Adding /\ phase = "open" /\ hundred
    /\ hundred' = FALSE
    /\ sendBody
    /\ UNCHANGED timer

\* Mutant: the timer sends the body whatever went before.
FallbackAlways ==
    /\ Adding /\ phase = "open" /\ timer
    /\ timer' = FALSE
    /\ bodies' = bodies + 1 /\ bodySent' = TRUE
    /\ UNCHANGED <<kind, job, outcome, runVars, phase, attempt, hundred,
                   catVars, apiVars>>

\* Mutant: the body is only sent on a continue.
FallbackNever == FALSE

\* The API sent no continue within 3 s.
Fallback ==
    /\ Adding /\ phase = "open" /\ timer
    /\ timer' = FALSE
    /\ sendBody
    /\ UNCHANGED hundred

\* The attempt gave no hash.
AttemptFails ==
    IF attempt + 1 < RETRY_COUNT
    THEN /\ phase' = "backoff" /\ attempt' = attempt + 1
         /\ hundred' = FALSE /\ timer' = FALSE
         /\ UNCHANGED <<kind, job, outcome, runVars, bodySent, bodies>>
    ELSE ExitOne

\* The attempt gave `hash`; an upload writes it to its file, if it can.
AttemptGives(hash) ==
    IF onlyHash
    THEN HashPrinted(hash)
    ELSE /\ files' \in {files, [files EXCEPT ![Current.target] = hash]}
         /\ UploadDone

\* Mutant: hashing adds like uploading.
AddsAlways == stored' = stored \cup {Cid}

\* With only-hash the node stores nothing.
Adds == IF onlyHash THEN UNCHANGED stored ELSE stored' = stored \cup {Cid}

Answered ==
    /\ Adding /\ phase = "open" /\ bodySent
    /\ Adds
    /\ \E lines \in FullAnswers(Cid) : AttemptGives(HashOf(lines))
    /\ UNCHANGED <<catVars, pinned, wrong>>

\* Status 200, and an add that was not completed.
AnsweredShort ==
    /\ Adding /\ phase = "open" /\ bodySent
    /\ \E lines \in CutAnswers(Cid) :
          IF HashOf(lines) = None
          THEN AttemptFails /\ UNCHANGED wrong
          ELSE /\ AttemptGives(HashOf(lines))
               /\ wrong' = IF wrong < 2 THEN wrong + 1 ELSE 2
    /\ UNCHANGED <<catVars, stored, pinned>>

\* Another status, maybe before the body, or a connection that fails before
\* the answer; the add may have taken effect.
AddFails ==
    /\ Adding /\ phase = "open"
    /\ UNCHANGED stored \/ (bodySent /\ Adds)
    /\ AttemptFails
    /\ UNCHANGED <<catVars, pinned, wrong>>

\* The connection ends within the answer: the promise of postAdd is never
\* settled, nothing is left to run and the child exits with code 0.
AnswerBreaksOff ==
    /\ Adding /\ phase = "open" /\ bodySent
    /\ UNCHANGED stored \/ Adds
    /\ IF onlyHash THEN HashPrinted(Junk) ELSE UNCHANGED files /\ UploadDone
    /\ UNCHANGED <<catVars, pinned, wrong>>

-----------------------------------------------------------------------------
(***************************************************************************)
(* A pin is one request; the API answers once the pin is complete.         *)
(***************************************************************************)
Pin ==
    /\ Doing("pin")
    /\ pinned' = pinned \cup {env[Current.target]}
    /\ GoOn
    /\ UNCHANGED <<runVars, catVars, stored, wrong>>

\* Another status, an answer without the CID, a timeout or an error.
PinFails ==
    /\ Doing("pin")
    /\ UNCHANGED pinned \/ pinned' = pinned \cup {env[Current.target]}
    /\ ExitOne
    /\ UNCHANGED <<catVars, stored, wrong>>

-----------------------------------------------------------------------------
(***************************************************************************)
(* A download: getFromIPFS, which keeps what a failed cat gave.            *)
(***************************************************************************)
Content == [i \in 1 .. Chunks |-> i]

\* What a decoder makes of a chunk that is not a text by itself.
Garbled == 0

\* Each chunk is decoded by a TextDecoder of its own: one that begins or ends
\* inside a character, or is a view of a larger buffer, does not give its text.
\* Where the API cuts the file is its own choice.
decode(n) == {n, Garbled}

Chunk ==
    /\ Doing("download") /\ at < Chunks
    /\ at' = at + 1
    /\ \E text \in decode(at + 1) :
          /\ res' = Append(res, text)
          /\ clean' = (clean /\ text # Garbled)
    /\ UNCHANGED <<kind, job, outcome, runVars, requestVars, out, apiVars>>

\* Mutant: the end of a cat that failed is taken for the end of the file.
CatEndsShort ==
    /\ Doing("download")
    /\ out' = res
    /\ GoOn
    /\ UNCHANGED <<runVars, res, at, clean, apiVars>>

CatEnds ==
    /\ Doing("download") /\ at = Chunks
    /\ out' = res
    /\ GoOn
    /\ UNCHANGED <<runVars, res, at, clean, apiVars>>

\* The cat, or the write of the file; the next attempt appends to what this
\* one gave.
CatFails ==
    /\ Doing("download")
    /\ IF attempt + 1 < maxRetries
       THEN /\ attempt' = attempt + 1 /\ at' = 0
            /\ clean' = (clean /\ at = 0)
            /\ UNCHANGED <<kind, job, outcome, runVars, phase, hundred, timer,
                           bodySent, bodies>>
       ELSE ExitOne /\ UNCHANGED <<at, clean>>
    /\ UNCHANGED <<res, out, apiVars>>

-----------------------------------------------------------------------------
Over == outcome # "running" /\ UNCHANGED vars

Child == Start \/ Retry \/ Continue \/ Fallback

Add == Answered \/ AnsweredShort \/ AnswerBreaksOff

Api == Add \/ Pin \/ PinFails \/ Chunk \/ CatEnds \/ CatFails

Next == Child \/ Api \/ AddFails \/ Over

Spec == Init /\ [][Next]_vars

\* The child goes on, and the API answers every request whose body it has.
FairSpec == Spec /\ WF_vars(Child) /\ WF_vars(Api)

-----------------------------------------------------------------------------
TypeOK ==
    /\ kind \in {"twoStep", "v1", "download"}
    /\ job \in 1 .. Len(Jobs(kind))
    /\ outcome \in {"running", "published", "failed"}
    /\ env \in [Targets -> Cids \cup {None}]
    /\ expectedCids \in [Targets -> Cids \cup {None}]
    /\ files \in [Targets -> Cids \cup {None}]
    /\ phase \in {"start", "open", "backoff"}
    /\ attempt < IF kind = "download" THEN maxRetries ELSE RETRY_COUNT
    /\ attempt \in Nat
    /\ hundred \in BOOLEAN /\ timer \in BOOLEAN /\ bodySent \in BOOLEAN
    /\ bodies \in Nat
    /\ res \in Seq(0 .. Chunks) /\ at \in 0 .. Chunks
    /\ out \in Seq(0 .. Chunks) \cup {None} /\ clean \in BOOLEAN
    /\ stored \subseteq Cids /\ pinned \subseteq Cids
    /\ wrong \in 0 .. 2

\* The body of a request is written once, whichever of the API's continue and
\* the client's timer comes first: it has the length that was announced.
BodyOnce == bodies <= 1

\* Answers that were cut short and are tolerated: the comparison with the
\* registered CIDs catches one, or several that differ.
Tolerated == IF kind = "twoStep" THEN 1 ELSE 0

\* A publish never takes the CID an earlier publish left in a file for its
\* own, and IPFS holds nothing of the image while a two-step registry cannot
\* have both CIDs; past its uploads the publish has the CIDs of its own compose
\* and tree, IPFS holds both, and a two-step registry has the same two.
PublishedIsStored ==
    /\ kind = "twoStep" /\ stored # {} =>
           \A t \in Targets : expectedCids[t] # None
    /\ \A t \in Targets : env[t] # OldCid
    /\ outcome = "published" /\ kind # "download" /\ wrong <= Tolerated =>
           LET pass == IF kind = "v1" THEN 2 ELSE 1
           IN  \A t \in Targets : /\ env[t] = <<t, pass>> /\ env[t] \in stored
                                  /\ kind = "twoStep" => env[t] = expectedCids[t]

\* A downloaded file is the content of its CID as long as no attempt failed
\* after it had given a chunk and every chunk was a text by itself, and is
\* something else, with no error, as soon as one of the two happened.
DownloadIsWhole == out # None => (out = Content <=> clean)

\* Violated: a download that reports success wrote the content.
DownloadIsContent == out # None => out = Content

\* Every child ends, whether the API sends a continue or not.
ChildrenEnd == <>(outcome # "running")
=============================================================================
