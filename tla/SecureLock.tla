---------------------------- MODULE SecureLock -----------------------------
(***************************************************************************)
(* One order in the securelock (securelock.js.tmpl), from its .env to the  *)
(* result it hands to the trustedzone, with the objects both exchange in   *)
(* the node's bucket (swift_stream_service.js), the payload's commits that *)
(* may outlive it, and the ledger's last staging and attestation           *)
(* (ecld_state.js).                                                        *)
(*                                                                         *)
(* The trustedzone and the payload are external.  Any read, any view of    *)
(* the chain and any put may fail.                                         *)
(***************************************************************************)
CONSTANTS Calls, \* the commits the payload may start
          None   \* no object

\* What the trustedzone waits for: result, code, and the signatures of both.
Answer == {"result", "result.sig", "code", "code.sig"}

\* What the payload returns: an envelope, or a text (its failure, a session's
\* summary).
Returned == {"ENVELOPE", "TEXT"}

\* task_code, once it is set.
Outcomes == {None, "SYSTEM_ERROR", "CAS_ATTESTATION_FAULT", "SIGNATURE_ERROR",
             "CHECKSUM_ERROR"} \cup Returned

AnswerPuts == [object : Answer, outcome : Outcomes, binding : BOOLEAN,
               attested : SUBSET Calls]

ASSUME SecureLockAssumption ==
    None \notin Calls \cup {"task", "session"} \cup AnswerPuts

VARIABLES
    \* The order, and what the trustedzone has forwarded of it.
    order, staged,
    \* The securelock.
    pc, keyReadable, casFault, metadata, tzKey, binding, caller, mode,
    outcome, attested,
    \* The payload's commits and the ledger of them.
    calls, ledger, floating,
    \* Puts on their way, and the bucket.
    puts, ledgerFile, files, bucket,
    missed \* history: what was not read, told or put

orderVars == <<order, staged>>
taskVars == <<keyReadable, casFault, metadata, tzKey, binding, caller, mode>>
payloadVars == <<calls, ledger, floating>>
bucketVars == <<puts, ledgerFile, files, bucket>>
vars == <<orderVars, pc, taskVars, outcome, attested, payloadVars, bucketVars,
          missed>>

\* What is waited for.  The signatures, the task binding, the caller and the
\* configuration of a session are not: they are there when they are looked
\* for, or they are missed.
Awaited == {"payload", "input"}

Init ==
    /\ order \in [session : BOOLEAN, valid : BOOLEAN]
    /\ staged = {} /\ pc = "env"
    /\ keyReadable = TRUE /\ casFault = FALSE
    /\ metadata = FALSE /\ tzKey = FALSE /\ binding = FALSE
    /\ caller = FALSE /\ mode = None
    /\ outcome = None /\ attested = {}
    /\ calls = [c \in Calls |-> "idle"] /\ ledger = {} /\ floating = FALSE
    /\ puts = {} /\ ledgerFile = {} /\ files = {}
    /\ bucket = [o \in Answer |-> None]
    /\ missed = {}

\* The trustedzone puts them, in whatever order and however late.
Stage ==
    /\ \E o \in Awaited \ staged : staged' = staged \cup {o}
    /\ UNCHANGED <<order, pc, taskVars, outcome, attested, payloadVars,
                   bucketVars, missed>>

\* What is looked for is found, or is not there yet, or its read fails.
Looks(for, found) == missed' = missed \cup IF found THEN {} ELSE {for}

-----------------------------------------------------------------------------
(***************************************************************************)
(* Up to the payload.                                                      *)
(***************************************************************************)

\* Without its .env the securelock only publishes its certificate.
ReadEnv ==
    /\ pc = "env"
    /\ \/ pc' = "create" /\ UNCHANGED missed
       \/ pc' = "end" /\ Looks("env", FALSE)
    /\ UNCHANGED <<orderVars, taskVars, outcome, attested, payloadVars,
                   bucketVars>>

\* A CAS that provisioned the key is checked, and in PRODUCTION the key's file
\* is truncated, unless that fails.  Any other key is in memory.  What throws
\* on the way, before the truncation or in it, reportFailure answers.
Create ==
    /\ pc = "create"
    /\ \E cas, production \in BOOLEAN :
          /\ casFault' \in IF cas THEN BOOLEAN ELSE {FALSE}
          /\ keyReadable' \in IF cas /\ production THEN BOOLEAN ELSE {TRUE}
    /\ \/ pc' = "wait payload" /\ UNCHANGED <<outcome, missed>>
       \/ /\ pc' = "save" /\ outcome' = "SYSTEM_ERROR"
          /\ Looks("create", FALSE)
    /\ UNCHANGED <<orderVars, metadata, tzKey, binding, caller, mode, attested,
                   payloadVars, bucketVars>>

\* Mutant: the wait has no limit.
WaitWithoutLimit(object, next) ==
    /\ object \in staged /\ pc' = next
    /\ UNCHANGED <<outcome, missed>>

\* Mutant: a look that throws ends the process.
WaitUnreported(object, next) ==
    \/ pc' = next /\ UNCHANGED <<outcome, missed>>
    \/ pc' = "end" /\ Looks("wait", FALSE) /\ UNCHANGED outcome

\* The object is there, or was not for as long as the wait lasts, or a look
\* at the bucket throws, which reportFailure answers.
waitForObjectInBucket(object, next) ==
    \/ pc' = next /\ UNCHANGED <<outcome, missed>>
    \/ /\ pc' = "save" /\ outcome' = "SYSTEM_ERROR"
       /\ Looks("wait", FALSE)

WaitForPayloadAndInput ==
    /\ \/ /\ pc = "wait payload"
          /\ waitForObjectInBucket("payload", "wait input")
       \/ pc = "wait input" /\ waitForObjectInBucket("input", "metadata")
    /\ UNCHANGED <<orderVars, taskVars, attested, payloadVars, bucketVars>>

\* The order from the chain; the code's five attempts are one.
loadOrderMetadata(next, otherwise) ==
    \/ metadata' = TRUE /\ pc' = next /\ UNCHANGED <<outcome, missed>>
    \/ /\ pc' = otherwise /\ outcome' = "SYSTEM_ERROR"
       /\ Looks("metadata", FALSE)
       /\ UNCHANGED metadata

LoadMetadata ==
    /\ pc = "metadata" /\ loadOrderMetadata("key", "save")
    /\ UNCHANGED <<orderVars, keyReadable, casFault, tzKey, binding, caller,
                   mode, attested, payloadVars, bucketVars>>

\* One attempt, whose failure is only logged.
getTrustedZonePublicKey ==
    \/ tzKey' = TRUE /\ UNCHANGED missed
    \/ UNCHANGED tzKey /\ Looks("key", FALSE)

GetKey ==
    /\ pc = "key" /\ pc' = "task"
    /\ getTrustedZonePublicKey
    /\ UNCHANGED <<orderVars, keyReadable, casFault, metadata, binding, caller,
                   mode, outcome, attested, payloadVars, bucketVars>>

\* A forwarded object counts if it decrypts and its signature verifies.
Verifies == keyReadable /\ tzKey

\* The task binding; then the verdict on the CAS ends the task.
ReadBinding ==
    /\ pc = "task"
    /\ \E found \in BOOLEAN :
          Looks("task", found) /\ binding' = (found /\ Verifies)
    /\ IF casFault THEN pc' = "save" /\ outcome' = "CAS_ATTESTATION_FAULT"
                   ELSE pc' = "handover" /\ UNCHANGED outcome
    /\ UNCHANGED <<orderVars, keyReadable, casFault, metadata, tzKey, caller,
                   mode, attested, payloadVars, bucketVars>>

\* Payload and input with their signatures, then their checksums.
ReadHandover ==
    /\ pc = "handover"
    /\ \E found \in IF staged = Awaited THEN BOOLEAN ELSE {FALSE} :
          /\ Looks("handover", found)
          /\ LET verified == found /\ Verifies IN
             \/ /\ verified /\ order.valid
                /\ pc' = "caller" /\ UNCHANGED outcome
             \/ /\ verified /\ ~order.valid
                /\ pc' = "save" /\ outcome' = "CHECKSUM_ERROR"
             \/ /\ ~verified
                /\ pc' = "save" /\ outcome' = "SIGNATURE_ERROR"
    /\ UNCHANGED <<orderVars, taskVars, attested, payloadVars, bucketVars>>

\* Without an attested caller the task is anonymous.
ReadCaller ==
    /\ pc = "caller" /\ pc' = "mode"
    /\ \E found \in BOOLEAN :
          Looks("caller", found) /\ caller' = (found /\ Verifies)
    /\ UNCHANGED <<orderVars, keyReadable, casFault, metadata, tzKey, binding,
                   mode, outcome, attested, payloadVars, bucketVars>>

\* A session if its configuration is found, else a plain task; a look that
\* fails is taken for no configuration.
ChooseMode ==
    /\ pc = "mode" /\ pc' = "run"
    /\ \E found \in BOOLEAN :
          /\ Looks("session", found \/ ~order.session)
          /\ mode' = IF found /\ order.session THEN "session" ELSE "task"
    /\ UNCHANGED <<orderVars, keyReadable, casFault, metadata, tzKey, binding,
                   caller, outcome, attested, payloadVars, bucketVars>>

-----------------------------------------------------------------------------
(***************************************************************************)
(* The payload and its commits.  Each grows the ledger, puts all of it and *)
(* then its own authorization, and waits for both puts.                    *)
(***************************************************************************)
Pending == {c \in Calls : calls[c] \in {"ledger", "file"}}

\* The whole ledger, as it is when the put starts.
LedgerPut(by, entries) == [object |-> "ledger", by |-> by, entries |-> entries]

\* Code of the payload that is still alive starts a commit.
SendCommit ==
    /\ pc = "run" \/ floating
    /\ \E c \in Calls :
          /\ calls[c] = "idle"
          /\ calls' = [calls EXCEPT ![c] = "ledger"]
          /\ ledger' = ledger \cup {c}
          /\ puts' = puts \cup {LedgerPut(c, ledger \cup {c})}
    /\ UNCHANGED <<orderVars, pc, taskVars, outcome, attested, floating,
                   ledgerFile, files, bucket, missed>>

\* The payload returns, with its calls settled or with some of its code still
\* running: a call it did not await, the others of a Promise.all that was
\* rejected, an abandoned handler of a session.
Return ==
    /\ pc = "run"
    /\ outcome' \in IF mode = "session" THEN {"TEXT"} ELSE Returned
    /\ floating' \in IF Pending = {} THEN BOOLEAN ELSE {TRUE}
    /\ pc' = IF ledger = {} THEN "attest" ELSE "restamp"
    /\ UNCHANGED <<orderVars, taskVars, attested, calls, ledger, bucketVars,
                   missed>>

\* Mutant: the ledger is not staged again.
RestampWithoutPut ==
    /\ pc = "restamp" /\ pc' = "attest"
    /\ UNCHANGED <<orderVars, taskVars, outcome, attested, payloadVars,
                   bucketVars, missed>>

\* restampLedgerCaller puts the ledger once more, and awaits it.
Restamp ==
    /\ pc = "restamp" /\ pc' = "restamping"
    /\ puts' = puts \cup {LedgerPut(None, ledger)}
    /\ UNCHANGED <<orderVars, taskVars, outcome, attested, payloadVars,
                   ledgerFile, files, bucket, missed>>

\* Only an envelope can carry the ledger.
Attest ==
    /\ pc = "attest" /\ pc' = "save"
    /\ attested' = IF outcome = "ENVELOPE" THEN ledger ELSE {}
    /\ UNCHANGED <<orderVars, taskVars, outcome, payloadVars, bucketVars,
                   missed>>

-----------------------------------------------------------------------------
(***************************************************************************)
(* The result.                                                             *)
(***************************************************************************)

\* A failure before the order's metadata was there loads it now, or nothing
\* is handed over.
SaveResult ==
    /\ pc = "save"
    /\ IF metadata THEN pc' = "put" /\ UNCHANGED <<metadata, outcome, missed>>
                   ELSE loadOrderMetadata("put", "end")
    /\ UNCHANGED <<orderVars, keyReadable, casFault, tzKey, binding, caller,
                   mode, attested, payloadVars, bucketVars>>

\* Encrypting to no certificate puts nothing, and the first signature with no
\* key throws after the result was put.
Encrypted(certificate) ==
    IF ~certificate THEN {}
    ELSE IF keyReadable THEN Answer ELSE {"result"}

AnswerPut(o) ==
    [object |-> o, outcome |-> outcome, binding |-> binding,
     attested |-> attested]

\* All the puts are started at once and none is awaited.
PutResult ==
    /\ pc = "put" /\ pc' = "end"
    /\ getTrustedZonePublicKey
    /\ puts' = puts \cup {AnswerPut(o) : o \in Encrypted(tzKey')}
    /\ UNCHANGED <<orderVars, keyReadable, casFault, metadata, binding, caller,
                   mode, outcome, attested, payloadVars, ledgerFile, files,
                   bucket>>

-----------------------------------------------------------------------------
(***************************************************************************)
(* The bucket.                                                             *)
(***************************************************************************)

\* A put of the ledger is told or not, and may take effect either way.  Its
\* caller goes on, but for the last one a failure is ignored.
LedgerSettles(told) ==
    \E p \in {q \in puts : q.object = "ledger"} :
       /\ puts' = puts \ {p}
       /\ ledgerFile' \in {p.entries} \cup IF told THEN {} ELSE {ledgerFile}
       /\ IF p.by = None
          THEN /\ pc' = "attest" /\ UNCHANGED calls
               /\ Looks("ledger", told)
          ELSE /\ calls' = [calls EXCEPT ![p.by] =
                               IF told THEN "file" ELSE "failed"]
               /\ UNCHANGED <<pc, missed>>
       /\ UNCHANGED <<orderVars, taskVars, outcome, attested, ledger, floating,
                      files, bucket>>

\* The same for a commit's own authorization.
FileSettles(told) ==
    \E c \in Calls :
       /\ calls[c] = "file"
       /\ calls' = [calls EXCEPT ![c] = IF told THEN "settled" ELSE "failed"]
       /\ files' \in {files \cup {c}} \cup IF told THEN {} ELSE {files}
       /\ UNCHANGED <<orderVars, pc, taskVars, outcome, attested, ledger,
                      floating, puts, ledgerFile, bucket, missed>>

\* Nobody is told of the answer's puts; the process outlives one that fails.
AnswerSettles(told) ==
    \E p \in {q \in puts : q.object \in Answer} :
       /\ puts' = puts \ {p}
       /\ IF told THEN bucket' = [bucket EXCEPT ![p.object] = p]
                  ELSE UNCHANGED bucket
       /\ Looks("put", told)
       /\ UNCHANGED <<orderVars, pc, taskVars, outcome, attested, payloadVars,
                      ledgerFile, files>>

-----------------------------------------------------------------------------
Steps ==
    \/ ReadEnv \/ Create \/ WaitForPayloadAndInput \/ LoadMetadata \/ GetKey
    \/ ReadBinding \/ ReadHandover \/ ReadCaller \/ ChooseMode \/ Return
    \/ Restamp \/ Attest \/ SaveResult \/ PutResult

Settles ==
    \E told \in BOOLEAN :
       LedgerSettles(told) \/ FileSettles(told) \/ AnswerSettles(told)

Next == Steps \/ Settles \/ Stage \/ SendCommit

Spec == Init /\ [][Next]_vars

\* Every await of the securelock ends, the payload's included, and every put
\* settles.  The trustedzone owes nothing.
FairSpec == Spec /\ WF_vars(Steps) /\ WF_vars(Settles)

-----------------------------------------------------------------------------
(***************************************************************************)
(* What is promised.                                                       *)
(***************************************************************************)
LedgerPuts == [object : {"ledger"}, by : Calls \cup {None},
               entries : SUBSET Calls]

TypeOK ==
    /\ order \in [session : BOOLEAN, valid : BOOLEAN]
    /\ staged \subseteq Awaited
    /\ {keyReadable, casFault, metadata, tzKey, binding, caller, floating}
          \subseteq BOOLEAN
    /\ mode \in {None, "task", "session"}
    /\ outcome \in Outcomes
    /\ calls \in [Calls -> {"idle", "ledger", "file", "settled", "failed"}]
    /\ {attested, ledger, ledgerFile, files} \subseteq SUBSET Calls
    /\ puts \subseteq LedgerPuts \cup AnswerPuts
    /\ bucket \in [Answer -> AnswerPuts \cup {None}]

\* When a payload whose calls had all settled is over, the trustedzone finds
\* every authorization the node may relay twice: in the envelope that is
\* signed, and in the ledger's file, whatever order the puts of overlapping
\* commits took effect in (securelock.js.tmpl:1045, ecld_state.js:164).
SettledIsAttested ==
    mode # None /\ pc \in {"save", "put", "end"} /\ ~floating =>
        /\ files \subseteq ledger
        /\ outcome = "ENVELOPE" => attested = ledger
        /\ "ledger" \notin missed => ledgerFile = ledger

\* The process has ended: it has nothing left to do but for the payload.
Ended == pc = "end" /\ \A p \in puts : p.object \notin Answer

\* The trustedzone has all four objects, of one outcome.
Answered ==
    \A o \in Answer : /\ bucket[o] # None
                      /\ bucket[o].outcome = outcome
                      /\ bucket[o].binding = binding
                      /\ bucket[o].attested = attested

\* An order that ends without its answer never had its .env, its metadata or
\* the trustedzone's certificate, lost the key to the truncation, or lost a
\* put.  One that missed nothing ran as it was asked, was answered with what
\* its payload returned, and is bound to the order (securelock.js.tmpl).
OrderAnswered ==
    Ended =>
        /\ \/ Answered
           \/ ~metadata /\ "metadata" \in missed
           \/ ~tzKey /\ "key" \in missed
           \/ ~keyReadable
           \/ missed \cap {"env", "put"} # {}
        /\ missed = {} /\ order.valid /\ ~casFault /\ keyReadable =>
              /\ Answered /\ outcome \in Returned /\ binding /\ caller
              /\ mode = "session" <=> order.session

\* Every order comes to an end, whatever is never forwarded
\* (securelock.js.tmpl: the limit of waitForObjectInBucket).
OrderEnds == <>[]Ended

\* Documented: the key is wiped after it was loaded, and still decrypts what
\* is forwarded (securelock.js.tmpl:725).  It is not loaded.
KeyOutlivesItsFile == pc = "handover" => keyReadable

\* Documented: the trustedzone reads the ledger from the signed envelope
\* (securelock.js.tmpl:1050).  Not for code that outlives the payload.
RelayedIsAttested ==
    pc = "end" /\ outcome = "ENVELOPE" => files \subseteq attested

=============================================================================
