------------------------- MODULE SecureLock_proofs -------------------------
(***************************************************************************)
(* Proofs about SecureLock, for any set of the payload's commits: a        *)
(* settled payload's ledger is attested and staged whole, and an order     *)
(* that ends unanswered has one of the named causes.                       *)
(***************************************************************************)
EXTENDS SecureLock, TLAPS

\* The steps after the payload, and those after each other one.
Finishing == {"save", "put", "end"}
Over == {"restamp", "restamping", "attest"} \cup Finishing
Running == {"run"} \cup Over
AfterCaller == {"mode"} \cup Running
AfterBinding == {"handover", "caller"} \cup AfterCaller
AfterKey == {"task"} \cup AfterBinding
AfterMetadata == {"key"} \cup AfterKey

\* A ledger's put in flight is waited for by whoever started it.
PutsInv ==
    /\ \A p, q \in puts : p.object = "ledger" /\ q.object = "ledger"
                             /\ p.by = q.by => p = q
    /\ \A p \in puts : p.object = "ledger" =>
          /\ p.entries \subseteq ledger
          /\ p.by \in Calls => calls[p.by] = "ledger"
          /\ p.by = None => pc = "restamping"
    /\ ledgerFile \subseteq ledger
    /\ \A c \in Calls : calls[c] = "idle" <=> c \notin ledger
    /\ \A c \in files : calls[c] # "idle"

\* Before the payload runs, and when all its calls had settled, none of its
\* code is left.
PayloadInv ==
    /\ mode # None => pc \in Running
    /\ mode = None => ledger = {} /\ ~floating
    /\ pc \in Running \ Finishing => mode # None
    /\ ~floating /\ pc \in Over => Pending = {}
    /\ ~floating => \A p \in puts :
          p.object = "ledger" /\ p.by = None => p.entries = ledger

\* What the end of the task staged and attested then.
AttestInv ==
    ~floating =>
        /\ pc \in {"attest"} \cup Finishing /\ "ledger" \notin missed =>
              ledgerFile = ledger
        /\ pc \in Finishing /\ mode # None /\ outcome = "ENVELOPE" =>
              attested = ledger

LedgerInv == TypeOK /\ PutsInv /\ PayloadInv /\ AttestInv

\* What was put for the trustedzone is the outcome as it still is.
Current(p) == /\ p.outcome = outcome /\ p.binding = binding
              /\ p.attested = attested

\* What keeps an answer from being whole.
Cause ==
    \/ ~metadata /\ "metadata" \in missed
    \/ ~tzKey /\ "key" \in missed
    \/ ~keyReadable
    \/ missed \cap {"env", "put"} # {}

AnswerInv ==
    /\ \A p \in puts : p.object \in Answer => pc = "end" /\ Current(p)
    /\ \A o \in Answer : bucket[o] # None => pc = "end" /\ Current(bucket[o])
    /\ pc = "end" /\ ~Cause =>
          \A o \in Answer : bucket[o] # None \/ \E p \in puts : p.object = o
    /\ pc = "put" => metadata

\* How far an order has come that missed nothing and has nothing wrong.
Unfailed == missed = {} /\ order.valid /\ ~casFault /\ keyReadable

ProgressInv ==
    Unfailed =>
        /\ pc \in AfterMetadata => metadata
        /\ pc \in AfterKey => tzKey
        /\ pc \in AfterBinding => binding
        /\ pc \in AfterCaller => caller
        /\ pc \in Running => (mode = "session" <=> order.session)
        /\ pc \in Over => outcome \in Returned

OrderInv == AnswerInv /\ ProgressInv

IInv == LedgerInv /\ OrderInv
-----------------------------------------------------------------------------
(***************************************************************************)
(* Types.                                                                  *)
(***************************************************************************)
LEMMA PutKinds ==
    ASSUME puts \subseteq LedgerPuts \cup AnswerPuts, NEW p \in puts
    PROVE  /\ p.object = "ledger" =>
                 p.by \in Calls \cup {None} /\ p.entries \subseteq Calls
           /\ p.object \in Answer => p \in AnswerPuts /\ p # None
           /\ p.object = "ledger" <=> p.object \notin Answer
<1> QED
    BY SecureLockAssumption
    DEF SecureLockAssumption, LedgerPuts, AnswerPuts, Answer

LEMMA TypesStay ==
    ASSUME TypeOK, [Next]_vars PROVE TypeOK'
<1> USE DEF TypeOK
<1>1. CASE Stage
    BY <1>1
    DEF Stage, taskVars, payloadVars, bucketVars
<1>2. CASE \/ ReadEnv \/ Create \/ WaitForPayloadAndInput \/ LoadMetadata
           \/ GetKey
    BY <1>2
    DEF ReadEnv, Create, WaitForPayloadAndInput, waitForObjectInBucket,
        LoadMetadata, loadOrderMetadata, GetKey, getTrustedZonePublicKey,
        orderVars, taskVars, payloadVars, bucketVars, Outcomes
<1>3. CASE ReadBinding \/ ReadHandover \/ ReadCaller \/ ChooseMode
    BY <1>3
    DEF ReadBinding, ReadHandover, ReadCaller, ChooseMode, Verifies,
        orderVars, taskVars, payloadVars, bucketVars, Outcomes
<1>4. CASE Return \/ Attest \/ SaveResult
  <2>1. CASE Return
    <3>1. outcome' \in Returned
        BY <2>1 DEF Return, Returned
    <3> QED
        BY <2>1, <3>1 DEF Return, Outcomes, orderVars, taskVars, bucketVars
  <2>2. CASE Attest
    <3>1. attested' \subseteq Calls
        BY <2>2 DEF Attest
    <3>2. UNCHANGED <<orderVars, taskVars, outcome, payloadVars, bucketVars>>
        BY <2>2 DEF Attest
    <3> QED
        BY <3>1, <3>2 DEF orderVars, taskVars, payloadVars, bucketVars
  <2>3. CASE SaveResult
    <3>1. /\ metadata' \in BOOLEAN /\ outcome' \in Outcomes
          /\ UNCHANGED <<orderVars, keyReadable, casFault, tzKey, binding,
                         caller, mode, attested, payloadVars, bucketVars>>
        BY <2>3 DEF SaveResult, loadOrderMetadata, Outcomes
    <3> QED
        BY <3>1 DEF orderVars, payloadVars, bucketVars
  <2> QED
      BY <1>4, <2>1, <2>2, <2>3
<1>5. CASE Restamp
  <2>1. LedgerPut(None, ledger) \in LedgerPuts
      BY DEF LedgerPut, LedgerPuts
  <2> QED
      BY <1>5, <2>1
      DEF Restamp, orderVars, taskVars, payloadVars
<1>6. CASE SendCommit
  <2>1. PICK c \in Calls : /\ calls' = [calls EXCEPT ![c] = "ledger"]
                           /\ ledger' = ledger \cup {c}
                           /\ puts' = puts \cup {LedgerPut(c, ledger \cup {c})}
      BY <1>6 DEF SendCommit
  <2>2. LedgerPut(c, ledger \cup {c}) \in LedgerPuts
      BY DEF LedgerPut, LedgerPuts
  <2> QED
      BY <1>6, <2>1, <2>2 DEF SendCommit, orderVars, taskVars
<1>7. CASE PutResult
  <2>1. \A o \in Answer : AnswerPut(o) \in AnswerPuts
      BY DEF AnswerPut, AnswerPuts
  <2>2. Encrypted(tzKey') \subseteq Answer
      BY DEF Encrypted, Answer
  <2>3. puts' \subseteq LedgerPuts \cup AnswerPuts
      BY <1>7, <2>1, <2>2 DEF PutResult
  <2> QED
      BY <1>7, <2>3
      DEF PutResult, getTrustedZonePublicKey, orderVars, payloadVars
<1>8. ASSUME NEW told \in BOOLEAN, LedgerSettles(told)
      PROVE  TypeOK'
    BY <1>8, PutKinds DEF LedgerSettles, orderVars, taskVars
<1>9. ASSUME NEW told \in BOOLEAN, FileSettles(told)
      PROVE  TypeOK'
    BY <1>9
    DEF FileSettles, orderVars, taskVars
<1>10. ASSUME NEW told \in BOOLEAN, AnswerSettles(told)
       PROVE  TypeOK'
    BY <1>10, PutKinds DEF AnswerSettles, orderVars, taskVars, payloadVars
<1>11. CASE UNCHANGED vars
    BY <1>11
    DEF vars, orderVars, taskVars, payloadVars, bucketVars
<1> QED
    BY <1>1, <1>2, <1>3, <1>4, <1>5, <1>6, <1>7, <1>8, <1>9, <1>10, <1>11
    DEF Next, Steps, Settles

-----------------------------------------------------------------------------
(***************************************************************************)
(* The ledger.                                                             *)
(***************************************************************************)

\* Steps before the payload runs, and those after it that leave it alone.
Apart ==
    /\ UNCHANGED <<payloadVars, bucketVars, attested, mode>>
    /\ missed \subseteq missed'
    /\ \/ mode = None /\ pc' \notin Running \ Finishing
       \/ /\ pc \in Finishing /\ pc' \in Finishing
          /\ outcome' \in {outcome, "SYSTEM_ERROR"}
       \/ UNCHANGED <<pc, outcome>>

LEMMA ApartKeeps ==
    ASSUME LedgerInv, TypeOK', Apart PROVE LedgerInv'
<1> USE DEF LedgerInv
<1>1. UNCHANGED <<calls, ledger, floating, puts, ledgerFile, files, bucket>>
    BY DEF Apart, payloadVars, bucketVars
<1>2. pc = "restamping" => pc' = "restamping"
    BY DEF Apart, PayloadInv, Running, Over, Finishing
<1>3. PutsInv'
    BY <1>1, <1>2 DEF PutsInv
<1>4. mode = None => ledgerFile = ledger /\ Pending = {}
    BY DEF PutsInv, PayloadInv, Pending, TypeOK
<1>5. PayloadInv'
    BY <1>1, <1>4
    DEF Apart, PayloadInv, Pending, Running, Over, Finishing
<1>6. AttestInv'
    BY <1>1, <1>4
    DEF Apart, AttestInv, PayloadInv, Running, Over, Finishing
<1> QED
    BY <1>3, <1>5, <1>6

LEMMA BeforeKeeps ==
    ASSUME LedgerInv, TypeOK',
           \/ ReadEnv \/ Create \/ WaitForPayloadAndInput \/ LoadMetadata
           \/ GetKey \/ ReadBinding \/ ReadHandover \/ ReadCaller
           \/ SaveResult \/ Stage \/ UNCHANGED vars
    PROVE  LedgerInv'
<1>1. ~(pc \in Running) => mode = None
    BY DEF LedgerInv, PayloadInv
<1>2. CASE ReadEnv \/ Create \/ WaitForPayloadAndInput
    BY <1>1, <1>2, ApartKeeps
    DEF ReadEnv, Create, WaitForPayloadAndInput, waitForObjectInBucket, Looks,
        taskVars, Apart, Running, Over, Finishing
<1>3. CASE LoadMetadata \/ GetKey \/ SaveResult
    BY <1>1, <1>3, ApartKeeps
    DEF LoadMetadata, loadOrderMetadata, GetKey, getTrustedZonePublicKey,
        SaveResult, Looks, Apart, Running, Over, Finishing
<1>4. CASE ReadBinding \/ ReadHandover \/ ReadCaller
    BY <1>1, <1>4, ApartKeeps
    DEF ReadBinding, ReadHandover, ReadCaller, Looks, taskVars, Apart,
        Running, Over, Finishing
<1>5. CASE Stage \/ UNCHANGED vars
    BY <1>5, ApartKeeps DEF Stage, vars, taskVars, Apart
<1> QED
    BY <1>2, <1>3, <1>4, <1>5

LEMMA ChooseModeKeeps ==
    ASSUME LedgerInv, TypeOK', ChooseMode PROVE LedgerInv'
<1> USE DEF LedgerInv
<1>1. /\ pc = "mode" /\ pc' = "run" /\ mode' # None
      /\ UNCHANGED <<calls, ledger, floating, puts, ledgerFile, files>>
    BY SecureLockAssumption
    DEF ChooseMode, SecureLockAssumption, payloadVars, bucketVars
<1>2. PutsInv'
    BY <1>1 DEF PutsInv
<1>3. PayloadInv' /\ AttestInv'
    BY <1>1 DEF PayloadInv, AttestInv, Running, Over, Finishing
<1> QED
    BY <1>2, <1>3

LEMMA SendCommitKeeps ==
    ASSUME LedgerInv, TypeOK', SendCommit PROVE LedgerInv'
<1> USE DEF LedgerInv
<1>1. PICK c \in Calls :
         /\ calls[c] = "idle"
         /\ calls' = [calls EXCEPT ![c] = "ledger"]
         /\ ledger' = ledger \cup {c}
         /\ puts' = puts \cup {LedgerPut(c, ledger \cup {c})}
    BY DEF SendCommit
<1>2. /\ pc = "run" \/ floating
      /\ UNCHANGED <<pc, mode, outcome, attested, floating, ledgerFile, files>>
    BY DEF SendCommit, taskVars
<1> DEFINE new == LedgerPut(c, ledger \cup {c})
<1>3. /\ new.object = "ledger" /\ new.by = c
      /\ new.entries = ledger \cup {c} /\ c # None
    BY SecureLockAssumption DEF SecureLockAssumption, LedgerPut
<1> HIDE DEF new
<1>4. puts' = puts \cup {new}
    BY <1>1 DEF new
<1>5. calls \in [Calls -> {"idle", "ledger", "file", "settled", "failed"}]
    BY DEF TypeOK
<1>6. PutsInv'
  <2>1. \A p \in puts : p.object = "ledger" => p.by # c
      BY <1>1 DEF PutsInv
  <2>2. \A p, q \in puts' : p.object = "ledger" /\ q.object = "ledger"
                               /\ p.by = q.by => p = q
      BY <1>3, <1>4, <2>1 DEF PutsInv
  <2>3. ASSUME NEW p \in puts', p.object = "ledger"
        PROVE  /\ p.entries \subseteq ledger'
               /\ p.by \in Calls => calls'[p.by] = "ledger"
               /\ p.by = None => pc' = "restamping"
    <3>1. CASE p = new
        BY <1>1, <1>3, <1>5, <3>1
    <3>2. CASE p \in puts
        BY <1>1, <1>2, <1>5, <2>1, <2>3, <3>2 DEF PutsInv
    <3> QED
        BY <1>4, <3>1, <3>2
  <2>4. /\ ledgerFile' \subseteq ledger'
        /\ \A d \in Calls : calls'[d] = "idle" <=> d \notin ledger'
        /\ \A d \in files' : calls'[d] # "idle"
      BY <1>1, <1>2, <1>5 DEF PutsInv, TypeOK
  <2> QED
      BY <2>2, <2>3, <2>4 DEF PutsInv
<1>7. PayloadInv'
  <2>1. mode # None
      BY <1>2 DEF PayloadInv, Running, Finishing, Over
  <2>2. ~floating => \A p \in puts : p.object = "ledger" => p.by # None
      BY <1>2 DEF PutsInv
  <2> QED
      BY <1>2, <1>3, <1>4, <2>1, <2>2
      DEF PayloadInv, Running, Over, Finishing
<1>8. AttestInv'
    BY <1>2 DEF AttestInv, Finishing
<1> QED
    BY <1>6, <1>7, <1>8

LEMMA ReturnKeeps ==
    ASSUME LedgerInv, TypeOK', Return PROVE LedgerInv'
<1> USE DEF LedgerInv
<1>1. /\ pc = "run" /\ pc' = IF ledger = {} THEN "attest" ELSE "restamp"
      /\ ~floating' => Pending = {}
      /\ UNCHANGED <<mode, calls, ledger, puts, ledgerFile, files>>
    BY DEF Return, taskVars, bucketVars
<1>2. \A p \in puts : p.object = "ledger" => p.by # None
    BY <1>1 DEF PutsInv
<1>3. mode # None
    BY <1>1 DEF PayloadInv, Running, Over, Finishing
<1>4. PutsInv'
    BY <1>1, <1>2 DEF PutsInv
<1>5. PayloadInv'
    BY <1>1, <1>2, <1>3 DEF PayloadInv, Pending, Running, Over, Finishing
<1>6. AttestInv'
    BY <1>1 DEF AttestInv, PutsInv, Finishing
<1> QED
    BY <1>4, <1>5, <1>6

LEMMA RestampKeeps ==
    ASSUME LedgerInv, TypeOK', Restamp PROVE LedgerInv'
<1> USE DEF LedgerInv
<1> DEFINE new == LedgerPut(None, ledger)
<1>1. /\ pc = "restamp" /\ pc' = "restamping" /\ puts' = puts \cup {new}
      /\ UNCHANGED <<mode, calls, ledger, floating, ledgerFile, files>>
    BY DEF Restamp, taskVars, payloadVars
<1>2. /\ new.object = "ledger" /\ new.by = None /\ new.entries = ledger
      /\ None \notin Calls
    BY SecureLockAssumption DEF SecureLockAssumption, LedgerPut
<1> HIDE DEF new
<1>3. \A p \in puts : p.object = "ledger" => p.by # None
    BY <1>1 DEF PutsInv
<1>4. PutsInv'
    BY <1>1, <1>2, <1>3 DEF PutsInv
<1>5. PayloadInv'
    BY <1>1, <1>2 DEF PayloadInv, Pending, Running, Over, Finishing
<1>6. AttestInv'
    BY <1>1 DEF AttestInv, Finishing
<1> QED
    BY <1>4, <1>5, <1>6

LEMMA AttestKeeps ==
    ASSUME LedgerInv, TypeOK', Attest PROVE LedgerInv'
<1> USE DEF LedgerInv
<1>1. /\ pc = "attest" /\ pc' = "save"
      /\ attested' = IF outcome = "ENVELOPE" THEN ledger ELSE {}
      /\ UNCHANGED <<mode, outcome, calls, ledger, floating, puts, ledgerFile>>
      /\ UNCHANGED <<files, missed>>
    BY DEF Attest, taskVars, payloadVars, bucketVars
<1>2. PutsInv'
    BY <1>1 DEF PutsInv
<1>3. PayloadInv' /\ AttestInv'
    BY <1>1 DEF PayloadInv, AttestInv, Pending, Running, Over, Finishing
<1> QED
    BY <1>2, <1>3

LEMMA PutResultKeeps ==
    ASSUME LedgerInv, TypeOK', PutResult PROVE LedgerInv'
<1> USE DEF LedgerInv
<1>1. /\ pc = "put" /\ pc' = "end" /\ missed \subseteq missed'
      /\ UNCHANGED <<mode, outcome, attested, calls, ledger, floating>>
      /\ UNCHANGED <<ledgerFile, files>>
    BY DEF PutResult, getTrustedZonePublicKey, Looks, payloadVars
<1>2. \A p \in puts' : p.object = "ledger" => p \in puts
  <2>1. \A o \in Encrypted(tzKey') : AnswerPut(o).object # "ledger"
      BY DEF Encrypted, Answer, AnswerPut
  <2> QED
      BY <2>1 DEF PutResult
<1>3. PutsInv'
    BY <1>1, <1>2 DEF PutsInv
<1>4. PayloadInv'
    BY <1>1, <1>2 DEF PayloadInv, Pending, Running, Over, Finishing
<1>5. AttestInv'
    BY <1>1 DEF AttestInv, Finishing
<1> QED
    BY <1>3, <1>4, <1>5

LEMMA LedgerSettlesKeeps ==
    ASSUME LedgerInv, TypeOK', NEW told \in BOOLEAN, LedgerSettles(told)
    PROVE  LedgerInv'
<1> USE DEF LedgerInv
<1>1. PICK p \in puts :
         /\ p.object = "ledger" /\ puts' = puts \ {p}
         /\ ledgerFile' \in {p.entries} \cup IF told THEN {} ELSE {ledgerFile}
         /\ IF p.by = None
            THEN /\ pc' = "attest" /\ UNCHANGED calls
                 /\ Looks("ledger", told)
            ELSE /\ calls' = [calls EXCEPT ![p.by] =
                                 IF told THEN "file" ELSE "failed"]
                 /\ UNCHANGED <<pc, missed>>
    BY DEF LedgerSettles
<1>2. UNCHANGED <<mode, outcome, attested, ledger, floating, files>>
    BY DEF LedgerSettles, taskVars
<1>3. /\ p.by \in Calls \cup {None} /\ None \notin Calls
      /\ p.entries \subseteq ledger
    BY <1>1, PutKinds, SecureLockAssumption
    DEF TypeOK, PutsInv, SecureLockAssumption
<1>4. /\ \A q \in puts' : q.object = "ledger" => q.by # p.by
      /\ ledgerFile' \subseteq ledger
    BY <1>1, <1>3 DEF PutsInv
<1>5. CASE p.by = None
  <2>1. /\ pc = "restamping" /\ pc' = "attest" /\ UNCHANGED calls
        /\ missed \subseteq missed' /\ (told \/ "ledger" \in missed')
      BY <1>1, <1>5 DEF PutsInv, Looks
  <2>2. PutsInv'
      BY <1>1, <1>2, <1>4, <1>5, <2>1 DEF PutsInv
  <2>3. PayloadInv'
      BY <1>1, <1>2, <2>1 DEF PayloadInv, Pending, Running, Over, Finishing
  <2>4. ~floating => p.entries = ledger
      BY <1>1, <1>5 DEF PayloadInv
  <2>5. AttestInv'
      BY <1>1, <1>2, <2>1, <2>4 DEF AttestInv, Finishing
  <2> QED
      BY <2>2, <2>3, <2>5
<1>6. CASE p.by \in Calls
  <2>1. /\ calls' = [calls EXCEPT ![p.by] = IF told THEN "file" ELSE "failed"]
        /\ UNCHANGED <<pc, missed>> /\ calls[p.by] = "ledger"
        /\ calls \in [Calls -> {"idle", "ledger", "file", "settled", "failed"}]
      BY <1>1, <1>3, <1>6 DEF PutsInv, TypeOK
  <2>2. \A c \in Calls \ {p.by} : calls'[c] = calls[c]
      BY <2>1
  <2>3. calls'[p.by] \in {"file", "failed"}
      BY <1>6, <2>1
  <2>4. PutsInv'
      BY <1>1, <1>2, <1>4, <1>6, <2>1, <2>2, <2>3 DEF PutsInv, TypeOK
  <2>5. p.by \in Pending
      BY <1>6, <2>1 DEF Pending
  <2>6. floating \/ pc \notin Over
      BY <2>5 DEF PayloadInv
  <2>7. PayloadInv'
      BY <1>1, <1>2, <2>1, <2>6 DEF PayloadInv
  <2>8. AttestInv'
      BY <1>2, <2>1, <2>6 DEF AttestInv, Over, Finishing
  <2> QED
      BY <2>4, <2>7, <2>8
<1> QED
    BY <1>3, <1>5, <1>6

LEMMA FileSettlesKeeps ==
    ASSUME LedgerInv, TypeOK', NEW told \in BOOLEAN, FileSettles(told)
    PROVE  LedgerInv'
<1> USE DEF LedgerInv
<1>1. PICK c \in Calls :
         /\ calls[c] = "file"
         /\ calls' = [calls EXCEPT ![c] = IF told THEN "settled" ELSE "failed"]
         /\ files' \subseteq files \cup {c}
    BY DEF FileSettles
<1>2. /\ UNCHANGED <<pc, mode, outcome, attested, ledger, floating, puts>>
      /\ UNCHANGED <<ledgerFile, missed>>
    BY DEF FileSettles, taskVars
<1>3. calls \in [Calls -> {"idle", "ledger", "file", "settled", "failed"}]
    BY DEF TypeOK
<1>4. /\ calls'[c] \in {"settled", "failed"}
      /\ \A d \in Calls \ {c} : calls'[d] = calls[d]
    BY <1>1, <1>3
<1>5. PutsInv'
    BY <1>1, <1>2, <1>4 DEF PutsInv, TypeOK
<1>6. floating \/ pc \notin Over
    BY <1>1 DEF PayloadInv, Pending
<1>7. PayloadInv'
    BY <1>2, <1>6 DEF PayloadInv
<1>8. AttestInv'
    BY <1>2, <1>6 DEF AttestInv, Over, Finishing
<1> QED
    BY <1>5, <1>7, <1>8

LEMMA AnswerSettlesKeeps ==
    ASSUME LedgerInv, TypeOK', NEW told \in BOOLEAN, AnswerSettles(told)
    PROVE  LedgerInv'
<1> USE DEF LedgerInv
<1>1. /\ puts' \subseteq puts /\ missed \subseteq missed'
      /\ UNCHANGED <<pc, mode, outcome, attested, calls, ledger, floating>>
      /\ UNCHANGED <<ledgerFile, files>>
    BY DEF AnswerSettles, Looks, taskVars, payloadVars
<1>2. PutsInv'
    BY <1>1 DEF PutsInv
<1>3. PayloadInv' /\ AttestInv'
    BY <1>1 DEF PayloadInv, AttestInv, Pending
<1> QED
    BY <1>2, <1>3

LEMMA LedgerInvStays ==
    ASSUME LedgerInv, [Next]_vars PROVE LedgerInv'
<1>1. TypeOK'
    BY TypesStay DEF LedgerInv
<1> QED
    BY <1>1, BeforeKeeps, ChooseModeKeeps, SendCommitKeeps, ReturnKeeps,
       RestampKeeps, AttestKeeps, PutResultKeeps, LedgerSettlesKeeps,
       FileSettlesKeeps, AnswerSettlesKeeps
    DEF Next, Steps, Settles

LEMMA LedgerInitially ==
    ASSUME Init PROVE LedgerInv
<1>1. TypeOK
    BY DEF Init, TypeOK, Outcomes
<1>2. PutsInv /\ PayloadInv /\ AttestInv
    BY DEF Init, PutsInv, PayloadInv, AttestInv, Running, Over, Finishing
<1> QED
    BY <1>1, <1>2 DEF LedgerInv

\* A settled payload leaves a ledger that is attested and staged whole,
\* however its commits overlapped (ecld_state.js, securelock.js.tmpl).
THEOREM SettledAttested == Spec => []SettledIsAttested
<1>1. LedgerInv => SettledIsAttested
    BY DEF LedgerInv, TypeOK, PutsInv, AttestInv, SettledIsAttested, Finishing
<1> QED
    BY <1>1, LedgerInitially, LedgerInvStays, PTL DEF Spec

-----------------------------------------------------------------------------
(***************************************************************************)
(* The answer.                                                             *)
(***************************************************************************)

\* What has happened to the order can only be added to.
LEMMA UnfailedBefore ==
    ASSUME missed \subseteq missed', UNCHANGED <<order, casFault, keyReadable>>
    PROVE  Unfailed' => Unfailed
<1> QED
    BY DEF Unfailed

\* Until the result is put, nothing of it is there.
LEMMA NotYetAnswered ==
    ASSUME AnswerInv, pc # "end", pc' # "end", pc' = "put" => metadata',
           UNCHANGED bucket, \A p \in puts' \ puts : p.object = "ledger"
    PROVE  AnswerInv'
<1>1. "ledger" \notin Answer
    BY DEF Answer
<1> QED
    BY <1>1 DEF AnswerInv

LEMMA StepsToPayloadAnswer ==
    ASSUME OrderInv, \/ Create \/ WaitForPayloadAndInput \/ LoadMetadata
                     \/ GetKey \/ ReadBinding \/ ReadHandover \/ ReadCaller
                     \/ ChooseMode
    PROVE  OrderInv'
<1> USE DEF OrderInv
<1>1. /\ pc # "end" /\ pc' \notin {"end", "put"}
      /\ UNCHANGED <<puts, bucket>>
    BY DEF Create, WaitForPayloadAndInput, waitForObjectInBucket, LoadMetadata,
           loadOrderMetadata, GetKey, ReadBinding, ReadHandover, ReadCaller,
           ChooseMode, bucketVars
<1>2. AnswerInv'
    BY <1>1, NotYetAnswered
<1>3. missed \subseteq missed'
    BY DEF Create, WaitForPayloadAndInput, waitForObjectInBucket, LoadMetadata,
           loadOrderMetadata, GetKey, getTrustedZonePublicKey, ReadBinding,
           ReadHandover, ReadCaller, ChooseMode, Looks
<1> USE DEF AfterMetadata, AfterKey, AfterBinding, AfterCaller, Running, Over,
            Finishing
<1>4. CASE Create
    BY <1>2, <1>4 DEF Create, Looks, ProgressInv, Unfailed
<1>5. CASE WaitForPayloadAndInput
    BY <1>2, <1>5
    DEF WaitForPayloadAndInput, waitForObjectInBucket, Looks, ProgressInv,
        Unfailed
<1>6. CASE LoadMetadata \/ GetKey
  <2>1. Unfailed' => Unfailed
      BY <1>3, <1>6, UnfailedBefore DEF LoadMetadata, GetKey, orderVars
  <2> QED
      BY <1>2, <1>6, <2>1
      DEF LoadMetadata, loadOrderMetadata, GetKey, getTrustedZonePublicKey,
          Looks, ProgressInv, Unfailed
<1>7. CASE ReadBinding \/ ReadHandover
  <2>1. Unfailed' => Unfailed
      BY <1>3, <1>7, UnfailedBefore
      DEF ReadBinding, ReadHandover, orderVars, taskVars
  <2> QED
      BY <1>2, <1>7, <2>1
      DEF ReadBinding, ReadHandover, Looks, Verifies, orderVars, taskVars,
          ProgressInv, Unfailed
<1>8. CASE ReadCaller \/ ChooseMode
  <2>1. Unfailed' => Unfailed
      BY <1>3, <1>8, UnfailedBefore DEF ReadCaller, ChooseMode, orderVars
  <2> QED
      BY <1>2, <1>8, <2>1
      DEF ReadCaller, ChooseMode, Looks, Verifies, orderVars, ProgressInv,
          Unfailed
<1> QED
    BY <1>2, <1>4, <1>5, <1>6, <1>7, <1>8

LEMMA StepsOfPayloadAnswer ==
    ASSUME OrderInv, Return \/ Restamp \/ Attest
    PROVE  OrderInv'
<1> USE DEF OrderInv
<1>1. /\ pc # "end" /\ pc' \notin {"end", "put"} /\ UNCHANGED bucket
      /\ \A p \in puts' \ puts : p.object = "ledger"
  <2>1. CASE Restamp
    <3>1. LedgerPut(None, ledger).object = "ledger"
        BY DEF LedgerPut
    <3> QED
        BY <2>1, <3>1 DEF Restamp
  <2>2. CASE Return \/ Attest
      BY <2>2 DEF Return, Attest, bucketVars
  <2> QED
      BY <2>1, <2>2
<1>2. AnswerInv'
    BY <1>1, NotYetAnswered
<1>3. ProgressInv'
  <2>1. Return => outcome' \in Returned
      BY DEF Return, Returned
  <2> QED
      BY <2>1
      DEF Return, Restamp, Attest, orderVars, taskVars, ProgressInv, Unfailed,
          AfterMetadata, AfterKey, AfterBinding, AfterCaller, Running, Over,
          Finishing
<1> QED
    BY <1>2, <1>3

LEMMA SavingAnswer ==
    ASSUME OrderInv, ReadEnv \/ SaveResult PROVE OrderInv'
<1> USE DEF OrderInv
<1>1. CASE ReadEnv
  <2>1. AnswerInv'
      BY <1>1 DEF ReadEnv, Looks, AnswerInv, Cause, bucketVars
  <2> QED
      BY <1>1, <2>1
      DEF ReadEnv, Looks, ProgressInv, Unfailed, AfterMetadata, AfterKey,
          AfterBinding, AfterCaller, Running, Over, Finishing
<1>2. CASE SaveResult
  <2>1. AnswerInv'
    <3>1. /\ pc = "save" /\ UNCHANGED <<puts, bucket>>
          /\ pc' \in {"put", "end"}
          /\ pc' = "put" => metadata'
          /\ pc' = "end" => ~metadata' /\ "metadata" \in missed'
        BY <1>2 DEF SaveResult, loadOrderMetadata, Looks, bucketVars
    <3> QED
        BY <3>1 DEF AnswerInv, Cause
  <2>2. ProgressInv'
      BY <1>2
      DEF SaveResult, loadOrderMetadata, Looks, orderVars, ProgressInv,
          Unfailed, AfterMetadata, AfterKey, AfterBinding, AfterCaller,
          Running, Over, Finishing
  <2> QED
      BY <2>1, <2>2
<1> QED
    BY <1>1, <1>2

LEMMA PutResultAnswer ==
    ASSUME OrderInv, TypeOK, TypeOK', PutResult PROVE OrderInv'
<1> USE DEF OrderInv
<1>1. /\ pc = "put" /\ pc' = "end"
      /\ UNCHANGED <<metadata, keyReadable, outcome, binding, attested, bucket>>
      /\ puts' = puts \cup {AnswerPut(o) : o \in Encrypted(tzKey')}
      /\ tzKey' \/ "key" \in missed'
      /\ tzKey => tzKey'
    BY DEF PutResult, getTrustedZonePublicKey, Looks, TypeOK
<1>2. \A o \in Answer : /\ AnswerPut(o).object = o
                         /\ AnswerPut(o).outcome = outcome'
                         /\ AnswerPut(o).binding = binding'
                         /\ AnswerPut(o).attested = attested'
    BY <1>1 DEF AnswerPut
<1>3. AnswerInv'
  <2>1. Encrypted(tzKey') \subseteq Answer
      BY DEF Encrypted, Answer
  <2>2. \A p \in puts' : p.object \in Answer => Current(p)'
      BY <1>1, <1>2, <2>1 DEF AnswerInv, Current
  <2>3. \A o \in Answer : bucket'[o] = None
      BY <1>1 DEF AnswerInv
  <2>4. ~Cause' => Encrypted(tzKey') = Answer
      BY <1>1 DEF Cause, Encrypted, TypeOK
  <2>5. ~Cause' => \A o \in Answer : AnswerPut(o) \in puts'
      BY <1>1, <2>4
  <2> QED
      BY <1>1, <1>2, <2>2, <2>3, <2>5 DEF AnswerInv
<1>4. ProgressInv'
  <2>1. /\ missed \subseteq missed'
        /\ UNCHANGED <<order, casFault, keyReadable, metadata, binding, caller>>
        /\ UNCHANGED <<mode, outcome>>
      BY DEF PutResult, getTrustedZonePublicKey, Looks, orderVars
  <2>2. Unfailed' => Unfailed
      BY <2>1, UnfailedBefore
  <2> QED
      BY <1>1, <2>1, <2>2
      DEF ProgressInv, AfterMetadata, AfterKey, AfterBinding, AfterCaller,
          Running, Over, Finishing
<1> QED
    BY <1>3, <1>4

LEMMA BucketAnswer ==
    ASSUME OrderInv, LedgerInv, NEW told \in BOOLEAN,
           LedgerSettles(told) \/ FileSettles(told) \/ AnswerSettles(told)
    PROVE  OrderInv'
<1> USE DEF OrderInv
<1>1. /\ UNCHANGED <<order, taskVars, outcome, attested>>
      /\ puts' \subseteq puts /\ missed \subseteq missed'
    BY DEF LedgerSettles, FileSettles, AnswerSettles, Looks, orderVars
<1>2. \/ UNCHANGED pc
      \/ pc = "restamping" /\ pc' = "attest"
  <2>1. CASE LedgerSettles(told)
      BY <2>1 DEF LedgerSettles, LedgerInv, PutsInv
  <2> QED
      BY <2>1 DEF FileSettles, AnswerSettles
<1>3. ProgressInv'
    BY <1>1, <1>2
    DEF taskVars, ProgressInv, Unfailed, AfterMetadata, AfterKey, AfterBinding,
        AfterCaller, Running, Over, Finishing
<1>4. AnswerInv'
  <2>1. CASE ~AnswerSettles(told)
    <3>1. UNCHANGED bucket /\ \A p \in puts \ puts' : p.object = "ledger"
        BY <2>1 DEF LedgerSettles, FileSettles
    <3>2. "ledger" \notin Answer
        BY DEF Answer
    <3> QED
        BY <1>1, <1>2, <3>1, <3>2 DEF AnswerInv, Current, Cause, taskVars
  <2>2. CASE AnswerSettles(told)
    <3>1. PICK p \in puts :
             /\ p.object \in Answer /\ puts' = puts \ {p}
             /\ IF told THEN bucket' = [bucket EXCEPT ![p.object] = p]
                        ELSE UNCHANGED bucket /\ "put" \in missed'
        BY <2>2 DEF AnswerSettles, Looks
    <3>2. /\ pc = "end" /\ Current(p) /\ p # None
          /\ bucket \in [Answer -> AnswerPuts \cup {None}]
        BY <3>1, PutKinds DEF AnswerInv, LedgerInv, TypeOK
    <3>3. UNCHANGED pc
        BY <2>2 DEF AnswerSettles
    <3>4. CASE told
      <4>1. /\ bucket'[p.object] = p
            /\ \A o \in Answer \ {p.object} : bucket'[o] = bucket[o]
          BY <3>1, <3>2, <3>4
      <4> QED
          BY <1>1, <3>1, <3>2, <3>3, <4>1
          DEF AnswerInv, Current, Cause, taskVars
    <3>5. CASE ~told
        BY <1>1, <3>1, <3>2, <3>3, <3>5
        DEF AnswerInv, Current, Cause, taskVars
    <3> QED
        BY <3>4, <3>5
  <2> QED
      BY <2>1, <2>2
<1> QED
    BY <1>3, <1>4

LEMMA OtherAnswer ==
    ASSUME OrderInv, Stage \/ SendCommit \/ UNCHANGED vars PROVE OrderInv'
<1> USE DEF OrderInv
<1>1. /\ UNCHANGED <<order, pc, taskVars, outcome, attested, bucket, missed>>
      /\ puts \subseteq puts'
      /\ \A p \in puts' \ puts : p.object = "ledger"
    BY DEF Stage, SendCommit, LedgerPut, vars, orderVars, bucketVars
<1>2. "ledger" \notin Answer
    BY DEF Answer
<1>3. AnswerInv'
    BY <1>1, <1>2 DEF AnswerInv, Current, Cause, taskVars
<1>4. ProgressInv'
    BY <1>1 DEF ProgressInv, Unfailed, taskVars
<1> QED
    BY <1>3, <1>4

LEMMA OrderInitially ==
    ASSUME Init PROVE OrderInv
<1> QED
    BY DEF Init, OrderInv, AnswerInv, ProgressInv, AfterMetadata, AfterKey,
           AfterBinding, AfterCaller, Running, Over, Finishing

\* However an order ends, its answer is whole or one of the named causes holds,
\* and an order that missed nothing ran as asked (securelock.js.tmpl).
THEOREM EveryOrderAnswered == Spec => []OrderAnswered
<1>1. LedgerInv /\ OrderInv /\ [Next]_vars => LedgerInv' /\ OrderInv'
  <2> SUFFICES ASSUME LedgerInv, OrderInv, [Next]_vars
               PROVE  LedgerInv' /\ OrderInv'
      OBVIOUS
  <2>1. LedgerInv' /\ TypeOK /\ TypeOK'
      BY LedgerInvStays DEF LedgerInv
  <2> QED
      BY <2>1, StepsToPayloadAnswer, StepsOfPayloadAnswer, SavingAnswer,
         PutResultAnswer, BucketAnswer, OtherAnswer
      DEF Next, Steps, Settles
<1>2. LedgerInv /\ OrderInv => OrderAnswered
  <2> SUFFICES ASSUME LedgerInv, OrderInv, Ended PROVE OrderAnswered
      BY DEF OrderAnswered
  <2>1. Answered \/ Cause
      BY DEF OrderInv, AnswerInv, Ended, Answered, Current
  <2>2. Unfailed => /\ Answered /\ outcome \in Returned /\ binding /\ caller
                    /\ mode = "session" <=> order.session
      BY <2>1
      DEF OrderInv, ProgressInv, Unfailed, Cause, Ended, AfterMetadata,
          AfterKey, AfterBinding, AfterCaller, Running, Over, Finishing
  <2> QED
      BY <2>1, <2>2 DEF OrderAnswered, Unfailed, Cause
<1> QED
    BY <1>1, <1>2, LedgerInitially, OrderInitially, PTL DEF Spec

=============================================================================
