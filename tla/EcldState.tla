----------------------------- MODULE EcldState -----------------------------
(***************************************************************************)
(* The Enclave State Registry (ESR) as ecld_state.js implements it: orders *)
(* of one enclave ("tasks") read and commit encrypted state under keys     *)
(* that a contract records as (cid, version, nonce, relayNonce).           *)
(*                                                                         *)
(* The enclave never sends a transaction.  A commit SIGNS an authorization *)
(* and stages it in the order's bucket; the node relays it to the contract *)
(* later, in any order, or never.  Until then the task answers its own     *)
(* reads from a memo of what it signed.                                    *)
(*                                                                         *)
(* A task is one run of the securelock, with the module variables of       *)
(* ecld_state.js.  A fiber is one pending call of its payload: a payload   *)
(* that awaits every call has one fiber (so has every pynithy payload,     *)
(* ecld_state.py being synchronous), one that starts several calls and     *)
(* awaits them together has several.  A step ends where the code awaits    *)
(* the chain or the bucket; the other fibers, the other tasks and the node *)
(* run between two steps.  Continuations of promises that are already      *)
(* resolved are part of the step that resolved them.                       *)
(***************************************************************************)
EXTENDS EsrAcl, Integers, Sequences, FiniteSets

CONSTANTS Tasks,                \* the runs of the enclave
          Fibers,               \* concurrent calls of one payload
          Keys,                 \* state keys
          Caller,               \* Caller[t]: the attested caller of t, or None
          Calls,                \* the calls a payload may make
          MAX_COMMITS_PER_TASK, \* 256 in the code
          Attempts,             \* optimistic-concurrency attempts, 3 in the code
          LocalApply,           \* TRUE: esr_local applies a commit at once
          Failures,             \* TRUE: an await on chain or bucket may throw
          MaxCalls              \* bound: calls per task

Reads == {"get", "owner", "acl"}
Kinds == Reads \cup {"commit"} \cup OwnerOps

Call == [kind: Kinds, key: Keys, pin: Nat \cup {None}, who: Principal,
         level: Levels]

ASSUME EcldStateAssumption ==
    /\ Caller \in [Tasks -> Principal]
    /\ Calls \subseteq Call
    /\ \A c \in Calls : c.kind \in {"grant", "transfer"} => c.who # None
    /\ MAX_COMMITS_PER_TASK \in Nat
    /\ Attempts \in Nat \ {0}
    /\ LocalApply \in BOOLEAN
    /\ Failures \in BOOLEAN
    /\ MaxCalls \in Nat

(***************************************************************************)
(* A stored container.  iv stands for the random nonce encrypt() draws, so *)
(* for the object's CID: no two blobs share one.  parent is the iv of the  *)
(* container the data was computed from, which is all the model keeps of   *)
(* the data; memo tells whether that container came from the task's own    *)
(* memo rather than from the chain.                                        *)
(***************************************************************************)
Id == Tasks \X Nat \X Nat
Blob == [iv: Id \cup {None}, parent: Id \cup {None}, memo: BOOLEAN,
         acl: Acl \cup {None}, committedBy: Principal, nonce: Nat]

\* What a read returns when the registry has no entry: the fallback, unowned.
NoBlob == [iv |-> None, parent |-> None, memo |-> FALSE, acl |-> None,
           committedBy |-> None, nonce |-> 0]

\* What the enclave signs: nonce is the pinned one, 0 when it was omitted.
Auth == [key: Keys, blob: Blob, expectedVersion: Nat, relayNonce: Nat,
         nonce: Nat]

Entry == [blob: Blob, version: Nat, nonce: Nat, relayNonce: Nat]
NoEntry == [blob |-> NoBlob, version |-> 0, nonce |-> 0, relayNonce |-> 0]

Memo == [blob: Blob, version: Nat]
NoMemo == [blob |-> NoBlob, version |-> 0]

Labels == {"idle", "getState", "fetch", "deliver", "getNonce", "relayNonce",
           "sign", "putLedger", "putCommit"}
Outcomes == {"none", "ok", "permission", "nonce", "limit", "tampered",
             "failed"}

Op == [pc: Labels, call: Call \cup {None}, no: Nat, attempt: Nat,
       base: Blob, version: Nat, memo: BOOLEAN, blob: Blob, relayNonce: Nat,
       at: Nat, out: Outcomes]
IdleOp == [pc |-> "idle", call |-> None, no |-> 0, attempt |-> 0,
           base |-> NoBlob, version |-> 0, memo |-> FALSE, blob |-> NoBlob,
           relayNonce |-> 0, at |-> 0, out |-> "none"]

VARIABLES
    chain,       \* the contract's entry of each key
    staged,      \* authorizations the node has seen in the bucket
    ledger,      \* _esrLedger of each task
    nonces,      \* _taskNonces
    writes,      \* _taskWrites
    relayNonces, \* _taskRelayNonces
    results,     \* _taskLedger: what the result will report per key
    calls,       \* number of calls the payload has made
    op           \* what each fiber is doing

\* History, read by the properties only.
VARIABLES
    landed,      \* the authorizations the contract accepted, in order
    acked        \* the authorizations whose commit() returned

chainVars == <<chain, landed>>
taskVars == <<ledger, nonces, writes, relayNonces, results>>
vars == <<chain, staged, ledger, nonces, writes, relayNonces, results, calls,
          op, landed, acked>>

Larger(a, b) == IF a > b THEN a ELSE b

PerTaskKey(v) == [t \in Tasks |-> [k \in Keys |-> v]]

Init ==
    /\ chain = [k \in Keys |-> NoEntry]
    /\ staged = {}
    /\ ledger = [t \in Tasks |-> <<>>]
    /\ nonces = PerTaskKey(0)
    /\ writes = PerTaskKey(NoMemo)
    /\ relayNonces = PerTaskKey(0)
    /\ results = PerTaskKey(NoMemo)
    /\ calls = [t \in Tasks |-> 0]
    /\ op = [t \in Tasks |-> [f \in Fibers |-> IdleOp]]
    /\ landed = [k \in Keys |-> <<>>]
    /\ acked = {}

Goto(t, f, o) == op' = [op EXCEPT ![t][f] = o]
Return(t, f, out) == Goto(t, f, [IdleOp EXCEPT !.out = out])

\* The per-run limit on authorizations, checked before the first await.
AtLimit(t) == Len(ledger[t]) >= MAX_COMMITS_PER_TASK

(***************************************************************************)
(* The payload calls get, commit, an owner operation, esrOwner or esrAcl.  *)
(* An owner operation is refused at once to an anonymous caller.           *)
(***************************************************************************)
Invoke(t, f, c) ==
    /\ op[t][f].pc = "idle"
    /\ calls[t] < MaxCalls
    /\ calls' = [calls EXCEPT ![t] = @ + 1]
    /\ IF c.kind \in OwnerOps /\ Caller[t] = None
       THEN Return(t, f, "permission")
       ELSE IF c.kind \notin Reads /\ AtLimit(t)
       THEN Return(t, f, "limit")
       ELSE Goto(t, f, [IdleOp EXCEPT !.pc = "getState", !.call = c,
                                      !.no = calls[t] + 1])
    /\ UNCHANGED <<chainVars, taskVars, staged, acked>>

\* Where a container goes once it is read.
AfterRead(c) == IF c.kind \in Reads THEN "deliver" ELSE "getNonce"

\* The task's own commit is preferred while the chain shows an older version.
NeverPrefersOwn(t, k) == FALSE
PrefersOwn(t, k) == writes[t][k].version > chain[k].version

(***************************************************************************)
(* The answer to getState: the task's own commit if it is newer; a key      *)
(* without an entry is the fallback; otherwise the object the entry names  *)
(* has to be fetched.                                                      *)
(***************************************************************************)
ReadState(t, f) ==
    LET o == op[t][f]
        k == o.call.key
        own == writes[t][k]
    IN  /\ o.pc = "getState"
        /\ \/ /\ PrefersOwn(t, k)
              /\ Goto(t, f, [o EXCEPT !.pc = AfterRead(o.call), !.memo = TRUE,
                                      !.base = own.blob,
                                      !.version = own.version])
           \/ /\ ~PrefersOwn(t, k)
              /\ Goto(t, f, [o EXCEPT !.pc = IF chain[k].version = 0
                                             THEN AfterRead(o.call)
                                             ELSE "fetch",
                                      !.memo = FALSE,
                                      !.base = chain[k].blob,
                                      !.version = chain[k].version])
        /\ UNCHANGED <<chainVars, taskVars, staged, calls, acked>>

(***************************************************************************)
(* The object is fetched and matches its CID, then the nonce it carries is *)
(* compared with the one the chain shows NOW.  (An object that is not      *)
(* staged in time is a Fail step.)                                         *)
(***************************************************************************)
CheckNonceCopy(t, f) ==
    LET o == op[t][f]
    IN  /\ o.pc = "fetch"
        /\ IF o.base.nonce # chain[o.call.key].nonce
           THEN Return(t, f, "tampered")
           ELSE Goto(t, f, [o EXCEPT !.pc = AfterRead(o.call)])
        /\ UNCHANGED <<chainVars, taskVars, staged, calls, acked>>

MayDeliver(c, acl, caller) ==
    CASE c.kind = "get"   -> canRead(acl, caller)
      [] c.kind = "owner" -> TRUE
      [] c.kind = "acl"   -> acl = None \/ (caller # None /\ acl.owner = caller)

\* A read returns; get also records what it saw for the task's result.
Deliver(t, f) ==
    LET o == op[t][f]
    IN  /\ o.pc = "deliver"
        /\ IF MayDeliver(o.call, o.base.acl, Caller[t])
           THEN /\ Return(t, f, "ok")
                /\ results' =
                     IF o.call.kind = "get"
                     THEN [results EXCEPT ![t][o.call.key] =
                             [blob |-> o.base, version |-> o.version]]
                     ELSE results
           ELSE /\ Return(t, f, "permission")
                /\ UNCHANGED results
        /\ UNCHANGED <<chainVars, staged, ledger, nonces, writes, relayNonces,
                       calls, acked>>

\* getNonce: the chain's value merged with the task's own accepted commits.
getNonce(t, k) == Larger(chain[k].nonce, nonces[t][k])

\* commit needs write permission; an owner operation the ownership, which an
\* unowned key gives to the caller first.
MayCommitIfWriter(c, acl, caller) == canWrite(acl, caller)
MayCommit(c, acl, caller) ==
    IF c.kind = "commit" THEN canWrite(acl, caller)
                         ELSE Claimed(acl, caller).owner = caller

NextAcl(c, acl, caller) ==
    IF c.kind = "commit"
    THEN Claimed(acl, caller)
    ELSE OwnerOp(c.kind, Claimed(acl, caller), c.who, c.level)

(***************************************************************************)
(* The answer to getNonce: a pinned nonce has to be the next one, an       *)
(* omitted one is predicted for the blob's copy.  Then transform runs on   *)
(* the container that was read, and the result is wrapped and encrypted.   *)
(* The puts of the blob, of which nothing is modelled, come next.          *)
(***************************************************************************)
ReadNonce(t, f) ==
    LET o == op[t][f]
        c == o.call
        acl == NextAcl(c, o.base.acl, Caller[t])
        next == getNonce(t, c.key) + 1
    IN  /\ o.pc = "getNonce"
        /\ IF c.pin # None /\ c.pin # next
           THEN Return(t, f, "nonce")
           ELSE IF ~MayCommit(c, o.base.acl, Caller[t])
           THEN Return(t, f, "permission")
           ELSE Goto(t, f,
                  [o EXCEPT !.pc = "relayNonce",
                            !.blob = [iv |-> <<t, o.no, o.attempt>>,
                                      parent |-> o.base.iv, memo |-> o.memo,
                                      acl |-> acl,
                                      committedBy |-> IF acl = None
                                                      THEN None
                                                      ELSE Caller[t],
                                      nonce |-> next]])
        /\ UNCHANGED <<chainVars, taskVars, staged, calls, acked>>

\* relayNonce: the chain's value merged with the task's own staged commits.
NextRelayNonceOnChain(t, k) == chain[k].relayNonce
NextRelayNonce(t, k) == Larger(chain[k].relayNonce, relayNonces[t][k])

\* The answer to relayNonce.
ReadRelayNonce(t, f) ==
    LET o == op[t][f]
        k == o.call.key
    IN  /\ o.pc = "relayNonce"
        /\ Goto(t, f, [o EXCEPT !.pc = "sign",
                                !.relayNonce = NextRelayNonce(t, k)])
        /\ UNCHANGED <<chainVars, taskVars, staged, calls, acked>>

\* What is signed: on the wire an omitted nonce is 0.
Authorization(o) ==
    [key |-> o.call.key, blob |-> o.blob, expectedVersion |-> o.version,
     relayNonce |-> o.relayNonce,
     nonce |-> IF o.call.pin = None THEN 0 ELSE o.call.pin]

\* commitDigest and signMessage answered: the ledger grows before it is put.
Sign(t, f) ==
    LET o == op[t][f]
    IN  /\ o.pc = "sign"
        /\ ledger' = [ledger EXCEPT ![t] = Append(@, Authorization(o))]
        /\ Goto(t, f, [o EXCEPT !.pc = "putLedger", !.at = Len(ledger[t]) + 1])
        /\ UNCHANGED <<chainVars, staged, nonces, writes, relayNonces, results,
                       calls, acked>>

(***************************************************************************)
(* esr.authorizations.json is stored: the ledger as it was when the put    *)
(* began, the entries of commits that failed after Sign included.          *)
(***************************************************************************)
PutLedger(t, f) ==
    LET o == op[t][f]
    IN  /\ o.pc = "putLedger"
        /\ staged' = staged \cup {ledger[t][i] : i \in 1 .. o.at}
        /\ Goto(t, f, [o EXCEPT !.pc = "putCommit"])
        /\ UNCHANGED <<chainVars, taskVars, calls, acked>>

\* commitFor, as esr_local's applyCommit states it for the version and the
\* nonce, and commitDigest's relayNonce argument for the relay nonce.
AcceptsAnyVersion(a) == a.nonce \in {0, chain[a.key].nonce + 1}
AcceptsByRelayNonce(a) == TRUE
Accepts(a) ==
    /\ a.expectedVersion = chain[a.key].version
    /\ a.nonce \in {0, chain[a.key].nonce + 1}

Land(a) ==
    /\ chain' = [chain EXCEPT ![a.key] = [blob |-> a.blob,
                                          version |-> @.version + 1,
                                          nonce |-> @.nonce + 1,
                                          relayNonce |-> @.relayNonce + 1]]
    /\ landed' = [landed EXCEPT ![a.key] = Append(@, a)]

\* commit() returns: the memos now say what the chain will show.
Acknowledge(t, f, o, a) ==
    LET k == o.call.key
        m == [blob |-> o.blob, version |-> o.version + 1]
    IN  /\ results' = [results EXCEPT ![t][k] = m]
        /\ nonces' = [nonces EXCEPT ![t][k] = o.blob.nonce]
        /\ writes' = [writes EXCEPT ![t][k] = m]
        /\ acked' = acked \cup {a}
        /\ Return(t, f, "ok")

\* commit() starts over, from the read.
Again(o) == [IdleOp EXCEPT !.pc = "getState", !.call = o.call, !.no = o.no,
                           !.attempt = o.attempt + 1]

(***************************************************************************)
(* The commit's own file is stored and the relay nonce is used up.  Under  *)
(* esr_local the commit is applied now: a version mismatch is retried from *)
(* the read, any other refusal is an error.                                *)
(***************************************************************************)
PutCommit(t, f) ==
    LET o == op[t][f]
        a == ledger[t][o.at]
    IN  /\ o.pc = "putCommit"
        /\ staged' = staged \cup {a}
        /\ relayNonces' =
             [relayNonces EXCEPT ![t][o.call.key] = o.relayNonce + 1]
        /\ \/ /\ ~LocalApply
              /\ Acknowledge(t, f, o, a)
              /\ UNCHANGED chainVars
           \/ /\ LocalApply
              /\ Accepts(a)
              /\ Land(a)
              /\ Acknowledge(t, f, o, a)
           \/ /\ LocalApply
              /\ ~Accepts(a)
              /\ IF /\ a.expectedVersion # chain[a.key].version
                    /\ o.attempt + 1 < Attempts
                 THEN Goto(t, f, Again(o))
                 ELSE Return(t, f, "failed")
              /\ UNCHANGED <<chainVars, nonces, writes, results, acked>>
        /\ UNCHANGED <<ledger, calls>>

(***************************************************************************)
(* An await throws: a chain call, a put, the payload's mutate, or a state  *)
(* object that is not staged in time.  Nothing that was done is undone.    *)
(* commit() retries an error that speaks of a version, and every error of  *)
(* ethers does ("version=providers/..."): a relayNonce or a commitDigest   *)
(* that fails is taken for a lost race.                                    *)
(***************************************************************************)
Fail(t, f) ==
    LET o == op[t][f]
    IN  /\ Failures
        /\ \/ /\ o.pc \notin {"idle", "deliver"}
              /\ Return(t, f, "failed")
           \/ /\ o.pc \in {"relayNonce", "sign"}
              /\ o.attempt + 1 < Attempts
              /\ Goto(t, f, Again(o))
        /\ UNCHANGED <<chainVars, taskVars, staged, calls, acked>>

\* The node relays an authorization and the contract accepts it.  One that it
\* rejects leaves no trace: the enclave never hears of it.
Relay(a) ==
    /\ ~LocalApply
    /\ a \in staged
    /\ a.relayNonce = chain[a.key].relayNonce
    /\ Accepts(a)
    /\ Land(a)
    /\ UNCHANGED <<taskVars, staged, calls, op, acked>>

FiberStep(t, f) ==
    \/ ReadState(t, f)
    \/ CheckNonceCopy(t, f)
    \/ Deliver(t, f)
    \/ ReadNonce(t, f)
    \/ ReadRelayNonce(t, f)
    \/ Sign(t, f)
    \/ PutLedger(t, f)
    \/ PutCommit(t, f)

Next ==
    \/ \E t \in Tasks, f \in Fibers :
          \/ \E c \in Calls : Invoke(t, f, c)
          \/ FiberStep(t, f)
          \/ Fail(t, f)
    \/ \E a \in staged : Relay(a)

Spec == Init /\ [][Next]_vars

\* The node relays what keeps being relayable, and no await hangs for ever.
Fairness ==
    /\ \A t \in Tasks, f \in Fibers : WF_vars(FiberStep(t, f))
    /\ WF_vars(\E a \in staged : Relay(a))

FairSpec == Spec /\ Fairness

-----------------------------------------------------------------------------
(***************************************************************************)
(* Properties.                                                             *)
(***************************************************************************)

\* Every variable holds what ecld_state.js keeps in it.
TypeOK ==
    /\ chain \in [Keys -> Entry]
    /\ staged \subseteq Auth
    /\ ledger \in [Tasks -> Seq(Auth)]
    /\ nonces \in [Tasks -> [Keys -> Nat]]
    /\ writes \in [Tasks -> [Keys -> Memo]]
    /\ relayNonces \in [Tasks -> [Keys -> Nat]]
    /\ results \in [Tasks -> [Keys -> Memo]]
    /\ calls \in [Tasks -> Nat]
    /\ op \in [Tasks -> [Fibers -> Op]]
    /\ landed \in [Keys -> Seq(Auth)]
    /\ acked \subseteq Auth

\* The container the i-th accepted commit of k replaced, and the ACL in it.
Replaced(k, i) == IF i = 1 THEN NoBlob ELSE landed[k][i - 1].blob

\* A commit never overwrites an update it did not read: the container it was
\* computed from is the one it replaces (commit(), "concurrent tasks cannot
\* silently lose updates").
NoUpdateLost ==
    \A k \in Keys : \A i \in 1 .. Len(landed[k]) :
        landed[k][i].blob.parent = Replaced(k, i).iv

\* The same, of the commits that were computed from a container read from the
\* chain: the version they signed pins down the container they replace.
ChainReadsKeepUpdates ==
    \A k \in Keys : \A i \in 1 .. Len(landed[k]) :
        ~landed[k][i].blob.memo =>
            landed[k][i].blob.parent = Replaced(k, i).iv

\* What a commit built on the task's own memo can overwrite unseen: only when
\* the commit it was built on was acknowledged to the payload, was overtaken,
\* and can never land.
LossOnlyBehindOwnRefusal ==
    \A k \in Keys : \A i \in 1 .. Len(landed[k]) :
        LET a == landed[k][i]
        IN  a.blob.parent # Replaced(k, i).iv =>
              \E b \in acked :
                  /\ b.blob.iv = a.blob.parent
                  /\ b.blob.iv[1] = a.blob.iv[1]
                  /\ b.expectedVersion + 1 = a.expectedVersion
                  /\ \A j \in 1 .. Len(landed[k]) : landed[k][j] # b

\* Container b may be replaced by container n: n's author may write b, only
\* b's owner changes its ACL, and nobody anonymous owns what he wrote.
RespectsAcl(b, n) ==
    LET author == Caller[n.iv[1]]
    IN  /\ canWrite(b.acl, author)
        /\ b.acl # None /\ n.acl # b.acl => author = b.acl.owner
        /\ author = None => n.acl = None

\* The ACL that was checked is the ACL in force when the commit takes effect:
\* a commit that was computed from the chain's container respects the ACL of
\* the container it replaces, even when a grant, a revocation or a transfer
\* raced it.
ChainReadsRespectAcl ==
    \A k \in Keys : \A i \in 1 .. Len(landed[k]) :
        ~landed[k][i].blob.memo =>
            RespectsAcl(Replaced(k, i), landed[k][i].blob)

\* Only its owner changes an ACL (ownerOp(), "Owner-only ACL mutation"),
\* whatever the commit was computed from.
OwnerOnlyAclMutation ==
    \A k \in Keys : \A i \in 1 .. Len(landed[k]) :
        LET a == landed[k][i]
            acl == Replaced(k, i).acl
        IN  acl # None /\ a.blob.acl # acl =>
                Caller[a.blob.iv[1]] = acl.owner

\* The reporting copy of the nonce in the blob is the nonce the registry
\* stores: otherwise every later read of the key throws (_readContainer).
NonceCopyAgrees ==
    \A k \in Keys : chain[k].blob.nonce = chain[k].nonce

\* A nonce the client pinned is used at most once, however often the order
\* that carries it is resubmitted.
PinnedNonceUsedOnce ==
    \A k \in Keys : \A i, j \in 1 .. Len(landed[k]) :
        i # j /\ landed[k][i].nonce # 0 =>
            landed[k][i].nonce # landed[k][j].nonce

\* One task signs at most MAX_COMMITS_PER_TASK authorizations.
CommitCap == \A t \in Tasks : Len(ledger[t]) <= MAX_COMMITS_PER_TASK

\* An accepted entry and its object are never taken for tampered with: nobody
\* tampers in this model (_readContainer, "they must agree").
NoFalseTamper == \A t \in Tasks, f \in Fibers : op[t][f].out # "tampered"

\* A commit() that returned is still on its way to the chain or has landed:
\* when the contract rejects it the task re-reads and retries, rather than
\* having reported a success that never happens (commit(), line 577).
NoAcknowledgedCommitRefused ==
    \A a \in acked :
        \/ a.expectedVersion >= chain[a.key].version
        \/ \E i \in 1 .. Len(landed[a.key]) : landed[a.key][i] = a

\* The version the result will report for a key never goes back: a read after
\* a commit, or after a read, is at least as fresh.
ResultsAdvance ==
    [][\A t \in Tasks, k \in Keys :
          results'[t][k].version >= results[t][k].version]_results

\* Whatever a task alone on its keys was told is committed reaches the chain.
AckedCommitsLand ==
    \A t \in Tasks, n \in 1 .. MaxCalls, i \in 0 .. Attempts - 1 :
        (\E a \in acked : a.blob.iv = <<t, n, i>>)
          ~> (\E k \in Keys : \E j \in 1 .. Len(landed[k]) :
                 landed[k][j].blob.iv = <<t, n, i>>)
=============================================================================
