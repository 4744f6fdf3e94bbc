-------------------------- MODULE EcldState_proofs --------------------------
(***************************************************************************)
(* What TLAPS proves of EcldState, for every value of its constants.       *)
(***************************************************************************)
EXTENDS EcldRegister, TLAPS

(***************************************************************************)
(* Type correctness.                                                       *)
(***************************************************************************)

\* Where only a call that commits gets to.
Committing == {"getNonce", "relayNonce", "sign", "putLedger", "putCommit"}

\* What a fiber's record refers to exists: the call is one the payload may
\* make, an owner operation has a caller, and its authorization is in the
\* ledger.
OpOK ==
    \A t \in Tasks, f \in Fibers :
        LET o == op[t][f]
        IN  /\ o.pc # "idle" => /\ o.call \in Calls
                                /\ o.call.kind \in OwnerOps => Caller[t] # None
            /\ o.pc \in Committing => o.call.kind \notin Reads
            /\ o.pc \in {"putLedger", "putCommit"} =>
                   o.at \in 1 .. Len(ledger[t])

TypeInv == TypeOK /\ OpOK

LEMMA NoBlobType == NoBlob \in Blob
  BY DEF NoBlob, Blob, Principal

LEMMA IdleType == \A out \in Outcomes : [IdleOp EXCEPT !.out = out] \in Op
  BY NoBlobType DEF IdleOp, Op, Labels, Outcomes

\* The ACL a commit writes is an ACL, or none.
LEMMA NextAclType ==
  ASSUME NEW c \in Calls, NEW acl \in Acl \cup {None}, NEW p \in Principal,
         c.kind \notin Reads, c.kind \in OwnerOps => p # None
  PROVE  NextAcl(c, acl, p) \in Acl \cup {None}
  <1> USE NoneIsNoCaller
  <1>1. c \in Call /\ (c.kind \in {"grant", "transfer"} => c.who # None)
    BY EcldStateAssumption
  <1>2. Claimed(acl, p) \in Acl \cup {None}
    BY DEF Claimed, newAcl, Acl, Principal
  <1>3. CASE c.kind = "commit"
    BY <1>2, <1>3 DEF NextAcl
  <1>4. CASE c.kind \in OwnerOps
    <2>1. Claimed(acl, p) \in Acl
      BY <1>4 DEF Claimed, newAcl, Acl, Principal
    <2>2. c.kind # "commit" /\ c.who \in Principal
      BY <1>1, <1>4 DEF OwnerOps, Call
    <2>3. OwnerOp(c.kind, Claimed(acl, p), c.who, c.level) \in Acl
      BY <1>1, <1>4, <2>1, <2>2 DEF OwnerOps, OwnerOp, esrGrant, esrRevoke,
         esrSetPublicRead, esrTransfer, Acl, Principal
    <2>4. QED BY <2>2, <2>3 DEF NextAcl
  <1>5. QED BY <1>1, <1>3, <1>4 DEF Call, Kinds

LEMMA InitType == Init => TypeInv
  <1> SUFFICES ASSUME Init PROVE TypeInv
    OBVIOUS
  <1>1. IdleOp \in Op /\ IdleOp.pc = "idle"
    BY NoBlobType DEF IdleOp, Op, Labels, Outcomes
  <1>2. NoEntry \in Entry /\ NoMemo \in Memo
    BY NoBlobType DEF NoEntry, Entry, NoMemo, Memo
  <1>3. TypeOK
    BY <1>1, <1>2 DEF Init, TypeOK, PerTaskKey
  <1>4. OpOK
    BY <1>1 DEF Init, OpOK, Committing
  <1>5. QED BY <1>3, <1>4 DEF TypeInv

\* A fiber's next record has its type if the record is one.
LEMMA GotoType ==
  ASSUME TypeOK, NEW t \in Tasks, NEW f \in Fibers, NEW o \in Op,
         Goto(t, f, o)
  PROVE  /\ op' \in [Tasks -> [Fibers -> Op]]
         /\ op'[t][f] = o
         /\ \A u \in Tasks, g \in Fibers :
               <<u, g>> # <<t, f>> => op'[u][g] = op[u][g]
  BY DEF Goto, TypeOK

LEMMA ReturnType ==
  ASSUME TypeOK, NEW t \in Tasks, NEW f \in Fibers, NEW out \in Outcomes,
         Return(t, f, out)
  PROVE  /\ op' \in [Tasks -> [Fibers -> Op]]
         /\ op'[t][f].pc = "idle" /\ op'[t][f].out = out
         /\ \A u \in Tasks, g \in Fibers :
               <<u, g>> # <<t, f>> => op'[u][g] = op[u][g]
  <1> DEFINE o == [IdleOp EXCEPT !.out = out]
  <1>1. o \in Op
    BY IdleType
  <1>2. o.pc = "idle" /\ o.out = out
    BY DEF IdleOp
  <1>3. Goto(t, f, o)
    BY DEF Return
  <1> HIDE DEF o
  <1>4. QED BY <1>1, <1>2, <1>3, GotoType

\* A fiber that is not idle runs one of the payload's calls.
LEMMA CallType ==
  ASSUME TypeInv, NEW t \in Tasks, NEW f \in Fibers, op[t][f].pc # "idle"
  PROVE  /\ op[t][f] \in Op
         /\ op[t][f].call \in Calls
         /\ op[t][f].call \in Call
         /\ op[t][f].call.key \in Keys
         /\ op[t][f].call.pin \in Nat \cup {None}
         /\ op[t][f].call.kind \in Kinds
         /\ op[t][f].call.kind \in OwnerOps => Caller[t] # None
         /\ Caller[t] \in Principal
  BY EcldStateAssumption DEF TypeInv, TypeOK, OpOK, Call

LEMMA InvokeType ==
  ASSUME TypeInv, NEW t \in Tasks, NEW f \in Fibers, NEW c \in Calls,
         Invoke(t, f, c)
  PROVE  TypeInv'
  <1> DEFINE o == [IdleOp EXCEPT !.pc = "getState", !.call = c,
                                 !.no = calls[t] + 1]
  <1>1. calls' \in [Tasks -> Nat] /\ UNCHANGED <<chainVars, taskVars, staged, acked>>
    BY DEF Invoke, TypeInv, TypeOK
  <1>2. c \in Call
    BY EcldStateAssumption
  <1>3. o \in Op /\ o.pc = "getState" /\ o.call = c
    <2>1. calls[t] + 1 \in Nat
      BY DEF TypeInv, TypeOK
    <2>2. QED BY <1>2, <2>1, NoBlobType DEF IdleOp, Op, Labels, Outcomes
  <1>4. CASE Return(t, f, "permission") \/ Return(t, f, "limit")
    <2>1. op' \in [Tasks -> [Fibers -> Op]] /\ op'[t][f].pc = "idle"
          /\ \A u \in Tasks, g \in Fibers :
               <<u, g>> # <<t, f>> => op'[u][g] = op[u][g]
      BY <1>4, ReturnType DEF TypeInv, Outcomes
    <2>2. TypeOK'
      BY <1>1, <2>1 DEF TypeInv, TypeOK, chainVars, taskVars
    <2>3. OpOK'
      BY <1>1, <2>1 DEF TypeInv, OpOK, Committing, taskVars
    <2>4. QED BY <2>2, <2>3 DEF TypeInv
  <1>5. CASE Goto(t, f, o) /\ ~(c.kind \in OwnerOps /\ Caller[t] = None)
    <2>1. op' \in [Tasks -> [Fibers -> Op]] /\ op'[t][f] = o
          /\ \A u \in Tasks, g \in Fibers :
               <<u, g>> # <<t, f>> => op'[u][g] = op[u][g]
      BY <1>3, <1>5, GotoType DEF TypeInv
    <2> HIDE DEF o
    <2>2. TypeOK'
      BY <1>1, <2>1 DEF TypeInv, TypeOK, chainVars, taskVars
    <2>3. OpOK'
      BY <1>1, <1>3, <1>5, <2>1 DEF TypeInv, OpOK, taskVars, Committing
    <2>4. QED BY <2>2, <2>3 DEF TypeInv
  <1>6. QED BY <1>4, <1>5 DEF Invoke

\* What one fiber does leaves every other fiber's obligations as they were, as
\* long as no ledger shrinks.
LEMMA StepType ==
  ASSUME TypeInv, TypeOK', NEW t \in Tasks, NEW f \in Fibers,
         \A u \in Tasks, g \in Fibers :
             <<u, g>> # <<t, f>> => op'[u][g] = op[u][g],
         \A u \in Tasks : Len(ledger[u]) <= Len(ledger'[u]),
         \/ op'[t][f].pc = "idle"
         \/ /\ op[t][f].pc # "idle"
            /\ op'[t][f].call = op[t][f].call
            /\ op'[t][f].pc \in Committing => op[t][f].call.kind \notin Reads
            /\ op'[t][f].pc \in {"putLedger", "putCommit"} =>
                  op'[t][f].at \in 1 .. Len(ledger'[t])
  PROVE  TypeInv'
  <1> SUFFICES ASSUME NEW u \in Tasks, NEW g \in Fibers
               PROVE  /\ op'[u][g].pc # "idle" =>
                           /\ op'[u][g].call \in Calls
                           /\ op'[u][g].call.kind \in OwnerOps => Caller[u] # None
                      /\ op'[u][g].pc \in Committing =>
                           op'[u][g].call.kind \notin Reads
                      /\ op'[u][g].pc \in {"putLedger", "putCommit"} =>
                           op'[u][g].at \in 1 .. Len(ledger'[u])
    BY DEF TypeInv, OpOK
  <1>1. CASE <<u, g>> = <<t, f>>
    BY <1>1 DEF TypeInv, OpOK, Committing
  <1>2. CASE <<u, g>> # <<t, f>>
    <2>1. op'[u][g] = op[u][g]
      BY <1>2
    <2>2. Len(ledger[u]) \in Nat /\ Len(ledger'[u]) \in Nat
      BY DEF TypeInv, TypeOK
    <2>3. QED BY <2>1, <2>2 DEF TypeInv, OpOK
  <1>3. QED BY <1>1, <1>2

\* A step that only moves a fiber keeps the types.
LEMMA QuietGotoType ==
  ASSUME TypeInv, NEW t \in Tasks, NEW f \in Fibers, NEW r \in Op,
         Goto(t, f, r), op[t][f].pc # "idle", r.call = op[t][f].call,
         r.pc \notin {"putLedger", "putCommit"},
         r.pc \in Committing => r.call.kind \notin Reads,
         UNCHANGED <<chainVars, taskVars, staged, calls, acked>>
  PROVE  TypeInv'
  <1>1. /\ op' \in [Tasks -> [Fibers -> Op]] /\ op'[t][f] = r
        /\ \A u \in Tasks, g \in Fibers :
              <<u, g>> # <<t, f>> => op'[u][g] = op[u][g]
    BY GotoType DEF TypeInv
  <1>2. TypeOK'
    BY <1>1 DEF TypeInv, TypeOK, chainVars, taskVars
  <1>3. \A u \in Tasks : Len(ledger[u]) <= Len(ledger'[u])
    BY DEF taskVars, TypeInv, TypeOK
  <1>4. QED BY <1>1, <1>2, <1>3, StepType

LEMMA QuietReturnType ==
  ASSUME TypeInv, NEW t \in Tasks, NEW f \in Fibers, NEW out \in Outcomes,
         Return(t, f, out),
         UNCHANGED <<chainVars, taskVars, staged, calls, acked>>
  PROVE  TypeInv'
  <1>1. /\ op' \in [Tasks -> [Fibers -> Op]] /\ op'[t][f].pc = "idle"
        /\ \A u \in Tasks, g \in Fibers :
              <<u, g>> # <<t, f>> => op'[u][g] = op[u][g]
    BY ReturnType DEF TypeInv
  <1>2. TypeOK'
    BY <1>1 DEF TypeInv, TypeOK, chainVars, taskVars
  <1>3. \A u \in Tasks : Len(ledger[u]) <= Len(ledger'[u])
    BY DEF taskVars, TypeInv, TypeOK
  <1>4. QED BY <1>1, <1>2, <1>3, StepType

LEMMA ReadStateType ==
  ASSUME TypeInv, NEW t \in Tasks, NEW f \in Fibers, ReadState(t, f)
  PROVE  TypeInv'
  <1> DEFINE o == op[t][f]
             k == o.call.key
             l == IF chain[k].version = 0 THEN AfterRead(o.call) ELSE "fetch"
             p == [o EXCEPT !.pc = AfterRead(o.call), !.memo = TRUE,
                            !.base = writes[t][k].blob,
                            !.version = writes[t][k].version]
             q == [o EXCEPT !.pc = l, !.memo = FALSE, !.base = chain[k].blob,
                            !.version = chain[k].version]
  <1>1. o \in Op /\ k \in Keys /\ o.pc = "getState"
    BY CallType DEF ReadState
  <1>2. /\ writes[t][k] \in Memo /\ chain[k] \in Entry
        /\ AfterRead(o.call) \in Labels \ {"putLedger", "putCommit", "idle"}
        /\ l \in Labels \ {"putLedger", "putCommit", "idle"}
        /\ \A m \in {l, AfterRead(o.call)} :
              m \in Committing => o.call.kind \notin Reads
    BY <1>1 DEF TypeInv, TypeOK, AfterRead, Labels, Committing
  <1> HIDE DEF k, l
  <1>3. /\ p \in Op /\ p.pc = AfterRead(o.call) /\ p.call = o.call
        /\ q \in Op /\ q.pc = l /\ q.call = o.call
    BY <1>1, <1>2 DEF Op, Memo, Entry
  <1>4. \E r \in {p, q} : Goto(t, f, r)
    BY DEF ReadState, k, l
  <1> HIDE DEF p, q, o
  <1>5. UNCHANGED <<chainVars, taskVars, staged, calls, acked>>
    BY DEF ReadState
  <1>6. QED BY <1>1, <1>2, <1>3, <1>4, <1>5, QuietGotoType DEF o

LEMMA CheckNonceCopyType ==
  ASSUME TypeInv, NEW t \in Tasks, NEW f \in Fibers, CheckNonceCopy(t, f)
  PROVE  TypeInv'
  <1> DEFINE o == op[t][f]
             p == [o EXCEPT !.pc = AfterRead(o.call)]
  <1>1. o \in Op /\ o.pc = "fetch"
    BY CallType DEF CheckNonceCopy
  <1>2. /\ AfterRead(o.call) \in Labels \ {"putLedger", "putCommit", "idle"}
        /\ AfterRead(o.call) \in Committing => o.call.kind \notin Reads
    BY DEF AfterRead, Labels, Committing
  <1>3. p \in Op /\ p.pc = AfterRead(o.call) /\ p.call = o.call
    BY <1>1, <1>2 DEF Op
  <1>4. /\ Return(t, f, "tampered") \/ Goto(t, f, p)
        /\ UNCHANGED <<chainVars, taskVars, staged, calls, acked>>
    BY DEF CheckNonceCopy
  <1>5. "tampered" \in Outcomes
    BY DEF Outcomes
  <1> HIDE DEF p
  <1>6. QED BY <1>1, <1>2, <1>3, <1>4, <1>5, QuietGotoType, QuietReturnType

LEMMA DeliverType ==
  ASSUME TypeInv, NEW t \in Tasks, NEW f \in Fibers, Deliver(t, f)
  PROVE  TypeInv'
  <1> DEFINE o == op[t][f]
  <1>1. o \in Op /\ o.call.key \in Keys
    BY CallType DEF Deliver
  <1>2. \E out \in {"ok", "permission"} : Return(t, f, out)
    BY DEF Deliver
  <1>3. /\ op' \in [Tasks -> [Fibers -> Op]] /\ op'[t][f].pc = "idle"
        /\ \A u \in Tasks, g \in Fibers :
              <<u, g>> # <<t, f>> => op'[u][g] = op[u][g]
    BY <1>2, ReturnType DEF TypeInv, Outcomes
  <1>4. UNCHANGED <<chainVars, staged, ledger, nonces, writes, relayNonces,
                    calls, acked>>
    BY DEF Deliver
  <1>5. [blob |-> o.base, version |-> o.version] \in Memo
    BY <1>1 DEF Op, Memo
  <1>6. results' \in [Tasks -> [Keys -> Memo]]
    <2> DEFINE m == [blob |-> o.base, version |-> o.version]
               k == o.call.key
    <2>1. \/ results' = results
          \/ results' = [results EXCEPT ![t][k] = m]
      BY DEF Deliver
    <2>2. m \in Memo /\ k \in Keys
      BY <1>1, <1>5
    <2>3. results \in [Tasks -> [Keys -> Memo]]
      BY DEF TypeInv, TypeOK
    <2> HIDE DEF m, k
    <2>4. QED BY <2>1, <2>2, <2>3
  <1>7. TypeOK'
    BY <1>3, <1>4, <1>6 DEF TypeInv, TypeOK, chainVars
  <1>8. \A u \in Tasks : Len(ledger[u]) <= Len(ledger'[u])
    BY <1>4 DEF TypeInv, TypeOK
  <1>9. QED BY <1>3, <1>7, <1>8, StepType

LEMMA getNonceType ==
  ASSUME TypeOK, NEW t \in Tasks, NEW k \in Keys
  PROVE  getNonce(t, k) \in Nat /\ NextRelayNonce(t, k) \in Nat
  <1>1. chain[k] \in Entry /\ nonces[t][k] \in Nat /\ relayNonces[t][k] \in Nat
    BY DEF TypeOK
  <1>2. QED BY <1>1 DEF getNonce, NextRelayNonce, Larger, Entry

LEMMA ReadNonceType ==
  ASSUME TypeInv, NEW t \in Tasks, NEW f \in Fibers, ReadNonce(t, f)
  PROVE  TypeInv'
  <1> DEFINE o == op[t][f]
             c == o.call
             acl == NextAcl(c, o.base.acl, Caller[t])
             next == getNonce(t, c.key) + 1
             b == [iv |-> <<t, o.no, o.attempt>>, parent |-> o.base.iv,
                   memo |-> o.memo, acl |-> acl,
                   committedBy |-> IF acl = None THEN None ELSE Caller[t],
                   nonce |-> next]
             p == [o EXCEPT !.pc = "relayNonce", !.blob = b]
  <1>1. /\ o \in Op /\ o.pc = "getNonce" /\ c.key \in Keys /\ c \in Calls
        /\ c.kind \notin Reads
        /\ c.kind \in OwnerOps => Caller[t] # None
        /\ Caller[t] \in Principal
    BY CallType DEF ReadNonce, TypeInv, OpOK, Committing
  <1>2. /\ o.base \in Blob /\ o.no \in Nat /\ o.attempt \in Nat
        /\ o.memo \in BOOLEAN
    BY <1>1 DEF Op
  <1>3. acl \in Acl \cup {None}
    <2>1. o.base.acl \in Acl \cup {None}
      BY <1>2 DEF Blob
    <2> HIDE DEF o
    <2>2. QED BY <1>1, <2>1, NextAclType
  <1>4. next \in Nat
    BY <1>1, getNonceType DEF TypeInv
  <1>5. b \in Blob
    <2> HIDE DEF acl, next, o
    <2>1. (IF acl = None THEN None ELSE Caller[t]) \in Principal
      BY <1>1 DEF Principal
    <2>2. <<t, o.no, o.attempt>> \in Id
      BY <1>2 DEF Id
    <2>3. QED BY <1>2, <1>3, <1>4, <2>1, <2>2 DEF Blob
  <1> HIDE DEF b
  <1>6. p \in Op /\ p.pc = "relayNonce" /\ p.call = c
    BY <1>1, <1>5 DEF Op, Labels
  <1>7. /\ \/ Return(t, f, "nonce")
           \/ Return(t, f, "permission")
           \/ Goto(t, f, p)
        /\ UNCHANGED <<chainVars, taskVars, staged, calls, acked>>
    BY DEF ReadNonce, b
  <1>8. "nonce" \in Outcomes /\ "permission" \in Outcomes
    BY DEF Outcomes
  <1> HIDE DEF p, acl, next
  <1>9. CASE Goto(t, f, p)
    BY <1>1, <1>6, <1>7, <1>9, QuietGotoType
  <1>10. CASE Return(t, f, "nonce") \/ Return(t, f, "permission")
    BY <1>7, <1>8, <1>10, QuietReturnType
  <1>11. QED BY <1>7, <1>9, <1>10

LEMMA ReadRelayNonceType ==
  ASSUME TypeInv, NEW t \in Tasks, NEW f \in Fibers, ReadRelayNonce(t, f)
  PROVE  TypeInv'
  <1> DEFINE o == op[t][f]
             n == NextRelayNonce(t, o.call.key)
             p == [o EXCEPT !.pc = "sign", !.relayNonce = n]
  <1>1. /\ o \in Op /\ o.pc = "relayNonce" /\ o.call.key \in Keys
        /\ o.call.kind \notin Reads
    BY CallType DEF ReadRelayNonce, TypeInv, OpOK, Committing
  <1>2. n \in Nat
    BY <1>1, getNonceType DEF TypeInv
  <1> HIDE DEF n
  <1>3. p \in Op /\ p.pc = "sign" /\ p.call = o.call
    BY <1>1, <1>2 DEF Op, Labels
  <1>4. /\ Goto(t, f, p)
        /\ UNCHANGED <<chainVars, taskVars, staged, calls, acked>>
    BY DEF ReadRelayNonce, n
  <1> HIDE DEF p
  <1>5. QED BY <1>1, <1>3, <1>4, QuietGotoType

\* What a commit keeps of the attempt it gives up.
LEMMA AgainIs ==
  ASSUME NEW o
  PROVE  /\ Again(o).pc = "getState" /\ Again(o).call = o.call
         /\ ~Again(o).memo /\ ~Again(o).blob.memo
  BY DEF Again, IdleOp, NoBlob

LEMMA AgainType ==
  ASSUME NEW o \in Op, o.call \in Call
  PROVE  Again(o) \in Op
  <1> DEFINE n == o.attempt + 1
             c == o.call
             no == o.no
  <1>1. n \in Nat /\ no \in Nat /\ c \in Call
    BY DEF Op
  <1> HIDE DEF n, c, no
  <1>2. [IdleOp EXCEPT !.pc = "getState", !.call = c, !.no = no,
                       !.attempt = n] \in Op
    BY <1>1, NoBlobType DEF IdleOp, Op, Labels, Outcomes
  <1>3. QED BY <1>2 DEF Again, n, c, no

LEMMA FailType ==
  ASSUME TypeInv, NEW t \in Tasks, NEW f \in Fibers, Fail(t, f)
  PROVE  TypeInv'
  <1> DEFINE o == op[t][f]
             r == Again(o)
  <1>1. UNCHANGED <<chainVars, taskVars, staged, calls, acked>>
    BY DEF Fail
  <1>2. CASE Return(t, f, "failed")
    BY <1>1, <1>2, QuietReturnType DEF Outcomes
  <1>3. CASE o.pc \in {"relayNonce", "sign"} /\ Goto(t, f, r)
    <2>1. o \in Op /\ o.call \in Call /\ o.pc # "idle"
      BY <1>3, CallType DEF TypeInv, OpOK
    <2>2. r \in Op /\ r.pc = "getState" /\ r.call = o.call
      BY <2>1, AgainType, AgainIs
    <2>3. "getState" \notin Committing
      BY DEF Committing
    <2> HIDE DEF r
    <2>4. QED BY <1>1, <1>3, <2>1, <2>2, <2>3, QuietGotoType
  <1>4. QED BY <1>2, <1>3 DEF Fail

LEMMA AuthorizationType ==
  ASSUME NEW o \in Op, o.call \in Call
  PROVE  Authorization(o) \in Auth
  <1>1. /\ o.call.key \in Keys /\ o.call.pin \in Nat \cup {None}
        /\ o.blob \in Blob /\ o.version \in Nat /\ o.relayNonce \in Nat
    BY DEF Op, Call
  <1>2. (IF o.call.pin = None THEN 0 ELSE o.call.pin) \in Nat
    BY <1>1
  <1>3. QED BY <1>1, <1>2 DEF Authorization, Auth

LEMMA SignType ==
  ASSUME TypeInv, NEW t \in Tasks, NEW f \in Fibers, Sign(t, f)
  PROVE  TypeInv'
  <1> DEFINE o == op[t][f]
             a == Authorization(o)
             p == [o EXCEPT !.pc = "putLedger", !.at = Len(ledger[t]) + 1]
  <1>1. o \in Op /\ o.call \in Call /\ o.pc = "sign"
        /\ o.call.kind \notin Reads
    BY CallType DEF Sign, TypeInv, OpOK, Committing
  <1>2. a \in Auth
    BY <1>1, AuthorizationType
  <1>3. ledger \in [Tasks -> Seq(Auth)] /\ Len(ledger[t]) \in Nat
    BY DEF TypeInv, TypeOK
  <1>4. ledger' = [ledger EXCEPT ![t] = Append(@, a)] /\ Goto(t, f, p)
        /\ UNCHANGED <<chainVars, staged, nonces, writes, relayNonces, results,
                       calls, acked>>
    BY DEF Sign
  <1> HIDE DEF a
  <1>5. /\ ledger' \in [Tasks -> Seq(Auth)]
        /\ Len(ledger'[t]) = Len(ledger[t]) + 1
        /\ \A u \in Tasks : Len(ledger[u]) <= Len(ledger'[u])
    BY <1>2, <1>3, <1>4
  <1>6. p \in Op /\ p.pc = "putLedger" /\ p.call = o.call
        /\ p.at \in 1 .. Len(ledger'[t])
    <2> DEFINE n == Len(ledger[t]) + 1
    <2>1. n \in Nat /\ n \in 1 .. Len(ledger'[t])
      BY <1>3, <1>5
    <2> HIDE DEF n
    <2>2. [o EXCEPT !.pc = "putLedger", !.at = n] \in Op
          /\ [o EXCEPT !.pc = "putLedger", !.at = n].pc = "putLedger"
          /\ [o EXCEPT !.pc = "putLedger", !.at = n].call = o.call
          /\ [o EXCEPT !.pc = "putLedger", !.at = n].at = n
      BY <1>1, <2>1 DEF Op, Labels
    <2>3. QED BY <2>1, <2>2 DEF n
  <1> HIDE DEF p
  <1>7. /\ op' \in [Tasks -> [Fibers -> Op]] /\ op'[t][f] = p
        /\ \A u \in Tasks, g \in Fibers :
              <<u, g>> # <<t, f>> => op'[u][g] = op[u][g]
    BY <1>4, <1>6, GotoType DEF TypeInv
  <1>8. TypeOK'
    BY <1>4, <1>5, <1>7 DEF TypeInv, TypeOK, chainVars
  <1>9. QED BY <1>1, <1>5, <1>6, <1>7, <1>8, StepType

LEMMA PutLedgerType ==
  ASSUME TypeInv, NEW t \in Tasks, NEW f \in Fibers, PutLedger(t, f)
  PROVE  TypeInv'
  <1> DEFINE o == op[t][f]
             p == [o EXCEPT !.pc = "putCommit"]
  <1>1. o \in Op /\ o.pc = "putLedger" /\ o.call.kind \notin Reads
        /\ o.at \in 1 .. Len(ledger[t])
    BY CallType DEF PutLedger, TypeInv, OpOK, Committing
  <1>2. p \in Op /\ p.pc = "putCommit" /\ p.call = o.call /\ p.at = o.at
    BY <1>1 DEF Op, Labels
  <1>3. /\ Goto(t, f, p) /\ UNCHANGED <<chainVars, taskVars, calls, acked>>
        /\ staged' = staged \cup {ledger[t][i] : i \in 1 .. o.at}
    BY DEF PutLedger
  <1>4. staged' \subseteq Auth
    <2>1. ledger[t] \in Seq(Auth)
      BY DEF TypeInv, TypeOK
    <2>2. \A i \in 1 .. o.at : ledger[t][i] \in Auth
      BY <1>1, <2>1
    <2>3. QED BY <1>3, <2>2 DEF TypeInv, TypeOK
  <1> HIDE DEF p
  <1>5. /\ op' \in [Tasks -> [Fibers -> Op]] /\ op'[t][f] = p
        /\ \A u \in Tasks, g \in Fibers :
              <<u, g>> # <<t, f>> => op'[u][g] = op[u][g]
    BY <1>2, <1>3, GotoType DEF TypeInv
  <1>6. TypeOK' /\ UNCHANGED ledger
    BY <1>3, <1>4, <1>5 DEF TypeInv, TypeOK, chainVars, taskVars
  <1>7. \A u \in Tasks : Len(ledger[u]) <= Len(ledger'[u])
    BY <1>6 DEF TypeInv, TypeOK
  <1>8. QED BY <1>1, <1>2, <1>5, <1>6, <1>7, StepType

\* The contract's entry and its history after it accepted an authorization.
LEMMA LandType ==
  ASSUME TypeOK, NEW a \in Auth, Land(a)
  PROVE  chain' \in [Keys -> Entry] /\ landed' \in [Keys -> Seq(Auth)]
  <1>1. a.key \in Keys /\ a.blob \in Blob
    BY DEF Auth
  <1>2. chain[a.key] \in Entry /\ landed[a.key] \in Seq(Auth)
    BY <1>1 DEF TypeOK
  <1>3. [blob |-> a.blob, version |-> chain[a.key].version + 1,
         nonce |-> chain[a.key].nonce + 1,
         relayNonce |-> chain[a.key].relayNonce + 1] \in Entry
    BY <1>1, <1>2 DEF Entry
  <1>4. QED BY <1>1, <1>2, <1>3 DEF Land, TypeOK

LEMMA RelayType ==
  ASSUME TypeInv, NEW a \in staged, Relay(a)
  PROVE  TypeInv'
  <1>1. a \in Auth
    BY DEF TypeInv, TypeOK
  <1>2. chain' \in [Keys -> Entry] /\ landed' \in [Keys -> Seq(Auth)]
    BY <1>1, LandType DEF Relay, TypeInv
  <1>3. UNCHANGED <<taskVars, staged, calls, op, acked>>
    BY DEF Relay
  <1>4. QED BY <1>2, <1>3 DEF TypeInv, TypeOK, OpOK, taskVars

\* What commit() remembers when it returns has its type.
LEMMA AcknowledgeType ==
  ASSUME TypeOK, NEW t \in Tasks, NEW f \in Fibers, NEW o \in Op,
         o.call \in Call, NEW a \in Auth, Acknowledge(t, f, o, a)
  PROVE  /\ results' \in [Tasks -> [Keys -> Memo]]
         /\ nonces' \in [Tasks -> [Keys -> Nat]]
         /\ writes' \in [Tasks -> [Keys -> Memo]]
         /\ acked' \subseteq Auth
         /\ Return(t, f, "ok")
  <1> DEFINE m == [blob |-> o.blob, version |-> o.version + 1]
             k == o.call.key
             n == o.blob.nonce
  <1>1. m \in Memo
    BY DEF Op, Memo
  <1>2. k \in Keys /\ n \in Nat
    BY DEF Call, Op, Blob
  <1>3. /\ results' = [results EXCEPT ![t][k] = m]
        /\ nonces' = [nonces EXCEPT ![t][k] = n]
        /\ writes' = [writes EXCEPT ![t][k] = m]
        /\ acked' = acked \cup {a}
        /\ Return(t, f, "ok")
    BY DEF Acknowledge
  <1> HIDE DEF m, k, n
  <1>4. /\ results \in [Tasks -> [Keys -> Memo]]
        /\ nonces \in [Tasks -> [Keys -> Nat]]
        /\ writes \in [Tasks -> [Keys -> Memo]]
        /\ acked \subseteq Auth
    BY DEF TypeOK
  <1>5. QED BY <1>1, <1>2, <1>3, <1>4

LEMMA PutCommitType ==
  ASSUME TypeInv, NEW t \in Tasks, NEW f \in Fibers, PutCommit(t, f)
  PROVE  TypeInv'
  <1> DEFINE o == op[t][f]
             a == ledger[t][o.at]
             r == Again(o)
  <1>1. /\ o \in Op /\ o.pc = "putCommit" /\ o.call \in Call
        /\ o.at \in 1 .. Len(ledger[t])
    BY CallType DEF PutCommit, TypeInv, OpOK
  <1>2. a \in Auth /\ a.key \in Keys
    <2>1. ledger[t] \in Seq(Auth)
      BY DEF TypeInv, TypeOK
    <2>2. a \in Auth
      BY <1>1, <2>1
    <2>3. QED BY <2>2 DEF Auth
  <1>3. /\ staged' = staged \cup {a} /\ UNCHANGED <<ledger, calls>>
        /\ relayNonces' = [relayNonces EXCEPT ![t][o.call.key] = o.relayNonce + 1]
    BY DEF PutCommit
  <1>4. staged' \subseteq Auth /\ relayNonces' \in [Tasks -> [Keys -> Nat]]
    <2> DEFINE n == o.relayNonce + 1
               k == o.call.key
    <2>1. n \in Nat /\ k \in Keys
      BY <1>1 DEF Op, Call
    <2> HIDE DEF n, k
    <2>2. relayNonces' = [relayNonces EXCEPT ![t][k] = n]
      BY <1>3 DEF n, k
    <2>3. relayNonces' \in [Tasks -> [Keys -> Nat]]
      BY <2>1, <2>2 DEF TypeInv, TypeOK
    <2>4. staged' \subseteq Auth
      BY <1>2, <1>3 DEF TypeInv, TypeOK
    <2>5. QED BY <2>3, <2>4
  <1>5. r \in Op /\ r.pc = "getState" /\ r.call = o.call
    BY <1>1, AgainType, AgainIs
  <1>6. \A u \in Tasks : Len(ledger[u]) <= Len(ledger'[u])
    BY <1>3 DEF TypeInv, TypeOK
  <1>7. CASE Acknowledge(t, f, o, a) /\ (Land(a) \/ UNCHANGED chainVars)
    <2>1. /\ results' \in [Tasks -> [Keys -> Memo]]
          /\ nonces' \in [Tasks -> [Keys -> Nat]]
          /\ writes' \in [Tasks -> [Keys -> Memo]]
          /\ acked' \subseteq Auth
          /\ Return(t, f, "ok")
      <3> HIDE DEF o, a
      <3>1. QED BY <1>1, <1>2, <1>7, AcknowledgeType DEF TypeInv
    <2>2. chain' \in [Keys -> Entry] /\ landed' \in [Keys -> Seq(Auth)]
      BY <1>2, <1>7, LandType DEF TypeInv, TypeOK, chainVars
    <2>3. /\ op' \in [Tasks -> [Fibers -> Op]] /\ op'[t][f].pc = "idle"
          /\ \A u \in Tasks, g \in Fibers :
                <<u, g>> # <<t, f>> => op'[u][g] = op[u][g]
      BY <2>1, ReturnType DEF TypeInv, Outcomes
    <2>4. TypeOK'
      BY <1>3, <1>4, <2>1, <2>2, <2>3 DEF TypeInv, TypeOK
    <2>5. QED BY <1>6, <2>3, <2>4, StepType
  <1>8. CASE /\ Return(t, f, "failed") \/ Goto(t, f, r)
             /\ UNCHANGED <<chainVars, nonces, writes, results, acked>>
    <2>1. /\ op' \in [Tasks -> [Fibers -> Op]]
          /\ \/ op'[t][f].pc = "idle"
             \/ op'[t][f].pc = "getState" /\ op'[t][f].call = o.call
          /\ \A u \in Tasks, g \in Fibers :
                <<u, g>> # <<t, f>> => op'[u][g] = op[u][g]
      <3> HIDE DEF r
      <3>1. CASE Return(t, f, "failed")
        BY <3>1, ReturnType DEF TypeInv, Outcomes
      <3>2. CASE Goto(t, f, r)
        BY <1>5, <3>2, GotoType DEF TypeInv
      <3>3. QED BY <1>8, <3>1, <3>2
    <2>2. TypeOK'
      BY <1>3, <1>4, <1>8, <2>1 DEF TypeInv, TypeOK, chainVars
    <2>3. /\ op[t][f].pc # "idle"
          /\ "getState" \notin Committing
          /\ "getState" \notin {"putLedger", "putCommit"}
      BY <1>1 DEF Committing
    <2> HIDE DEF a, r
    <2>4. QED BY <1>6, <2>1, <2>2, <2>3, StepType
  <1>9. QED BY <1>7, <1>8 DEF PutCommit

LEMMA NextType == TypeInv /\ [Next]_vars => TypeInv'
  <1> SUFFICES ASSUME TypeInv, [Next]_vars PROVE TypeInv'
    OBVIOUS
  <1>1. ASSUME NEW t \in Tasks, NEW f \in Fibers, NEW c \in Calls,
               Invoke(t, f, c)
        PROVE  TypeInv'
    BY <1>1, InvokeType
  <1>2. ASSUME NEW t \in Tasks, NEW f \in Fibers, FiberStep(t, f)
        PROVE  TypeInv'
    BY <1>2, ReadStateType, CheckNonceCopyType, DeliverType, ReadNonceType,
       ReadRelayNonceType, SignType, PutLedgerType, PutCommitType DEF FiberStep
  <1>3. ASSUME NEW t \in Tasks, NEW f \in Fibers, Fail(t, f)
        PROVE  TypeInv'
    BY <1>3, FailType
  <1>4. ASSUME NEW a \in staged, Relay(a)
        PROVE  TypeInv'
    BY <1>4, RelayType
  <1>5. CASE UNCHANGED vars
    BY <1>5 DEF TypeInv, TypeOK, OpOK, vars
  <1>6. QED BY <1>1, <1>2, <1>3, <1>4, <1>5 DEF Next

\* Every variable keeps its type, in every run of any number of tasks and
\* concurrent calls.
THEOREM TypeCorrect == Spec => []TypeOK
  <1>1. Spec => []TypeInv
    BY InitType, NextType, PTL DEF Spec
  <1>2. TypeInv => TypeOK
    BY DEF TypeInv
  <1>3. QED BY <1>1, <1>2, PTL

-----------------------------------------------------------------------------
(***************************************************************************)
(* The contract's counters move together.                                  *)
(***************************************************************************)

\* Every accepted commit adds one to the version, the nonce and the relay
\* nonce of its key, and its blob is the one the entry names; a pinned nonce is
\* the position of its commit.
Lockstep ==
    \A k \in Keys :
        LET n == Len(landed[k])
        IN  /\ chain[k].version = n
            /\ chain[k].nonce = n
            /\ chain[k].relayNonce = n
            /\ chain[k].blob = IF n = 0 THEN NoBlob ELSE landed[k][n].blob
            /\ \A i \in 1 .. n : landed[k][i].nonce \in {0, i}

(***************************************************************************)
(* Optimistic concurrency.  What was computed from a container read from   *)
(* the chain carries that container's version.  While the chain still      *)
(* shows the version it shows the container; when it shows a later one the *)
(* contract refuses.  The ACL that was checked is then the ACL in force.   *)
(***************************************************************************)

\* Blob n, made for the entry after version, was computed from the entry e or
\* from one that e has replaced for good.
FreshBlob(e, version, n) ==
    ~n.memo => /\ version <= e.version
               /\ version = e.version => /\ n.parent = e.blob.iv
                                         /\ RespectsAcl(e.blob, n)

\* The same of what a fiber holds, e being the entry of its key.
FreshOp(e, o) ==
    /\ o.pc \in {"fetch", "deliver", "getNonce"} /\ ~o.memo =>
          /\ o.version <= e.version
          /\ o.version = e.version => o.base = e.blob
    /\ o.pc \in {"relayNonce", "sign"} => FreshBlob(e, o.version, o.blob)

\* Whatever can still be relayed.
Signed == staged \cup {a \in Auth : \E t \in Tasks :
                            \E i \in 1 .. Len(ledger[t]) : a = ledger[t][i]}

FreshInv ==
    /\ \A t \in Tasks, f \in Fibers :
          op[t][f].pc # "idle" => FreshOp(chain[op[t][f].call.key], op[t][f])
    /\ \A a \in Signed :
          FreshBlob(chain[a.key], a.expectedVersion, a.blob)

\* Every accepted commit computed from the chain replaced what it had read.
LandedFresh ==
    \A k \in Keys : \A i \in 1 .. Len(landed[k]) :
        ~landed[k][i].blob.memo =>
            /\ landed[k][i].blob.parent = Replaced(k, i).iv
            /\ RespectsAcl(Replaced(k, i), landed[k][i].blob)

\* What a step does to the contract: nothing, or it accepts something signed.
LEMMA ChainStep ==
  ASSUME TypeInv, [Next]_vars
  PROVE  \/ UNCHANGED chainVars
         \/ \E a \in Signed : /\ a \in Auth /\ Accepts(a) /\ Land(a)
                              /\ \/ LocalApply
                                 \/ a.relayNonce = chain[a.key].relayNonce
  <1>1. CASE UNCHANGED vars
    BY <1>1 DEF vars, chainVars
  <1>2. ASSUME NEW t \in Tasks, NEW f \in Fibers,
               \/ \E c \in Calls : Invoke(t, f, c)
               \/ ReadState(t, f) \/ CheckNonceCopy(t, f) \/ Deliver(t, f)
               \/ ReadNonce(t, f) \/ ReadRelayNonce(t, f) \/ Sign(t, f)
               \/ PutLedger(t, f) \/ Fail(t, f)
        PROVE  UNCHANGED chainVars
    BY <1>2 DEF Invoke, ReadState, CheckNonceCopy, Deliver, ReadNonce,
       ReadRelayNonce, Sign, PutLedger, Fail
  <1>3. ASSUME NEW t \in Tasks, NEW f \in Fibers, PutCommit(t, f)
        PROVE  \/ UNCHANGED chainVars
               \/ \E a \in Signed : a \in Auth /\ Accepts(a) /\ Land(a) /\ LocalApply
    <2> DEFINE a == ledger[t][op[t][f].at]
    <2>1. /\ op[t][f].at \in 1 .. Len(ledger[t])
          /\ ledger[t] \in Seq(Auth)
      BY <1>3 DEF PutCommit, TypeInv, TypeOK, OpOK
    <2>2. a \in Auth /\ a \in Signed
      BY <2>1 DEF Signed
    <2>3. QED BY <1>3, <2>2 DEF PutCommit
  <1>4. ASSUME NEW a \in staged, Relay(a)
        PROVE  /\ a \in Signed /\ a \in Auth /\ Accepts(a) /\ Land(a)
               /\ a.relayNonce = chain[a.key].relayNonce
    BY <1>4 DEF Relay, Signed, TypeInv, TypeOK
  <1>5. QED BY <1>1, <1>2, <1>3, <1>4 DEF Next, FiberStep

\* The entry and the history of every key after a commit was accepted.
LEMMA LandStep ==
  ASSUME TypeOK, NEW a \in Auth, Land(a)
  PROVE  /\ a.key \in Keys
         /\ chain'[a.key] = [blob |-> a.blob,
                             version |-> chain[a.key].version + 1,
                             nonce |-> chain[a.key].nonce + 1,
                             relayNonce |-> chain[a.key].relayNonce + 1]
         /\ landed'[a.key] = Append(landed[a.key], a)
         /\ \A k \in Keys \ {a.key} : chain'[k] = chain[k] /\ landed'[k] = landed[k]
  <1>1. a.key \in Keys
    BY DEF Auth
  <1>2. QED BY <1>1 DEF Land, TypeOK

\* A step leaves an entry alone or moves its version on.
LEMMA ChainAdvances ==
  ASSUME TypeInv, [Next]_vars, NEW k \in Keys
  PROVE  /\ chain[k] \in Entry /\ chain'[k] \in Entry
         /\ chain'[k] = chain[k] \/ chain'[k].version > chain[k].version
  <1>1. TypeInv'
    BY NextType
  <1>2. chain[k] \in Entry /\ chain'[k] \in Entry
    BY <1>1 DEF TypeInv, TypeOK
  <1>3. chain[k].version \in Nat
    BY <1>2 DEF Entry
  <1>4. CASE UNCHANGED chainVars
    BY <1>2, <1>4 DEF chainVars
  <1>5. ASSUME NEW a \in Auth, Land(a)
        PROVE  chain'[k] = chain[k] \/ chain'[k].version > chain[k].version
    <2>1. CASE k = a.key
      <3>1. chain'[a.key] = [blob |-> a.blob,
                             version |-> chain[a.key].version + 1,
                             nonce |-> chain[a.key].nonce + 1,
                             relayNonce |-> chain[a.key].relayNonce + 1]
        BY <1>5, LandStep DEF TypeInv
      <3>2. chain'[k].version = chain[k].version + 1
        BY <2>1, <3>1
      <3>3. QED BY <1>3, <3>2
    <2>2. CASE k # a.key
      BY <1>5, <2>2, LandStep DEF TypeInv
    <2>3. QED BY <2>1, <2>2
  <1>6. QED BY <1>2, <1>4, <1>5, ChainStep

LEMMA LockstepNext ==
  ASSUME TypeInv, Lockstep, [Next]_vars
  PROVE  Lockstep'
  <1>1. CASE UNCHANGED chainVars
    BY <1>1 DEF Lockstep, chainVars
  <1>2. ASSUME NEW a \in Auth, Accepts(a), Land(a)
        PROVE  Lockstep'
    <2> SUFFICES ASSUME NEW k \in Keys
                 PROVE  LET n == Len(landed'[k])
                        IN  /\ chain'[k].version = n
                            /\ chain'[k].nonce = n
                            /\ chain'[k].relayNonce = n
                            /\ chain'[k].blob = IF n = 0 THEN NoBlob
                                                ELSE landed'[k][n].blob
                            /\ \A i \in 1 .. n : landed'[k][i].nonce \in {0, i}
      BY DEF Lockstep
    <2>1. CASE k # a.key
      <3>1. chain'[k] = chain[k] /\ landed'[k] = landed[k]
        BY <1>2, <2>1, LandStep DEF TypeInv
      <3>2. QED BY <3>1 DEF Lockstep
    <2>2. CASE k = a.key
      <3> DEFINE n == Len(landed[k])
      <3>1. landed[k] \in Seq(Auth) /\ n \in Nat
        BY DEF TypeInv, TypeOK
      <3>2. /\ chain'[k] = [blob |-> a.blob, version |-> n + 1,
                            nonce |-> n + 1, relayNonce |-> n + 1]
            /\ landed'[k] = Append(landed[k], a)
            /\ a.nonce \in {0, n + 1}
            /\ \A i \in 1 .. n : landed[k][i].nonce \in {0, i}
        BY <1>2, <2>2, LandStep DEF TypeInv, Lockstep, Accepts
      <3>3. /\ Len(landed'[k]) = n + 1
            /\ landed'[k][n + 1] = a
            /\ \A i \in 1 .. n : landed'[k][i] = landed[k][i]
        BY <3>1, <3>2
      <3> HIDE DEF n
      <3>4. \A i \in 1 .. n + 1 : landed'[k][i].nonce \in {0, i}
        BY <3>1, <3>2, <3>3
      <3>5. QED BY <3>1, <3>2, <3>3, <3>4
    <2>3. QED BY <2>1, <2>2
  <1>3. QED BY <1>1, <1>2, ChainStep

LEMMA LockstepInit == Init => Lockstep
  BY DEF Init, Lockstep, NoEntry

LEMMA LockstepHolds == Spec => [](TypeInv /\ Lockstep)
  <1>1. Init => TypeInv /\ Lockstep
    BY InitType, LockstepInit
  <1>2. TypeInv /\ Lockstep /\ [Next]_vars => (TypeInv /\ Lockstep)'
    BY NextType, LockstepNext
  <1>3. QED BY <1>1, <1>2, PTL DEF Spec

\* A pinned nonce is accepted at most once, whatever is signed, relayed again
\* or submitted again (commit(): "carries the exactly-once guarantee").
THEOREM PinnedNonceOnce == Spec => []PinnedNonceUsedOnce
  <1>1. TypeInv /\ Lockstep => PinnedNonceUsedOnce
    <2> SUFFICES ASSUME TypeInv, Lockstep, NEW k \in Keys,
                        NEW i \in 1 .. Len(landed[k]),
                        NEW j \in 1 .. Len(landed[k]), i # j,
                        landed[k][i].nonce # 0
                 PROVE  landed[k][i].nonce # landed[k][j].nonce
      BY DEF PinnedNonceUsedOnce
    <2>1. Len(landed[k]) \in Nat
      BY DEF TypeInv, TypeOK
    <2>2. landed[k][i].nonce \in {0, i} /\ landed[k][j].nonce \in {0, j}
      BY DEF Lockstep
    <2>3. QED BY <2>1, <2>2
  <1>2. QED BY <1>1, LockstepHolds, PTL

\* What was fresh against an entry is fresh against the one that replaces it.
LEMMA FreshLater ==
  ASSUME NEW e \in Entry, NEW e2 \in Entry, e2 = e \/ e2.version > e.version
  PROVE  /\ \A o \in Op : FreshOp(e, o) => FreshOp(e2, o)
         /\ \A v \in Nat, n \in Blob : FreshBlob(e, v, n) => FreshBlob(e2, v, n)
  <1>1. e.version \in Nat /\ e2.version \in Nat
    BY DEF Entry
  <1>2. ASSUME NEW v \in Nat, NEW n \in Blob, FreshBlob(e, v, n)
        PROVE  FreshBlob(e2, v, n)
    BY <1>1, <1>2 DEF FreshBlob
  <1>3. ASSUME NEW o \in Op, FreshOp(e, o)
        PROVE  FreshOp(e2, o)
    <2>1. o.version \in Nat /\ o.blob \in Blob
      BY DEF Op
    <2>2. FreshBlob(e, o.version, o.blob) => FreshBlob(e2, o.version, o.blob)
      BY <1>2, <2>1
    <2>3. QED BY <1>1, <1>3, <2>1, <2>2 DEF FreshOp
  <1>4. QED BY <1>2, <1>3

\* The container a permitted call makes of the one it read respects its ACL.
LEMMA CommitRespectsAcl ==
  ASSUME NEW c \in Calls, c.kind \notin Reads, NEW t \in Tasks,
         c.kind \in OwnerOps => Caller[t] # None, NEW b, NEW n,
         MayCommit(c, b.acl, Caller[t]),
         n.acl = NextAcl(c, b.acl, Caller[t]), n.iv[1] = t
  PROVE  RespectsAcl(b, n)
  <1>1. c.kind = "commit" \/ c.kind \in OwnerOps
    BY EcldStateAssumption DEF Call, Kinds
  <1>2. CASE c.kind = "commit"
    BY <1>2 DEF MayCommit, NextAcl, Claimed, RespectsAcl, canWrite
  <1>3. CASE c.kind \in OwnerOps
    <2>1. c.kind # "commit" /\ Caller[t] # None
      BY <1>3 DEF OwnerOps
    <2>2. b.acl = None \/ b.acl.owner = Caller[t]
      BY <2>1 DEF MayCommit, Claimed
    <2>3. QED BY <2>1, <2>2 DEF RespectsAcl, canWrite
  <1>4. QED BY <1>1, <1>2, <1>3

\* One fiber's step: what it now holds is fresh, or it holds nothing.
LEMMA FreshFiber ==
  ASSUME TypeInv, Lockstep, FreshInv, NEW t \in Tasks, NEW f \in Fibers,
         \/ \E c \in Calls : Invoke(t, f, c)
         \/ FiberStep(t, f)
         \/ Fail(t, f)
  PROVE  /\ \A u \in Tasks, g \in Fibers :
               <<u, g>> # <<t, f>> => op'[u][g] = op[u][g]
         /\ op'[t][f].pc # "idle" =>
               FreshOp(chain'[op'[t][f].call.key], op'[t][f])
  <1> DEFINE o == op[t][f]
             k == o.call.key
             Others == \A u \in Tasks, g \in Fibers :
                          <<u, g>> # <<t, f>> => op'[u][g] = op[u][g]
             Mine == op'[t][f].pc # "idle" =>
                       FreshOp(chain'[op'[t][f].call.key], op'[t][f])
  <1> SUFFICES Others /\ Mine
    OBVIOUS
  <1>1. \A r : Goto(t, f, r) => Others /\ op'[t][f] = r
    BY DEF Goto, TypeInv, TypeOK
  <1>2. \A out : Return(t, f, out) => Others /\ op'[t][f].pc = "idle"
    BY DEF Return, Goto, IdleOp, TypeInv, TypeOK
  <1>3. ASSUME NEW r, Goto(t, f, r), FreshOp(chain'[r.call.key], r)
        PROVE  Others /\ Mine
    BY <1>1, <1>3
  <1>4. ASSUME NEW out, Return(t, f, out)
        PROVE  Others /\ Mine
    BY <1>2, <1>4
  <1>5. \A r, e : r.pc \in {"getState", "putLedger", "putCommit"} => FreshOp(e, r)
    BY DEF FreshOp
  <1> HIDE DEF Others, Mine
  <1>6. ASSUME NEW c \in Calls, Invoke(t, f, c)
        PROVE  Others /\ Mine
    <2> DEFINE r == [IdleOp EXCEPT !.pc = "getState", !.call = c,
                                   !.no = calls[t] + 1]
    <2>1. Return(t, f, "permission") \/ Return(t, f, "limit") \/ Goto(t, f, r)
      BY <1>6 DEF Invoke
    <2>2. r.pc = "getState"
      BY DEF IdleOp
    <2> HIDE DEF r
    <2>3. QED BY <1>3, <1>4, <1>5, <2>1, <2>2
  <1>7. CASE ReadState(t, f)
    <2> DEFINE l == IF chain[k].version = 0 THEN AfterRead(o.call) ELSE "fetch"
               p == [o EXCEPT !.pc = AfterRead(o.call), !.memo = TRUE,
                              !.base = writes[t][k].blob,
                              !.version = writes[t][k].version]
               q == [o EXCEPT !.pc = l, !.memo = FALSE, !.base = chain[k].blob,
                              !.version = chain[k].version]
    <2>1. /\ Goto(t, f, p) \/ Goto(t, f, q)
          /\ UNCHANGED chain
      BY <1>7 DEF ReadState, chainVars
    <2>2. o \in Op /\ k \in Keys /\ chain[k].version \in Nat
      BY <1>7, CallType DEF ReadState, TypeInv, TypeOK, Entry
    <2>3. l \in {"fetch", "deliver", "getNonce"} /\ AfterRead(o.call) \in {"deliver", "getNonce"}
      BY DEF AfterRead
    <2>4. /\ p.pc \in {"deliver", "getNonce"} /\ p.memo /\ p.call = o.call
          /\ q.pc \in {"fetch", "deliver", "getNonce"} /\ q.call = o.call
          /\ q.base = chain[k].blob /\ q.version = chain[k].version
      BY <2>2, <2>3 DEF Op
    <2>5. FreshOp(chain[k], p) /\ FreshOp(chain[k], q)
      <3> HIDE DEF p, q
      <3>1. QED BY <2>2, <2>4 DEF FreshOp
    <2> HIDE DEF p, q
    <2>6. QED BY <1>3, <2>1, <2>4, <2>5
  <1>8. CASE CheckNonceCopy(t, f)
    <2> DEFINE r == [o EXCEPT !.pc = AfterRead(o.call)]
    <2>1. /\ Return(t, f, "tampered") \/ Goto(t, f, r)
          /\ UNCHANGED chain /\ o.pc = "fetch"
      BY <1>8 DEF CheckNonceCopy, chainVars
    <2>2. o \in Op /\ FreshOp(chain[k], o)
      BY <2>1, CallType DEF FreshInv
    <2>3. /\ r.pc \in {"deliver", "getNonce"} /\ r.call = o.call
          /\ r.base = o.base /\ r.version = o.version /\ r.memo = o.memo
      BY <2>2 DEF Op, AfterRead
    <2> HIDE DEF r
    <2>4. FreshOp(chain[k], r)
      BY <2>1, <2>2, <2>3 DEF FreshOp
    <2>5. QED BY <1>3, <1>4, <2>1, <2>3, <2>4
  <1>9. CASE Deliver(t, f)
    <2>1. Return(t, f, "ok") \/ Return(t, f, "permission")
      BY <1>9 DEF Deliver
    <2>2. QED BY <1>4, <2>1
  <1>10. CASE ReadNonce(t, f)
    <2> DEFINE acl == NextAcl(o.call, o.base.acl, Caller[t])
               b == [iv |-> <<t, o.no, o.attempt>>, parent |-> o.base.iv,
                     memo |-> o.memo, acl |-> acl,
                     committedBy |-> IF acl = None THEN None ELSE Caller[t],
                     nonce |-> getNonce(t, k) + 1]
               r == [o EXCEPT !.pc = "relayNonce", !.blob = b]
    <2>1. /\ \/ Return(t, f, "nonce")
             \/ Return(t, f, "permission")
             \/ /\ Goto(t, f, r)
                /\ MayCommit(o.call, o.base.acl, Caller[t])
          /\ UNCHANGED chain /\ o.pc = "getNonce"
      BY <1>10 DEF ReadNonce, chainVars
    <2>2. /\ o \in Op /\ FreshOp(chain[k], o) /\ o.call \in Calls
          /\ o.call.kind \notin Reads
          /\ o.call.kind \in OwnerOps => Caller[t] # None
      BY <2>1, CallType DEF FreshInv, TypeInv, OpOK, Committing
    <2>3. CASE Goto(t, f, r) /\ MayCommit(o.call, o.base.acl, Caller[t])
      <3>1. b.memo = o.memo /\ b.parent = o.base.iv /\ b.acl = acl /\ b.iv[1] = t
        OBVIOUS
      <3> HIDE DEF b
      <3>2. RespectsAcl(o.base, b)
        BY <2>2, <2>3, <3>1, CommitRespectsAcl
      <3>3. r.pc = "relayNonce" /\ r.call = o.call /\ r.blob = b
            /\ r.version = o.version
        BY <2>2 DEF Op
      <3> HIDE DEF r, acl
      <3>4. FreshBlob(chain[k], o.version, b)
        BY <2>1, <2>2, <3>1, <3>2 DEF FreshOp, FreshBlob
      <3>5. FreshOp(chain[k], r)
        BY <3>3, <3>4 DEF FreshOp
      <3>6. QED BY <1>3, <2>1, <2>3, <3>3, <3>5
    <2> HIDE DEF r
    <2>4. QED BY <1>4, <2>1, <2>3
  <1>11. CASE ReadRelayNonce(t, f)
    <2> DEFINE r == [o EXCEPT !.pc = "sign",
                              !.relayNonce = NextRelayNonce(t, k)]
    <2>1. Goto(t, f, r) /\ UNCHANGED chain /\ o.pc = "relayNonce"
      BY <1>11 DEF ReadRelayNonce, chainVars
    <2>2. o \in Op /\ FreshOp(chain[k], o)
      BY <2>1, CallType DEF FreshInv
    <2>3. /\ r.pc = "sign" /\ r.call = o.call /\ r.version = o.version
          /\ r.blob = o.blob
      BY <2>2 DEF Op
    <2> HIDE DEF r
    <2>4. FreshOp(chain[k], r)
      BY <2>1, <2>2, <2>3 DEF FreshOp
    <2>5. QED BY <1>3, <2>1, <2>3, <2>4
  <1>12. CASE Sign(t, f)
    <2> DEFINE r == [o EXCEPT !.pc = "putLedger", !.at = Len(ledger[t]) + 1]
    <2>1. Goto(t, f, r) /\ o \in Op
      BY <1>12, CallType DEF Sign
    <2>2. r.pc = "putLedger"
      BY <2>1 DEF Op
    <2> HIDE DEF r
    <2>3. QED BY <1>3, <1>5, <2>1, <2>2
  <1>13. CASE PutLedger(t, f)
    <2> DEFINE r == [o EXCEPT !.pc = "putCommit"]
    <2>1. Goto(t, f, r) /\ o \in Op
      BY <1>13, CallType DEF PutLedger
    <2>2. r.pc = "putCommit"
      BY <2>1 DEF Op
    <2> HIDE DEF r
    <2>3. QED BY <1>3, <1>5, <2>1, <2>2
  <1>14. CASE PutCommit(t, f)
    <2> DEFINE r == Again(o)
    <2>1. Return(t, f, "ok") \/ Return(t, f, "failed") \/ Goto(t, f, r)
      BY <1>14 DEF PutCommit, Acknowledge
    <2>2. r.pc = "getState"
      BY AgainIs
    <2> HIDE DEF r
    <2>3. QED BY <1>3, <1>4, <1>5, <2>1, <2>2
  <1>15. CASE Fail(t, f)
    <2> DEFINE r == Again(o)
    <2>1. Return(t, f, "failed") \/ Goto(t, f, r)
      BY <1>15 DEF Fail
    <2>2. r.pc = "getState"
      BY AgainIs
    <2> HIDE DEF r
    <2>3. QED BY <1>3, <1>4, <1>5, <2>1, <2>2
  <1>16. QED
    BY <1>6, <1>7, <1>8, <1>9, <1>10, <1>11, <1>12, <1>13, <1>14, <1>15
       DEF FiberStep

\* A step adds to what is signed only the authorization it signs.
LEMMA SignedStep ==
  ASSUME TypeInv, [Next]_vars, NEW a \in Signed', a \notin Signed
  PROVE  /\ a \in Auth
         /\ \E t \in Tasks, f \in Fibers : Sign(t, f) /\ a = Authorization(op[t][f])
  <1>1. TypeInv'
    BY NextType
  <1>2. a \in Auth
    BY <1>1 DEF Signed, TypeInv, TypeOK
  <1>3. \A t \in Tasks : ledger[t] \in Seq(Auth)
    BY DEF TypeInv, TypeOK
  <1>4. \A t \in Tasks : \A i \in 1 .. Len(ledger[t]) : ledger[t][i] \in Signed
    BY <1>3 DEF Signed
  <1>5. CASE UNCHANGED <<staged, ledger>>
    BY <1>5 DEF Signed
  <1>6. ASSUME NEW t \in Tasks, NEW f \in Fibers, Sign(t, f)
        PROVE  a = Authorization(op[t][f])
    <2> DEFINE n == Authorization(op[t][f])
    <2>1. ledger' = [ledger EXCEPT ![t] = Append(@, n)] /\ staged' = staged
      BY <1>6 DEF Sign
    <2>2. PICK u \in Tasks : \E i \in 1 .. Len(ledger'[u]) : a = ledger'[u][i]
      BY <2>1 DEF Signed
    <2>3. PICK i \in 1 .. Len(ledger'[u]) : a = ledger'[u][i]
      BY <2>2
    <2> HIDE DEF n
    <2>4. CASE u = t
      <3>1. ledger'[t] = Append(ledger[t], n)
        BY <2>1 DEF TypeInv, TypeOK
      <3>2. CASE i \in 1 .. Len(ledger[t])
        BY <1>3, <1>4, <2>3, <2>4, <3>1, <3>2
      <3>3. CASE i = Len(ledger[t]) + 1
        BY <1>3, <2>3, <2>4, <3>1, <3>3 DEF n
      <3>4. QED BY <1>3, <2>3, <2>4, <3>1, <3>2, <3>3
    <2>5. CASE u # t
      <3>1. ledger'[u] = ledger[u]
        BY <2>1, <2>5 DEF TypeInv, TypeOK
      <3>2. QED BY <1>4, <2>3, <3>1
    <2>6. QED BY <2>4, <2>5 DEF n
  <1>7. ASSUME NEW t \in Tasks, NEW f \in Fibers,
               PutLedger(t, f) \/ PutCommit(t, f)
        PROVE  FALSE
    <2>1. UNCHANGED ledger /\ op[t][f].at \in 1 .. Len(ledger[t])
      BY <1>7 DEF PutLedger, PutCommit, taskVars, TypeInv, OpOK
    <2>2. \A i \in 1 .. op[t][f].at : ledger[t][i] \in Signed
      BY <1>3, <1>4, <2>1
    <2>3. op[t][f].at \in 1 .. op[t][f].at
      BY <1>3, <2>1
    <2>4. \A x \in staged' : x \in staged \/ \E i \in 1 .. op[t][f].at : x = ledger[t][i]
      BY <1>7, <2>3 DEF PutLedger, PutCommit
    <2>5. staged' \subseteq Signed
      BY <2>2, <2>4 DEF Signed
    <2>6. QED BY <2>1, <2>5 DEF Signed
  <1>8. ASSUME NEW t \in Tasks, NEW f \in Fibers,
               \/ \E c \in Calls : Invoke(t, f, c)
               \/ ReadState(t, f) \/ CheckNonceCopy(t, f) \/ Deliver(t, f)
               \/ ReadNonce(t, f) \/ ReadRelayNonce(t, f) \/ Fail(t, f)
        PROVE  UNCHANGED <<staged, ledger>>
    BY <1>8 DEF Invoke, ReadState, CheckNonceCopy, Deliver, ReadNonce,
       ReadRelayNonce, Fail, taskVars
  <1>9. ASSUME NEW b \in staged, Relay(b)
        PROVE  UNCHANGED <<staged, ledger>>
    BY <1>9 DEF Relay, taskVars
  <1>10. QED
    BY <1>2, <1>5, <1>6, <1>7, <1>8, <1>9 DEF Next, FiberStep, vars

LEMMA FreshNext ==
  ASSUME TypeInv, Lockstep, FreshInv, [Next]_vars
  PROVE  FreshInv'
  <1>1. TypeInv'
    BY NextType
  <1>2. ASSUME NEW t \in Tasks, NEW f \in Fibers, op'[t][f].pc # "idle",
               op'[t][f] = op[t][f]
        PROVE  FreshOp(chain'[op'[t][f].call.key], op'[t][f])
    <2> DEFINE o == op[t][f]
               k == o.call.key
    <2>1. o \in Op /\ k \in Keys /\ FreshOp(chain[k], o)
      BY <1>2, CallType DEF FreshInv
    <2>2. /\ chain[k] \in Entry /\ chain'[k] \in Entry
          /\ chain'[k] = chain[k] \/ chain'[k].version > chain[k].version
      BY <2>1, ChainAdvances
    <2> HIDE DEF k
    <2>3. FreshOp(chain'[k], o)
      BY <2>1, <2>2, FreshLater
    <2>4. QED BY <1>2, <2>3 DEF k
  <1>3. ASSUME NEW t \in Tasks, NEW f \in Fibers, op'[t][f].pc # "idle"
        PROVE  FreshOp(chain'[op'[t][f].call.key], op'[t][f])
    <2>1. CASE op'[t][f] = op[t][f]
      BY <1>2, <1>3, <2>1
    <2>2. CASE \E u \in Tasks, g \in Fibers :
                  \/ \E c \in Calls : Invoke(u, g, c)
                  \/ FiberStep(u, g)
                  \/ Fail(u, g)
      <3>1. PICK u \in Tasks, g \in Fibers :
                    \/ \E c \in Calls : Invoke(u, g, c)
                    \/ FiberStep(u, g)
                    \/ Fail(u, g)
        BY <2>2
      <3>2. CASE <<u, g>> = <<t, f>>
        BY <1>3, <3>1, <3>2, FreshFiber
      <3>3. CASE <<u, g>> # <<t, f>>
        <4>1. op'[t][f] = op[t][f]
          BY <3>1, <3>3, FreshFiber
        <4>2. QED BY <2>1, <4>1
      <3>4. QED BY <3>2, <3>3
    <2>3. CASE \E a \in staged : Relay(a)
      BY <2>1, <2>3 DEF Relay
    <2>4. CASE UNCHANGED vars
      BY <2>1, <2>4 DEF vars
    <2>5. QED BY <2>2, <2>3, <2>4 DEF Next
  <1>4. ASSUME NEW a \in Signed'
        PROVE  FreshBlob(chain'[a.key], a.expectedVersion, a.blob)
    <2>1. a \in Auth
      BY <1>1 DEF Signed, TypeInv, TypeOK
    <2>2. a.key \in Keys /\ a.expectedVersion \in Nat /\ a.blob \in Blob
      BY <2>1 DEF Auth
    <2>3. FreshBlob(chain[a.key], a.expectedVersion, a.blob)
      <3>1. CASE a \in Signed
        BY <3>1 DEF FreshInv
      <3>2. CASE a \notin Signed
        <4>1. PICK t \in Tasks, f \in Fibers :
                     Sign(t, f) /\ a = Authorization(op[t][f])
          BY <3>2, SignedStep
        <4>2. FreshOp(chain[op[t][f].call.key], op[t][f]) /\ op[t][f].pc = "sign"
          BY <4>1 DEF Sign, FreshInv
        <4>3. QED BY <4>1, <4>2 DEF FreshOp, Authorization
      <3>3. QED BY <3>1, <3>2
    <2>4. /\ chain[a.key] \in Entry /\ chain'[a.key] \in Entry
          /\ \/ chain'[a.key] = chain[a.key]
             \/ chain'[a.key].version > chain[a.key].version
      BY <2>2, ChainAdvances
    <2>5. QED BY <2>2, <2>3, <2>4, FreshLater
  <1>5. QED BY <1>3, <1>4 DEF FreshInv

LEMMA LandedFreshNext ==
  ASSUME TypeInv, Lockstep, FreshInv, LandedFresh, [Next]_vars
  PROVE  LandedFresh'
  <1>1. CASE UNCHANGED chainVars
    BY <1>1 DEF LandedFresh, Replaced, chainVars
  <1>2. ASSUME NEW a \in Signed, a \in Auth, Accepts(a), Land(a)
        PROVE  LandedFresh'
    <2> SUFFICES ASSUME NEW k \in Keys, NEW i \in 1 .. Len(landed'[k]),
                        ~landed'[k][i].blob.memo
                 PROVE  LET b == IF i = 1 THEN NoBlob ELSE landed'[k][i - 1].blob
                        IN  /\ landed'[k][i].blob.parent = b.iv
                            /\ RespectsAcl(b, landed'[k][i].blob)
      BY DEF LandedFresh, Replaced
    <2>1. CASE k # a.key
      <3>1. landed'[k] = landed[k]
        BY <1>2, <2>1, LandStep DEF TypeInv
      <3>2. QED BY <3>1 DEF LandedFresh, Replaced
    <2>2. CASE k = a.key
      <3> DEFINE n == Len(landed[k])
      <3>1. landed[k] \in Seq(Auth) /\ n \in Nat
        BY DEF TypeInv, TypeOK
      <3>2. landed'[k] = Append(landed[k], a)
        BY <1>2, <2>2, LandStep DEF TypeInv
      <3>3. /\ Len(landed'[k]) = n + 1
            /\ landed'[k][n + 1] = a
            /\ \A j \in 1 .. n : landed'[k][j] = landed[k][j]
        BY <3>1, <3>2
      <3>4. CASE i \in 1 .. n
        <4>1. landed'[k][i] = landed[k][i]
          BY <3>3, <3>4
        <4>2. i # 1 => landed'[k][i - 1] = landed[k][i - 1]
          BY <3>1, <3>3, <3>4
        <4>3. QED BY <3>4, <4>1, <4>2 DEF LandedFresh, Replaced
      <3>5. CASE i = n + 1
        <4>1. landed'[k][i] = a /\ ~a.blob.memo
          BY <3>3, <3>5
        <4>2. /\ a.expectedVersion = chain[k].version
              /\ FreshBlob(chain[k], a.expectedVersion, a.blob)
          BY <1>2, <2>2 DEF Accepts, FreshInv
        <4>3. /\ a.blob.parent = chain[k].blob.iv
              /\ RespectsAcl(chain[k].blob, a.blob)
          BY <4>1, <4>2 DEF FreshBlob
        <4>4. chain[k].blob = IF i = 1 THEN NoBlob ELSE landed'[k][i - 1].blob
          <5>1. chain[k].blob = IF n = 0 THEN NoBlob ELSE landed[k][n].blob
            BY DEF Lockstep
          <5>2. n # 0 => landed'[k][n] = landed[k][n]
            BY <3>1, <3>3
          <5> HIDE DEF n
          <5>3. (i = 1) = (n = 0) /\ i - 1 = n
            BY <3>1, <3>5
          <5>4. QED BY <5>1, <5>2, <5>3
        <4>5. QED BY <4>1, <4>3, <4>4
      <3>6. QED BY <3>1, <3>3, <3>4, <3>5
    <2>3. QED BY <2>1, <2>2
  <1>3. QED BY <1>1, <1>2, ChainStep

LEMMA FreshInit == Init => FreshInv /\ LandedFresh
  <1> SUFFICES ASSUME Init PROVE FreshInv /\ LandedFresh
    OBVIOUS
  <1>1. Signed = {}
    BY DEF Init, Signed
  <1>2. \A t \in Tasks, f \in Fibers : op[t][f].pc = "idle"
    BY DEF Init, IdleOp
  <1>3. FreshInv
    BY <1>1, <1>2 DEF FreshInv
  <1>4. LandedFresh
    BY DEF Init, LandedFresh
  <1>5. QED BY <1>3, <1>4

LEMMA FreshHolds == Spec => [](TypeInv /\ Lockstep /\ FreshInv /\ LandedFresh)
  <1> DEFINE I == TypeInv /\ Lockstep /\ FreshInv /\ LandedFresh
  <1>1. Init => I
    BY InitType, LockstepInit, FreshInit
  <1>2. I /\ [Next]_vars => I'
    BY NextType, LockstepNext, FreshNext, LandedFreshNext
  <1>3. QED BY <1>1, <1>2, PTL DEF Spec

\* However tasks, concurrent calls, failed awaits and the node interleave, a
\* commit computed from a container read from the chain replaces exactly that
\* container (commit(): "concurrent tasks cannot silently lose updates").
THEOREM ChainReadsNeverLose == Spec => []ChainReadsKeepUpdates
  <1>1. LandedFresh => ChainReadsKeepUpdates
    BY DEF LandedFresh, ChainReadsKeepUpdates
  <1>2. QED BY <1>1, FreshHolds, PTL

\* The permission that was checked before the commit was signed is still the
\* one in force when the contract accepts it.
THEOREM ChainReadsAclInForce == Spec => []ChainReadsRespectAcl
  <1>1. LandedFresh => ChainReadsRespectAcl
    BY DEF LandedFresh, ChainReadsRespectAcl
  <1>2. QED BY <1>1, FreshHolds, PTL

(***************************************************************************)
(* What a commit computed from the task's own memo can overwrite.  A memo  *)
(* is written when a commit is acknowledged, and only a version ahead of   *)
(* the chain is preferred, so whatever was computed from one descends from *)
(* an acknowledged commit of the same task, one version earlier.           *)
(***************************************************************************)

\* Container p, which task t takes to be version v, is one of its commits that
\* were acknowledged, A being those.
Behind(A, t, p, v) ==
    \E b \in A : b.blob.iv = p /\ b.blob.iv[1] = t /\ b.expectedVersion + 1 = v

\* Blob n, made for the entry after version v, was computed from such a
\* container if it was computed from a memo.
BlobBehind(A, n, v) == n.memo => Behind(A, n.iv[1], n.parent, v)

\* The same of what a fiber of task t holds, L being the task's ledger.
MemoOp(A, L, t, o) ==
    /\ o.pc = "fetch" => ~o.memo
    /\ o.pc \in {"deliver", "getNonce"} /\ o.memo =>
          Behind(A, t, o.base.iv, o.version)
    /\ o.pc \in {"relayNonce", "sign", "putLedger", "putCommit"} =>
          o.blob.iv[1] = t /\ BlobBehind(A, o.blob, o.version)
    /\ o.pc \in {"putLedger", "putCommit"} =>
          /\ L[o.at].key = o.call.key /\ L[o.at].blob = o.blob
          /\ L[o.at].expectedVersion = o.version

MemoOps ==
    \A t \in Tasks, f \in Fibers : MemoOp(acked, ledger[t], t, op[t][f])

MemoWrites ==
    \A t \in Tasks, k \in Keys :
        writes[t][k].version > 0 =>
            Behind(acked, t, writes[t][k].blob.iv, writes[t][k].version)

MemoSigned == \A a \in Signed : BlobBehind(acked, a.blob, a.expectedVersion)

MemoLanded ==
    \A k \in Keys : \A i \in 1 .. Len(landed[k]) :
        /\ landed[k][i].expectedVersion = i - 1
        /\ BlobBehind(acked, landed[k][i].blob, i - 1)

MemoInv == MemoOps /\ MemoWrites /\ MemoSigned /\ MemoLanded

LEMMA MemoInit == Init => MemoInv
  <1> SUFFICES ASSUME Init PROVE MemoInv
    OBVIOUS
  <1>1. \A t \in Tasks, f \in Fibers : op[t][f] = IdleOp
    BY DEF Init
  <1>2. MemoOps
    BY <1>1 DEF MemoOps, MemoOp, IdleOp
  <1>3. MemoWrites
    BY DEF Init, PerTaskKey, NoMemo, MemoWrites
  <1>4. MemoSigned /\ MemoLanded
    BY DEF Init, Signed, MemoSigned, MemoLanded
  <1>5. QED BY <1>2, <1>3, <1>4 DEF MemoInv

\* Nothing is unacknowledged, and no ledger loses or changes an entry.
LEMMA OnlyGrow ==
  ASSUME TypeInv, [Next]_vars
  PROVE  /\ acked \subseteq acked'
         /\ \A t \in Tasks : \A i \in 1 .. Len(ledger[t]) :
               ledger'[t][i] = ledger[t][i]
  <1>1. ASSUME NEW t \in Tasks, NEW f \in Fibers, Sign(t, f)
        PROVE  /\ acked \subseteq acked'
               /\ \A u \in Tasks : \A i \in 1 .. Len(ledger[u]) :
                     ledger'[u][i] = ledger[u][i]
    <2> DEFINE n == Authorization(op[t][f])
    <2>1. ledger' = [ledger EXCEPT ![t] = Append(@, n)] /\ acked' = acked
      BY <1>1 DEF Sign
    <2>2. ledger \in [Tasks -> Seq(Auth)]
      BY DEF TypeInv, TypeOK
    <2> HIDE DEF n
    <2>3. ASSUME NEW u \in Tasks, NEW i \in 1 .. Len(ledger[u])
          PROVE  ledger'[u][i] = ledger[u][i]
      <3>1. ledger[u] \in Seq(Auth)
        BY <2>2
      <3>2. ledger'[u] = ledger[u] \/ ledger'[u] = Append(ledger[u], n)
        BY <2>1, <2>2
      <3>3. QED BY <3>1, <3>2
    <2>4. QED BY <2>1, <2>3
  <1>2. ASSUME NEW t \in Tasks, NEW f \in Fibers,
               \/ \E c \in Calls : Invoke(t, f, c)
               \/ ReadState(t, f) \/ CheckNonceCopy(t, f) \/ Deliver(t, f)
               \/ ReadNonce(t, f) \/ ReadRelayNonce(t, f) \/ PutLedger(t, f)
               \/ PutCommit(t, f) \/ Fail(t, f)
        PROVE  acked \subseteq acked' /\ ledger' = ledger
    BY <1>2 DEF Invoke, ReadState, CheckNonceCopy, Deliver, ReadNonce,
       ReadRelayNonce, PutLedger, PutCommit, Acknowledge, Fail, taskVars
  <1>3. QED
    BY <1>1, <1>2 DEF Next, FiberStep, Relay, taskVars, vars

\* What was so stays so as more is acknowledged and signed.
LEMMA MemoLater ==
  ASSUME NEW A, NEW B, A \subseteq B
  PROVE  /\ \A t, p, v : Behind(A, t, p, v) => Behind(B, t, p, v)
         /\ \A n, v : BlobBehind(A, n, v) => BlobBehind(B, n, v)
         /\ \A t, L, M, o :
               /\ MemoOp(A, L, t, o)
               /\ o.pc \in {"putLedger", "putCommit"} => M[o.at] = L[o.at]
               => MemoOp(B, M, t, o)
  <1>1. \A t, p, v : Behind(A, t, p, v) => Behind(B, t, p, v)
    BY DEF Behind
  <1>2. \A n, v : BlobBehind(A, n, v) => BlobBehind(B, n, v)
    BY <1>1 DEF BlobBehind
  <1>3. QED BY <1>1, <1>2 DEF MemoOp

\* One fiber's step: what it now holds from a memo has an acknowledged commit
\* behind it.
LEMMA MemoFiber ==
  ASSUME TypeInv, MemoInv, NEW t \in Tasks, NEW f \in Fibers,
         \/ \E c \in Calls : Invoke(t, f, c)
         \/ FiberStep(t, f)
         \/ Fail(t, f)
  PROVE  /\ \A u \in Tasks, g \in Fibers :
               <<u, g>> # <<t, f>> => op'[u][g] = op[u][g]
         /\ MemoOp(acked', ledger'[t], t, op'[t][f])
  <1> DEFINE o == op[t][f]
             k == o.call.key
             Others == \A u \in Tasks, g \in Fibers :
                          <<u, g>> # <<t, f>> => op'[u][g] = op[u][g]
             Mine == MemoOp(acked', ledger'[t], t, op'[t][f])
  <1> SUFFICES Others /\ Mine
    OBVIOUS
  <1>1. \A r : Goto(t, f, r) => Others /\ op'[t][f] = r
    BY DEF Goto, TypeInv, TypeOK
  <1>2. \A A, L, r : r.pc \in {"idle", "getState"} => MemoOp(A, L, t, r)
    BY DEF MemoOp
  <1>3. ASSUME NEW r, Goto(t, f, r), MemoOp(acked', ledger'[t], t, r)
        PROVE  Others /\ Mine
    BY <1>1, <1>3
  <1>4. ASSUME NEW out, Return(t, f, out)
        PROVE  Others /\ Mine
    <2> DEFINE r == [IdleOp EXCEPT !.out = out]
    <2>1. Goto(t, f, r) /\ r.pc = "idle"
      BY <1>4 DEF Return, IdleOp
    <2> HIDE DEF r
    <2>2. MemoOp(acked', ledger'[t], t, r)
      BY <1>2, <2>1
    <2>3. QED BY <1>3, <2>1, <2>2
  <1>5. MemoOp(acked, ledger[t], t, o)
    BY DEF MemoInv, MemoOps
  <1> HIDE DEF Others, Mine
  <1>6. ASSUME NEW c \in Calls, Invoke(t, f, c)
        PROVE  Others /\ Mine
    <2> DEFINE r == [IdleOp EXCEPT !.pc = "getState", !.call = c,
                                   !.no = calls[t] + 1]
    <2>1. Return(t, f, "permission") \/ Return(t, f, "limit") \/ Goto(t, f, r)
      BY <1>6 DEF Invoke
    <2>2. r.pc = "getState"
      BY DEF IdleOp
    <2> HIDE DEF r
    <2>3. QED BY <1>2, <1>3, <1>4, <2>1, <2>2
  <1>7. CASE ReadState(t, f)
    <2> DEFINE l == IF chain[k].version = 0 THEN AfterRead(o.call) ELSE "fetch"
               p == [o EXCEPT !.pc = AfterRead(o.call), !.memo = TRUE,
                              !.base = writes[t][k].blob,
                              !.version = writes[t][k].version]
               q == [o EXCEPT !.pc = l, !.memo = FALSE, !.base = chain[k].blob,
                              !.version = chain[k].version]
    <2>1. /\ \/ PrefersOwn(t, k) /\ Goto(t, f, p)
             \/ Goto(t, f, q)
          /\ UNCHANGED <<acked, ledger>>
      BY <1>7 DEF ReadState, taskVars
    <2>2. /\ o \in Op /\ k \in Keys /\ chain[k].version \in Nat
          /\ writes[t][k] \in Memo
      BY <1>7, CallType DEF ReadState, TypeInv, TypeOK, Entry
    <2>3. /\ l \in {"fetch", "deliver", "getNonce"}
          /\ AfterRead(o.call) \in {"deliver", "getNonce"}
      BY DEF AfterRead
    <2>4. /\ p.pc \in {"deliver", "getNonce"} /\ p.base = writes[t][k].blob
          /\ p.version = writes[t][k].version
          /\ q.pc \in {"fetch", "deliver", "getNonce"} /\ ~q.memo
      BY <2>2, <2>3 DEF Op
    <2> HIDE DEF p, q
    <2>5. ASSUME PrefersOwn(t, k) PROVE MemoOp(acked, ledger[t], t, p)
      <3>1. writes[t][k].version > 0
        BY <2>2, <2>5 DEF PrefersOwn, Memo
      <3>2. Behind(acked, t, writes[t][k].blob.iv, writes[t][k].version)
        BY <2>2, <3>1 DEF MemoInv, MemoWrites
      <3>3. QED BY <2>4, <3>2 DEF MemoOp
    <2>6. MemoOp(acked, ledger[t], t, q)
      BY <2>4 DEF MemoOp
    <2>7. QED BY <1>3, <2>1, <2>5, <2>6
  <1>8. CASE CheckNonceCopy(t, f)
    <2> DEFINE r == [o EXCEPT !.pc = AfterRead(o.call)]
    <2>1. /\ Return(t, f, "tampered") \/ Goto(t, f, r)
          /\ UNCHANGED <<acked, ledger>> /\ o.pc = "fetch" /\ o \in Op
      BY <1>8, CallType DEF CheckNonceCopy, taskVars
    <2>2. r.pc \in {"deliver", "getNonce"} /\ r.memo = o.memo
      BY <2>1 DEF Op, AfterRead
    <2> HIDE DEF r
    <2>3. MemoOp(acked, ledger[t], t, r)
      BY <1>5, <2>1, <2>2 DEF MemoOp
    <2>4. QED BY <1>3, <1>4, <2>1, <2>3
  <1>9. CASE Deliver(t, f)
    BY <1>4, <1>9 DEF Deliver
  <1>10. CASE ReadNonce(t, f)
    <2> DEFINE acl == NextAcl(o.call, o.base.acl, Caller[t])
               b == [iv |-> <<t, o.no, o.attempt>>, parent |-> o.base.iv,
                     memo |-> o.memo, acl |-> acl,
                     committedBy |-> IF acl = None THEN None ELSE Caller[t],
                     nonce |-> getNonce(t, k) + 1]
               r == [o EXCEPT !.pc = "relayNonce", !.blob = b]
    <2>1. /\ \/ Return(t, f, "nonce") \/ Return(t, f, "permission")
             \/ Goto(t, f, r)
          /\ UNCHANGED <<acked, ledger>> /\ o.pc = "getNonce" /\ o \in Op
      BY <1>10, CallType DEF ReadNonce, taskVars
    <2>2. b.memo = o.memo /\ b.parent = o.base.iv /\ b.iv[1] = t
      OBVIOUS
    <2> HIDE DEF b
    <2>3. r.pc = "relayNonce" /\ r.blob = b /\ r.version = o.version
      BY <2>1 DEF Op
    <2> HIDE DEF r
    <2>4. MemoOp(acked, ledger[t], t, r)
      BY <1>5, <2>1, <2>2, <2>3 DEF MemoOp, BlobBehind
    <2>5. QED BY <1>3, <1>4, <2>1, <2>4
  <1>11. CASE ReadRelayNonce(t, f)
    <2> DEFINE r == [o EXCEPT !.pc = "sign",
                              !.relayNonce = NextRelayNonce(t, k)]
    <2>1. /\ Goto(t, f, r) /\ UNCHANGED <<acked, ledger>>
          /\ o.pc = "relayNonce" /\ o \in Op
      BY <1>11, CallType DEF ReadRelayNonce, taskVars
    <2>2. r.pc = "sign" /\ r.blob = o.blob /\ r.version = o.version
      BY <2>1 DEF Op
    <2> HIDE DEF r
    <2>3. MemoOp(acked, ledger[t], t, r)
      BY <1>5, <2>1, <2>2 DEF MemoOp
    <2>4. QED BY <1>3, <2>1, <2>3
  <1>12. CASE Sign(t, f)
    <2> DEFINE r == [o EXCEPT !.pc = "putLedger", !.at = Len(ledger[t]) + 1]
               n == Authorization(o)
    <2>1. /\ Goto(t, f, r) /\ UNCHANGED acked /\ o.pc = "sign" /\ o \in Op
          /\ ledger'[t] = Append(ledger[t], n) /\ ledger[t] \in Seq(Auth)
      BY <1>12, CallType DEF Sign, TypeInv, TypeOK
    <2>2. n.key = k /\ n.blob = o.blob /\ n.expectedVersion = o.version
      BY DEF Authorization
    <2> HIDE DEF n
    <2>3. /\ r.pc = "putLedger" /\ r.blob = o.blob /\ r.version = o.version
          /\ r.at = Len(ledger[t]) + 1 /\ r.call = o.call
      BY <2>1 DEF Op
    <2> HIDE DEF r
    <2>4. ledger'[t][r.at] = n
      BY <2>1, <2>3
    <2>5. MemoOp(acked, ledger'[t], t, r)
      BY <1>5, <2>1, <2>2, <2>3, <2>4 DEF MemoOp
    <2>6. QED BY <1>3, <2>1, <2>5
  <1>13. CASE PutLedger(t, f)
    <2> DEFINE r == [o EXCEPT !.pc = "putCommit"]
    <2>1. /\ Goto(t, f, r) /\ UNCHANGED <<acked, ledger>>
          /\ o.pc = "putLedger" /\ o \in Op
      BY <1>13, CallType DEF PutLedger, taskVars
    <2>2. /\ r.pc = "putCommit" /\ r.blob = o.blob /\ r.version = o.version
          /\ r.at = o.at /\ r.call = o.call
      BY <2>1 DEF Op
    <2> HIDE DEF r
    <2>3. MemoOp(acked, ledger[t], t, r)
      BY <1>5, <2>1, <2>2 DEF MemoOp
    <2>4. QED BY <1>3, <2>1, <2>3
  <1>14. CASE PutCommit(t, f)
    <2> DEFINE r == Again(o)
    <2>1. Return(t, f, "ok") \/ Return(t, f, "failed") \/ Goto(t, f, r)
      BY <1>14 DEF PutCommit, Acknowledge
    <2>2. r.pc = "getState"
      BY AgainIs
    <2> HIDE DEF r
    <2>3. QED BY <1>2, <1>3, <1>4, <2>1, <2>2
  <1>15. CASE Fail(t, f)
    <2> DEFINE r == Again(o)
    <2>1. Return(t, f, "failed") \/ Goto(t, f, r)
      BY <1>15 DEF Fail
    <2>2. r.pc = "getState"
      BY AgainIs
    <2> HIDE DEF r
    <2>3. QED BY <1>2, <1>3, <1>4, <2>1, <2>2
  <1>16. QED
    BY <1>6, <1>7, <1>8, <1>9, <1>10, <1>11, <1>12, <1>13, <1>14, <1>15
       DEF FiberStep

LEMMA MemoOpsNext ==
  ASSUME TypeInv, MemoInv, [Next]_vars
  PROVE  MemoOps'
  <1> SUFFICES ASSUME NEW t \in Tasks, NEW f \in Fibers
               PROVE  MemoOp(acked', ledger'[t], t, op'[t][f])
    BY DEF MemoOps
  <1>1. CASE op'[t][f] = op[t][f]
    <2>1. MemoOp(acked, ledger[t], t, op[t][f])
      BY DEF MemoInv, MemoOps
    <2>2. op[t][f].pc \in {"putLedger", "putCommit"} =>
             op[t][f].at \in 1 .. Len(ledger[t])
      BY DEF TypeInv, OpOK
    <2>3. QED BY <1>1, <2>1, <2>2, OnlyGrow, MemoLater
  <1>2. ASSUME NEW u \in Tasks, NEW g \in Fibers,
               \/ \E c \in Calls : Invoke(u, g, c)
               \/ FiberStep(u, g)
               \/ Fail(u, g)
        PROVE  MemoOp(acked', ledger'[t], t, op'[t][f])
    <2>1. CASE <<u, g>> = <<t, f>>
      BY <1>2, <2>1, MemoFiber
    <2>2. CASE <<u, g>> # <<t, f>>
      <3>1. op'[t][f] = op[t][f]
        BY <1>2, <2>2, MemoFiber
      <3>2. QED BY <1>1, <3>1
    <2>3. QED BY <2>1, <2>2
  <1>3. CASE \E a \in staged : Relay(a)
    BY <1>1, <1>3 DEF Relay
  <1>4. CASE UNCHANGED vars
    BY <1>1, <1>4 DEF vars
  <1>5. QED BY <1>2, <1>3, <1>4 DEF Next

\* The same of one step.
LEMMA MemoKept ==
  ASSUME TypeInv, [Next]_vars
  PROVE  /\ \A t, p, v : Behind(acked, t, p, v) => Behind(acked', t, p, v)
         /\ \A n, v : BlobBehind(acked, n, v) => BlobBehind(acked', n, v)
  BY OnlyGrow, MemoLater

LEMMA MemoWritesNext ==
  ASSUME TypeInv, MemoInv, [Next]_vars
  PROVE  MemoWrites'
  <1>1. CASE UNCHANGED writes
    BY <1>1, MemoKept DEF MemoInv, MemoWrites
  <1>2. ASSUME NEW t \in Tasks, NEW f \in Fibers, PutCommit(t, f),
               Acknowledge(t, f, op[t][f], ledger[t][op[t][f].at])
        PROVE  MemoWrites'
    <2> DEFINE o == op[t][f]
               k == o.call.key
               m == [blob |-> o.blob, version |-> o.version + 1]
               a == ledger[t][o.at]
    <2>1. /\ writes' = [writes EXCEPT ![t][k] = m] /\ acked' = acked \cup {a}
          /\ o.pc = "putCommit" /\ k \in Keys
          /\ writes \in [Tasks -> [Keys -> Memo]]
      BY <1>2, CallType DEF Acknowledge, PutCommit, TypeInv, TypeOK
    <2>2. MemoOp(acked, ledger[t], t, o)
      BY DEF MemoInv, MemoOps
    <2>3. a.blob = o.blob /\ a.expectedVersion = o.version /\ o.blob.iv[1] = t
      BY <2>1, <2>2 DEF MemoOp
    <2>4. m.blob = o.blob /\ m.version = o.version + 1
      OBVIOUS
    <2> HIDE DEF a, m, k, o
    <2>5. Behind(acked', t, m.blob.iv, m.version)
      BY <2>1, <2>3, <2>4 DEF Behind
    <2> SUFFICES ASSUME NEW u \in Tasks, NEW j \in Keys,
                        writes'[u][j].version > 0
                 PROVE  Behind(acked', u, writes'[u][j].blob.iv,
                               writes'[u][j].version)
      BY DEF MemoWrites
    <2>6. CASE u = t /\ j = k
      <3>1. writes'[u][j] = m
        BY <2>1, <2>6
      <3>2. QED BY <2>5, <2>6, <3>1
    <2>7. CASE ~(u = t /\ j = k)
      <3>1. writes'[u][j] = writes[u][j]
        BY <2>1, <2>7
      <3>2. QED BY <3>1, MemoKept DEF MemoInv, MemoWrites
    <2>8. QED BY <2>6, <2>7
  <1>3. ASSUME NEW t \in Tasks, NEW f \in Fibers, PutCommit(t, f),
               ~Acknowledge(t, f, op[t][f], ledger[t][op[t][f].at])
        PROVE  UNCHANGED writes
    BY <1>3 DEF PutCommit
  <1>4. ASSUME NEW t \in Tasks, NEW f \in Fibers,
               \/ \E c \in Calls : Invoke(t, f, c)
               \/ ReadState(t, f) \/ CheckNonceCopy(t, f) \/ Deliver(t, f)
               \/ ReadNonce(t, f) \/ ReadRelayNonce(t, f) \/ Sign(t, f)
               \/ PutLedger(t, f) \/ Fail(t, f)
        PROVE  UNCHANGED writes
    BY <1>4 DEF Invoke, ReadState, CheckNonceCopy, Deliver, ReadNonce,
       ReadRelayNonce, Sign, PutLedger, Fail, taskVars
  <1>5. (\E a \in staged : Relay(a)) \/ UNCHANGED vars => UNCHANGED writes
    BY DEF Relay, taskVars, vars
  <1>6. QED BY <1>1, <1>2, <1>3, <1>4, <1>5 DEF Next, FiberStep

LEMMA MemoSignedNext ==
  ASSUME TypeInv, MemoInv, [Next]_vars
  PROVE  MemoSigned'
  <1> SUFFICES ASSUME NEW a \in Signed'
               PROVE  BlobBehind(acked', a.blob, a.expectedVersion)
    BY DEF MemoSigned
  <1>1. BlobBehind(acked, a.blob, a.expectedVersion)
    <2>1. CASE a \in Signed
      BY <2>1 DEF MemoInv, MemoSigned
    <2>2. CASE a \notin Signed
      <3>1. PICK t \in Tasks, f \in Fibers :
                   Sign(t, f) /\ a = Authorization(op[t][f])
        BY <2>2, SignedStep
      <3>2. MemoOp(acked, ledger[t], t, op[t][f]) /\ op[t][f].pc = "sign"
        BY <3>1 DEF Sign, MemoInv, MemoOps
      <3>3. QED BY <3>1, <3>2 DEF MemoOp, Authorization
    <2>3. QED BY <2>1, <2>2
  <1>2. QED BY <1>1, MemoKept

LEMMA MemoLandedNext ==
  ASSUME TypeInv, Lockstep, MemoInv, [Next]_vars
  PROVE  MemoLanded'
  <1>1. CASE UNCHANGED chainVars
    BY <1>1, MemoKept DEF MemoInv, MemoLanded, chainVars
  <1>2. ASSUME NEW a \in Signed, a \in Auth, Accepts(a), Land(a)
        PROVE  MemoLanded'
    <2> SUFFICES ASSUME NEW k \in Keys, NEW i \in 1 .. Len(landed'[k])
                 PROVE  /\ landed'[k][i].expectedVersion = i - 1
                        /\ BlobBehind(acked', landed'[k][i].blob, i - 1)
      BY DEF MemoLanded
    <2>1. CASE k # a.key
      <3>1. landed'[k] = landed[k]
        BY <1>2, <2>1, LandStep DEF TypeInv
      <3>2. QED BY <3>1, MemoKept DEF MemoInv, MemoLanded
    <2>2. CASE k = a.key
      <3> DEFINE n == Len(landed[k])
      <3>1. landed[k] \in Seq(Auth) /\ n \in Nat
        BY DEF TypeInv, TypeOK
      <3>2. landed'[k] = Append(landed[k], a)
        BY <1>2, <2>2, LandStep DEF TypeInv
      <3>3. /\ Len(landed'[k]) = n + 1
            /\ landed'[k][n + 1] = a
            /\ \A j \in 1 .. n : landed'[k][j] = landed[k][j]
        BY <3>1, <3>2
      <3>4. CASE i \in 1 .. n
        <4>1. landed'[k][i] = landed[k][i]
          BY <3>3, <3>4
        <4>2. QED BY <3>4, <4>1, MemoKept DEF MemoInv, MemoLanded
      <3>5. CASE i = n + 1
        <4>1. a.expectedVersion = n
          BY <1>2, <2>2 DEF Accepts, Lockstep
        <4>2. BlobBehind(acked', a.blob, a.expectedVersion)
          BY <1>2, MemoKept DEF MemoInv, MemoSigned
        <4> HIDE DEF n
        <4>3. i - 1 = n
          BY <3>1, <3>5
        <4>4. QED BY <3>3, <3>5, <4>1, <4>2, <4>3
      <3>6. QED BY <3>1, <3>3, <3>4, <3>5
    <2>3. QED BY <2>1, <2>2
  <1>3. QED BY <1>1, <1>2, ChainStep

LEMMA MemoHolds == Spec => [](TypeInv /\ Lockstep /\ LandedFresh /\ MemoInv)
  <1>1. TypeInv /\ Lockstep /\ MemoInv /\ [Next]_vars => MemoInv'
    BY MemoOpsNext, MemoWritesNext, MemoSignedNext, MemoLandedNext DEF MemoInv
  <1>2. QED BY <1>1, MemoInit, FreshHolds, PTL DEF Spec

\* However tasks, concurrent calls, failed awaits and the node interleave, an
\* update is overwritten unread only by a task that built on a commit of its
\* own which the payload was told of and which can never land.
THEOREM LossBehindOwnRefusal == Spec => []LossOnlyBehindOwnRefusal
  <1>1. TypeInv /\ Lockstep /\ LandedFresh /\ MemoInv => LossOnlyBehindOwnRefusal
    <2> SUFFICES ASSUME TypeInv, Lockstep, LandedFresh, MemoInv, NEW k \in Keys,
                        NEW i \in 1 .. Len(landed[k]),
                        landed[k][i].blob.parent # Replaced(k, i).iv
                 PROVE  \E b \in acked :
                          /\ b.blob.iv = landed[k][i].blob.parent
                          /\ b.blob.iv[1] = landed[k][i].blob.iv[1]
                          /\ b.expectedVersion + 1 = landed[k][i].expectedVersion
                          /\ \A j \in 1 .. Len(landed[k]) : landed[k][j] # b
      BY DEF LossOnlyBehindOwnRefusal
    <2> DEFINE a == landed[k][i]
    <2>1. a.blob.memo
      BY DEF LandedFresh
    <2>2. a.expectedVersion = i - 1 /\ Len(landed[k]) \in Nat
      BY DEF MemoInv, MemoLanded, TypeInv, TypeOK
    <2>3. Behind(acked, a.blob.iv[1], a.blob.parent, i - 1)
      BY <2>1 DEF MemoInv, MemoLanded, BlobBehind
    <2>4. PICK b \in acked : /\ b.blob.iv = a.blob.parent
                             /\ b.blob.iv[1] = a.blob.iv[1]
                             /\ b.expectedVersion + 1 = i - 1
      BY <2>3 DEF Behind
    <2>5. ASSUME NEW j \in 1 .. Len(landed[k]), landed[k][j] = b
          PROVE  FALSE
      <3>1. b.expectedVersion = j - 1
        BY <2>5 DEF MemoInv, MemoLanded
      <3>2. j = i - 1 /\ i # 1
        BY <2>2, <2>4, <3>1
      <3>3. Replaced(k, i) = b.blob
        BY <2>5, <3>2 DEF Replaced
      <3>4. QED BY <2>4, <3>3
    <2>6. QED BY <2>2, <2>4, <2>5
  <1>2. QED BY <1>1, MemoHolds, PTL

(***************************************************************************)
(* A commit that is applied at once, as esr_local applies it: no memo is   *)
(* ever ahead of the chain, so nothing is computed from one.               *)
(***************************************************************************)

LocalOps ==
    \A t \in Tasks, f \in Fibers : ~op[t][f].memo /\ ~op[t][f].blob.memo

LocalWrites ==
    \A t \in Tasks, k \in Keys : writes[t][k].version <= chain[k].version

LocalInv ==
    /\ LocalOps
    /\ LocalWrites
    /\ \A a \in Signed : ~a.blob.memo
    /\ \A k \in Keys : \A i \in 1 .. Len(landed[k]) : ~landed[k][i].blob.memo

LEMMA LocalInit == Init => LocalInv
  <1> SUFFICES ASSUME Init PROVE LocalInv
    OBVIOUS
  <1>1. \A t \in Tasks, f \in Fibers : op[t][f] = IdleOp
    BY DEF Init
  <1>2. LocalOps
    BY <1>1 DEF LocalOps, IdleOp, NoBlob
  <1>3. LocalWrites
    BY DEF Init, PerTaskKey, NoMemo, NoEntry, LocalWrites
  <1>4. QED BY <1>2, <1>3 DEF Init, Signed, LocalInv

LEMMA LocalOpsNext ==
  ASSUME TypeInv, LocalInv, [Next]_vars
  PROVE  LocalOps'
  <1>1. ASSUME NEW t \in Tasks, NEW f \in Fibers,
               NEW r, Goto(t, f, r), ~r.memo, ~r.blob.memo
        PROVE  LocalOps'
    BY <1>1 DEF Goto, LocalInv, LocalOps, TypeInv, TypeOK
  <1>2. ASSUME NEW t \in Tasks, NEW f \in Fibers, NEW out, Return(t, f, out)
        PROVE  LocalOps'
    <2> DEFINE r == [IdleOp EXCEPT !.out = out]
    <2>1. Goto(t, f, r) /\ ~r.memo /\ ~r.blob.memo
      BY <1>2 DEF Return, IdleOp, NoBlob
    <2> HIDE DEF r
    <2>2. QED BY <1>1, <2>1
  <1>3. CASE UNCHANGED op
    BY <1>3 DEF LocalInv, LocalOps
  <1>4. ASSUME NEW t \in Tasks, NEW f \in Fibers,
               \/ \E c \in Calls : Invoke(t, f, c)
               \/ FiberStep(t, f)
               \/ Fail(t, f)
        PROVE  LocalOps'
    <2> DEFINE o == op[t][f]
               k == o.call.key
    <2>1. o \in Op /\ ~o.memo /\ ~o.blob.memo
      BY DEF TypeInv, TypeOK, LocalInv, LocalOps
    <2>2. ASSUME NEW c \in Calls, Invoke(t, f, c) PROVE LocalOps'
      <3> DEFINE r == [IdleOp EXCEPT !.pc = "getState", !.call = c,
                                     !.no = calls[t] + 1]
      <3>1. Return(t, f, "permission") \/ Return(t, f, "limit") \/ Goto(t, f, r)
        BY <2>2 DEF Invoke
      <3>2. ~r.memo /\ ~r.blob.memo
        BY DEF IdleOp, NoBlob
      <3> HIDE DEF r
      <3>3. QED BY <1>1, <1>2, <3>1, <3>2
    <2>3. CASE ReadState(t, f)
      <3> DEFINE l == IF chain[k].version = 0 THEN AfterRead(o.call) ELSE "fetch"
                 q == [o EXCEPT !.pc = l, !.memo = FALSE,
                                !.base = chain[k].blob,
                                !.version = chain[k].version]
      <3>1. k \in Keys /\ writes[t][k] \in Memo /\ chain[k] \in Entry
        BY <2>3, CallType DEF ReadState, TypeInv, TypeOK
      <3>2. ~PrefersOwn(t, k)
        BY <3>1 DEF PrefersOwn, Memo, Entry, LocalInv, LocalWrites
      <3>3. Goto(t, f, q)
        BY <2>3, <3>2 DEF ReadState
      <3>4. ~q.memo /\ q.blob = o.blob
        BY <2>1 DEF Op
      <3> HIDE DEF q
      <3>5. QED BY <1>1, <2>1, <3>3, <3>4
    <2>4. CASE CheckNonceCopy(t, f)
      <3> DEFINE r == [o EXCEPT !.pc = AfterRead(o.call)]
      <3>1. Return(t, f, "tampered") \/ Goto(t, f, r)
        BY <2>4 DEF CheckNonceCopy
      <3>2. r.memo = o.memo /\ r.blob = o.blob
        BY <2>1 DEF Op
      <3> HIDE DEF r
      <3>3. QED BY <1>1, <1>2, <2>1, <3>1, <3>2
    <2>5. CASE ReadNonce(t, f)
      <3> DEFINE acl == NextAcl(o.call, o.base.acl, Caller[t])
                 b == [iv |-> <<t, o.no, o.attempt>>, parent |-> o.base.iv,
                       memo |-> o.memo, acl |-> acl,
                       committedBy |-> IF acl = None THEN None ELSE Caller[t],
                       nonce |-> getNonce(t, k) + 1]
                 r == [o EXCEPT !.pc = "relayNonce", !.blob = b]
      <3>1. Return(t, f, "nonce") \/ Return(t, f, "permission") \/ Goto(t, f, r)
        BY <2>5 DEF ReadNonce
      <3>2. b.memo = o.memo
        OBVIOUS
      <3> HIDE DEF b
      <3>3. r.memo = o.memo /\ r.blob = b
        BY <2>1 DEF Op
      <3> HIDE DEF r
      <3>4. QED BY <1>1, <1>2, <2>1, <3>1, <3>2, <3>3
    <2>6. CASE ReadRelayNonce(t, f)
      <3> DEFINE r == [o EXCEPT !.pc = "sign",
                                !.relayNonce = NextRelayNonce(t, k)]
      <3>1. Goto(t, f, r)
        BY <2>6 DEF ReadRelayNonce
      <3>2. r.memo = o.memo /\ r.blob = o.blob
        BY <2>1 DEF Op
      <3> HIDE DEF r
      <3>3. QED BY <1>1, <2>1, <3>1, <3>2
    <2>7. CASE Sign(t, f)
      <3> DEFINE r == [o EXCEPT !.pc = "putLedger", !.at = Len(ledger[t]) + 1]
      <3>1. Goto(t, f, r)
        BY <2>7 DEF Sign
      <3>2. r.memo = o.memo /\ r.blob = o.blob
        BY <2>1 DEF Op
      <3> HIDE DEF r
      <3>3. QED BY <1>1, <2>1, <3>1, <3>2
    <2>8. CASE PutLedger(t, f)
      <3> DEFINE r == [o EXCEPT !.pc = "putCommit"]
      <3>1. Goto(t, f, r)
        BY <2>8 DEF PutLedger
      <3>2. r.memo = o.memo /\ r.blob = o.blob
        BY <2>1 DEF Op
      <3> HIDE DEF r
      <3>3. QED BY <1>1, <2>1, <3>1, <3>2
    <2>9. CASE PutCommit(t, f)
      <3> DEFINE r == Again(o)
      <3>1. Return(t, f, "ok") \/ Return(t, f, "failed") \/ Goto(t, f, r)
        BY <2>9 DEF PutCommit, Acknowledge
      <3>2. ~r.memo /\ ~r.blob.memo
        BY AgainIs
      <3> HIDE DEF r
      <3>3. QED BY <1>1, <1>2, <3>1, <3>2
    <2>10. CASE Deliver(t, f)
      BY <1>2, <2>10 DEF Deliver
    <2>12. CASE Fail(t, f)
      <3> DEFINE r == Again(o)
      <3>1. Return(t, f, "failed") \/ Goto(t, f, r)
        BY <2>12 DEF Fail
      <3>2. ~r.memo /\ ~r.blob.memo
        BY AgainIs
      <3> HIDE DEF r
      <3>3. QED BY <1>1, <1>2, <3>1, <3>2
    <2>11. QED
      BY <1>4, <2>2, <2>3, <2>4, <2>5, <2>6, <2>7, <2>8, <2>9, <2>10,
         <2>12 DEF FiberStep
  <1>5. (\E a \in staged : Relay(a)) \/ UNCHANGED vars => UNCHANGED op
    BY DEF Relay, vars
  <1>6. QED BY <1>3, <1>4, <1>5 DEF Next

\* A memo moves with the chain: it is written by the step that applies its
\* commit.
LEMMA LocalWritesNext ==
  ASSUME LocalApply, TypeInv, MemoInv, LocalInv, [Next]_vars
  PROVE  LocalWrites'
  <1> SUFFICES ASSUME NEW u \in Tasks, NEW j \in Keys
               PROVE  writes'[u][j].version <= chain'[j].version
    BY DEF LocalWrites
  <1>1. /\ writes[u][j].version \in Nat /\ chain[j].version \in Nat
        /\ chain'[j].version \in Nat
        /\ writes[u][j].version <= chain[j].version
        /\ chain[j].version <= chain'[j].version
    <2>1. writes[u][j] \in Memo
      BY DEF TypeInv, TypeOK
    <2>2. /\ chain[j] \in Entry /\ chain'[j] \in Entry
          /\ chain'[j] = chain[j] \/ chain'[j].version > chain[j].version
      BY ChainAdvances
    <2>3. QED BY <2>1, <2>2 DEF Memo, Entry, LocalInv, LocalWrites
  <1>2. CASE writes'[u][j] = writes[u][j]
    BY <1>1, <1>2
  <1>3. ASSUME NEW t \in Tasks, NEW f \in Fibers, PutCommit(t, f),
               writes' # writes
        PROVE  writes'[u][j].version <= chain'[j].version
    <2> DEFINE o == op[t][f]
               k == o.call.key
               m == [blob |-> o.blob, version |-> o.version + 1]
               a == ledger[t][o.at]
    <2>1. /\ writes' = [writes EXCEPT ![t][k] = m]
          /\ Accepts(a) /\ Land(a) /\ o.pc = "putCommit"
      BY <1>3 DEF PutCommit, Acknowledge
    <2>2. MemoOp(acked, ledger[t], t, o)
      BY DEF MemoInv, MemoOps
    <2>3. a.key = k /\ a.expectedVersion = o.version /\ k \in Keys
      BY <2>1, <2>2, CallType DEF MemoOp
    <2>4. o.at \in 1 .. Len(ledger[t]) /\ ledger[t] \in Seq(Auth)
      BY <2>1 DEF TypeInv, TypeOK, OpOK
    <2>5. a \in Auth
      BY <2>4
    <2>6. chain'[k].version = o.version + 1
      <3>1. chain'[a.key] = [blob |-> a.blob,
                             version |-> chain[a.key].version + 1,
                             nonce |-> chain[a.key].nonce + 1,
                             relayNonce |-> chain[a.key].relayNonce + 1]
        BY <2>1, <2>5, LandStep DEF TypeInv
      <3>2. chain[a.key].version = a.expectedVersion
        BY <2>1 DEF Accepts
      <3> HIDE DEF a
      <3>3. chain'[a.key].version = a.expectedVersion + 1
        BY <3>1, <3>2
      <3>4. QED BY <2>3, <3>3
    <2>7. m.version = o.version + 1
      OBVIOUS
    <2> HIDE DEF m, k
    <2>8. CASE u = t /\ j = k
      <3>1. writes'[u][j] = m
        BY <2>1, <2>8 DEF TypeInv, TypeOK
      <3>2. QED BY <1>1, <2>6, <2>7, <2>8, <3>1
    <2>9. CASE ~(u = t /\ j = k)
      BY <1>2, <2>1, <2>3, <2>9 DEF TypeInv, TypeOK
    <2>10. QED BY <2>8, <2>9
  <1>4. ASSUME NEW t \in Tasks, NEW f \in Fibers,
               \/ \E c \in Calls : Invoke(t, f, c)
               \/ ReadState(t, f) \/ CheckNonceCopy(t, f) \/ Deliver(t, f)
               \/ ReadNonce(t, f) \/ ReadRelayNonce(t, f) \/ Sign(t, f)
               \/ PutLedger(t, f) \/ Fail(t, f)
        PROVE  UNCHANGED writes
    BY <1>4 DEF Invoke, ReadState, CheckNonceCopy, Deliver, ReadNonce,
       ReadRelayNonce, Sign, PutLedger, Fail, taskVars
  <1>5. (\E a \in staged : Relay(a)) \/ UNCHANGED vars => UNCHANGED writes
    BY DEF Relay, taskVars, vars
  <1>6. QED BY <1>2, <1>3, <1>4, <1>5 DEF Next, FiberStep

LEMMA LocalNext ==
  ASSUME LocalApply, TypeInv, MemoInv, LocalInv, [Next]_vars
  PROVE  LocalInv'
  <1>1. LocalOps' /\ LocalWrites'
    BY LocalOpsNext, LocalWritesNext
  <1>2. ASSUME NEW a \in Signed' PROVE ~a.blob.memo
    <2>1. CASE a \in Signed
      BY <2>1 DEF LocalInv
    <2>2. CASE a \notin Signed
      <3>1. PICK t \in Tasks, f \in Fibers : a = Authorization(op[t][f])
        BY <2>2, SignedStep
      <3>2. QED BY <3>1 DEF Authorization, LocalInv, LocalOps
    <2>3. QED BY <2>1, <2>2
  <1>3. ASSUME NEW k \in Keys, NEW i \in 1 .. Len(landed'[k])
        PROVE  ~landed'[k][i].blob.memo
    <2>1. CASE UNCHANGED chainVars
      BY <2>1 DEF chainVars, LocalInv
    <2>2. ASSUME NEW a \in Signed, a \in Auth, Land(a)
          PROVE  ~landed'[k][i].blob.memo
      <3>1. landed[k] \in Seq(Auth)
        BY DEF TypeInv, TypeOK
      <3>2. landed'[k] = landed[k] \/ landed'[k] = Append(landed[k], a)
        BY <2>2, LandStep DEF TypeInv
      <3>3. \/ i \in 1 .. Len(landed[k]) /\ landed'[k][i] = landed[k][i]
            \/ landed'[k][i] = a
        BY <3>1, <3>2
      <3>4. QED BY <3>3 DEF LocalInv
    <2>3. QED BY <2>1, <2>2, ChainStep
  <1>4. QED BY <1>1, <1>2, <1>3 DEF LocalInv

\* With the registry that applies a commit when it is made and refuses it when
\* it was overtaken, no commit overwrites an update it did not read, however
\* calls and tasks overlap (esr_local.js; commit(), "concurrent tasks cannot
\* silently lose updates").
THEOREM LocalNeverLoses ==
  ASSUME LocalApply PROVE Spec => []NoUpdateLost
  <1>1. TypeInv /\ MemoInv /\ LocalInv /\ [Next]_vars => LocalInv'
    BY LocalNext
  <1>2. LandedFresh /\ LocalInv => NoUpdateLost
    BY DEF LandedFresh, LocalInv, NoUpdateLost
  <1>3. QED BY <1>1, <1>2, LocalInit, MemoHolds, PTL DEF Spec

(***************************************************************************)
(* One call at a time.                                                     *)
(***************************************************************************)

\* The payload awaits every call, and the node relays the commits.
Sequential == ~LocalApply /\ \A f, g \in Fibers : f = g

\* Where a call that commits is on its way to sign.
BeforeSigning == {"getState", "fetch", "getNonce", "relayNonce", "sign"}

\* A call that will sign was let in below the limit, and nothing was signed
\* since.
CapInv ==
    \A t \in Tasks :
        /\ Len(ledger[t]) <= MAX_COMMITS_PER_TASK
        /\ \A f \in Fibers :
              op[t][f].pc \in BeforeSigning /\ op[t][f].call.kind \notin Reads
              => Len(ledger[t]) < MAX_COMMITS_PER_TASK

(***************************************************************************)
(* The nonce a blob reports lies between the version it replaces and the   *)
(* relay nonce it is signed with.  When the contract accepts it, the chain *)
(* shows both, so the blob reports the nonce the registry stores.  The     *)
(* task's memos keep the same order.                                       *)
(***************************************************************************)
Between(version, nonce, relayNonce) ==
    version + 1 <= nonce /\ nonce <= relayNonce + 1

\* What a fiber holds, given the entry and its task's memos for the key.
NonceOp(e, n, r, o) ==
    /\ o.pc = "fetch" => o.version <= e.version
    /\ o.pc = "getNonce" => o.version <= Larger(e.nonce, n)
    /\ o.pc = "relayNonce" =>
          Between(o.version, o.blob.nonce, Larger(e.relayNonce, r))
    /\ o.pc \in {"sign", "putLedger", "putCommit"} =>
          Between(o.version, o.blob.nonce, o.relayNonce)

NonceInv ==
    /\ NonceCopyAgrees
    /\ \A t \in Tasks, k \in Keys :
          /\ writes[t][k].version <= nonces[t][k]
          /\ nonces[t][k] <= relayNonces[t][k]
    /\ \A t \in Tasks, f \in Fibers :
          LET o == op[t][f]
              k == o.call.key
          IN  o.pc # "idle" =>
                NonceOp(chain[k], nonces[t][k], relayNonces[t][k], o)
    /\ \A a \in Signed : Between(a.expectedVersion, a.blob.nonce, a.relayNonce)

\* A step of one task's fiber leaves the other tasks alone.
LEMMA OtherTasks ==
  ASSUME TypeInv, Sequential, NEW t \in Tasks, NEW f \in Fibers,
         \/ \E c \in Calls : Invoke(t, f, c)
         \/ FiberStep(t, f)
         \/ Fail(t, f),
         NEW u \in Tasks, u # t
  PROVE  /\ op'[u] = op[u] /\ ledger'[u] = ledger[u]
         /\ nonces'[u] = nonces[u] /\ writes'[u] = writes[u]
         /\ relayNonces'[u] = relayNonces[u]
  <1>1. op'[u] = op[u]
    BY DEF Invoke, FiberStep, ReadState, CheckNonceCopy, Deliver, ReadNonce,
       ReadRelayNonce, Sign, PutLedger, PutCommit, Acknowledge, Fail, Return,
       Goto, TypeInv, TypeOK
  <1>2. CASE UNCHANGED taskVars
    BY <1>1, <1>2 DEF taskVars
  <1>3. CASE Deliver(t, f)
    BY <1>1, <1>3 DEF Deliver
  <1>4. CASE Sign(t, f)
    BY <1>1, <1>4 DEF Sign, TypeInv, TypeOK
  <1>5. CASE PutCommit(t, f)
    BY <1>1, <1>5 DEF PutCommit, Acknowledge, TypeInv, TypeOK
  <1>6. QED
    BY <1>2, <1>3, <1>4, <1>5 DEF Invoke, FiberStep, ReadState, CheckNonceCopy,
       ReadNonce, ReadRelayNonce, PutLedger, Fail

\* A fiber works on one call until it is idle again, in the code's order.
LEMMA FiberMoves ==
  ASSUME TypeInv, NEW t \in Tasks, NEW f \in Fibers, FiberStep(t, f),
         op'[t][f].pc # "idle"
  PROVE  /\ op'[t][f].call = op[t][f].call
         /\ op[t][f].pc \in BeforeSigning \cup {"putLedger"} \/ LocalApply
         /\ Sign(t, f) => op'[t][f].pc = "putLedger" /\ op[t][f].pc = "sign"
  <1> DEFINE o == op[t][f]
  <1>1. o \in Op
    BY DEF TypeInv, TypeOK
  <1>2. \A r : Goto(t, f, r) => op'[t][f] = r
    BY DEF Goto, TypeInv, TypeOK
  <1>3. \A out : ~Return(t, f, out)
    BY <1>2 DEF Return, IdleOp
  <1>4. CASE ReadState(t, f)
    BY <1>1, <1>2, <1>4 DEF ReadState, Op, BeforeSigning, Sign, taskVars
  <1>5. CASE CheckNonceCopy(t, f)
    BY <1>1, <1>2, <1>3, <1>5 DEF CheckNonceCopy, Op, BeforeSigning, Sign, taskVars
  <1>6. CASE Deliver(t, f)
    BY <1>3, <1>6 DEF Deliver
  <1>7. CASE ReadNonce(t, f)
    <2>1. PICK b : Goto(t, f, [o EXCEPT !.pc = "relayNonce", !.blob = b])
      BY <1>3, <1>7 DEF ReadNonce
    <2>2. op'[t][f].call = o.call
      BY <1>1, <1>2, <2>1 DEF Op
    <2>3. o.pc = "getNonce" /\ UNCHANGED ledger
      BY <1>7 DEF ReadNonce, taskVars
    <2>4. QED BY <2>2, <2>3 DEF BeforeSigning, Sign
  <1>8. CASE ReadRelayNonce(t, f)
    BY <1>1, <1>2, <1>8 DEF ReadRelayNonce, Op, BeforeSigning, Sign, taskVars
  <1>9. CASE Sign(t, f)
    <2>1. PICK n : Goto(t, f, [o EXCEPT !.pc = "putLedger", !.at = n])
      BY <1>9 DEF Sign
    <2>2. op'[t][f].call = o.call /\ op'[t][f].pc = "putLedger"
      BY <1>1, <1>2, <2>1 DEF Op
    <2>3. o.pc = "sign"
      BY <1>9 DEF Sign
    <2>4. o.pc \in BeforeSigning
      BY <2>3 DEF BeforeSigning
    <2>5. QED BY <2>2, <2>3, <2>4
  <1>10. CASE PutLedger(t, f)
    BY <1>1, <1>2, <1>10 DEF PutLedger, Op, BeforeSigning, Sign, taskVars
  <1>11. CASE PutCommit(t, f)
    <2> DEFINE r == Again(o)
    <2>1. Goto(t, f, r) /\ LocalApply
      BY <1>3, <1>11 DEF PutCommit, Acknowledge
    <2>2. op'[t][f].call = o.call
      <3>1. r.call = o.call
        BY AgainIs
      <3> HIDE DEF r
      <3>2. QED BY <1>2, <2>1, <3>1
    <2>3. ~Sign(t, f)
      BY <1>11 DEF PutCommit, Sign
    <2>4. QED BY <2>1, <2>2, <2>3
  <1>12. QED
    BY <1>4, <1>5, <1>6, <1>7, <1>8, <1>9, <1>10, <1>11 DEF FiberStep

LEMMA CapNext ==
  ASSUME TypeInv, Sequential, CapInv, [Next]_vars
  PROVE  CapInv'
  <1> DEFINE Step(t, f) == \/ \E c \in Calls : Invoke(t, f, c)
                           \/ FiberStep(t, f)
                           \/ Fail(t, f)
             Below(t, f) ==
               op[t][f].pc \in BeforeSigning /\ op[t][f].call.kind \notin Reads
               => Len(ledger[t]) < MAX_COMMITS_PER_TASK
  <1>1. \A t \in Tasks : Len(ledger[t]) \in Nat
    BY DEF TypeInv, TypeOK
  <1>2. ASSUME NEW t \in Tasks, NEW f \in Fibers, Step(t, f)
        PROVE  /\ Len(ledger'[t]) <= MAX_COMMITS_PER_TASK
               /\ \A g \in Fibers : Below(t, g)'
    <2>1. \A g \in Fibers : g = f
      BY DEF Sequential
    <2>2. Len(ledger[t]) <= MAX_COMMITS_PER_TASK /\ Below(t, f)
      BY DEF CapInv
    <2>3. ASSUME NEW c \in Calls, Invoke(t, f, c)
          PROVE  /\ Len(ledger'[t]) <= MAX_COMMITS_PER_TASK
                 /\ Below(t, f)'
      <3>1. ledger' = ledger
        BY <2>3 DEF Invoke, taskVars
      <3>2. op'[t][f].pc # "idle" => op'[t][f].call = c /\ (c.kind \in Reads \/ ~AtLimit(t))
        <4> DEFINE r == [IdleOp EXCEPT !.pc = "getState", !.call = c,
                                       !.no = calls[t] + 1]
        <4>1. \/ \E out : Return(t, f, out)
              \/ Goto(t, f, r) /\ (c.kind \in Reads \/ ~AtLimit(t))
          BY <2>3 DEF Invoke
        <4>2. r.call = c
          BY DEF IdleOp
        <4> HIDE DEF r
        <4>3. QED BY <4>1, <4>2 DEF Return, Goto, IdleOp, TypeInv, TypeOK
      <3>3. c.kind \in Reads \/ Len(ledger[t]) < MAX_COMMITS_PER_TASK
               \/ op'[t][f].pc = "idle"
        BY <1>1, <3>2, EcldStateAssumption DEF AtLimit
      <3>4. QED BY <2>2, <3>1, <3>2, <3>3 DEF BeforeSigning
    <2>4. ASSUME FiberStep(t, f), ~Sign(t, f)
          PROVE  /\ Len(ledger'[t]) <= MAX_COMMITS_PER_TASK
                 /\ Below(t, f)'
      <3>1. ledger' = ledger
        BY <2>4 DEF FiberStep, ReadState, CheckNonceCopy, Deliver, ReadNonce,
           ReadRelayNonce, PutLedger, PutCommit, taskVars
      <3>2. CASE op'[t][f].pc = "idle"
        BY <2>2, <3>1, <3>2 DEF BeforeSigning
      <3>3. CASE op'[t][f].pc # "idle" /\ op[t][f].pc \in BeforeSigning
        BY <2>2, <2>4, <3>1, <3>3, FiberMoves
      <3>4. CASE op'[t][f].pc # "idle" /\ op[t][f].pc = "putLedger"
        <4>1. op'[t][f].pc = "putCommit"
          BY <2>4, <3>4 DEF FiberStep, ReadState, CheckNonceCopy, Deliver,
             ReadNonce, ReadRelayNonce, Sign, PutLedger, PutCommit, Goto,
             TypeInv, TypeOK, Op
        <4>2. QED BY <2>2, <3>1, <4>1 DEF BeforeSigning
      <3>5. QED BY <2>4, <3>2, <3>3, <3>4, FiberMoves DEF Sequential
    <2>5. ASSUME Sign(t, f)
          PROVE  /\ Len(ledger'[t]) <= MAX_COMMITS_PER_TASK
                 /\ Below(t, f)'
      <3>1. op[t][f].pc = "sign" /\ op[t][f].call.kind \notin Reads
        BY <2>5 DEF Sign, TypeInv, OpOK, Committing
      <3>2. Len(ledger[t]) < MAX_COMMITS_PER_TASK
        BY <2>2, <3>1 DEF BeforeSigning
      <3>3. Len(ledger'[t]) = Len(ledger[t]) + 1
        BY <2>5 DEF Sign, TypeInv, TypeOK
      <3>4. op'[t][f].pc \notin BeforeSigning
        BY <2>5, FiberMoves DEF FiberStep, BeforeSigning
      <3>5. QED BY <1>1, <3>2, <3>3, <3>4, EcldStateAssumption
    <2>6. ASSUME Fail(t, f)
          PROVE  /\ Len(ledger'[t]) <= MAX_COMMITS_PER_TASK
                 /\ Below(t, f)'
      <3> DEFINE r == Again(op[t][f])
      <3>1. ledger' = ledger
        BY <2>6 DEF Fail, taskVars
      <3>2. CASE Return(t, f, "failed")
        <4>1. op'[t][f].pc = "idle"
          BY <3>2 DEF Return, Goto, IdleOp, TypeInv, TypeOK
        <4>2. QED BY <2>2, <3>1, <4>1 DEF BeforeSigning
      <3>3. CASE op[t][f].pc \in {"relayNonce", "sign"} /\ Goto(t, f, r)
        <4>1. r.call = op[t][f].call
          BY AgainIs
        <4> HIDE DEF r
        <4>2. op'[t][f].call = op[t][f].call
          BY <3>3, <4>1 DEF Goto, TypeInv, TypeOK
        <4>3. op[t][f].pc \in BeforeSigning
          BY <3>3 DEF BeforeSigning
        <4>4. QED BY <2>2, <3>1, <4>2, <4>3
      <3>4. QED BY <2>6, <3>2, <3>3 DEF Fail
    <2>7. QED BY <1>2, <2>1, <2>3, <2>4, <2>5, <2>6
  <1>3. ASSUME NEW t \in Tasks, NEW f \in Fibers, Step(t, f)
        PROVE  CapInv'
    BY <1>2, <1>3, OtherTasks DEF CapInv
  <1>4. CASE UNCHANGED <<op, ledger>>
    BY <1>4 DEF CapInv
  <1>5. ASSUME NEW a \in staged, Relay(a)
        PROVE  UNCHANGED <<op, ledger>>
    BY <1>5 DEF Relay, taskVars
  <1>6. QED BY <1>3, <1>4, <1>5 DEF Next, vars

\* A task whose payload awaits its calls one by one signs at most
\* MAX_COMMITS_PER_TASK authorizations, the ones of failed commits included.
THEOREM SequentialCap ==
  ASSUME Sequential PROVE Spec => []CommitCap
  <1>1. Init => CapInv
    BY EcldStateAssumption DEF Init, CapInv, IdleOp, BeforeSigning
  <1>2. TypeInv /\ CapInv /\ [Next]_vars => CapInv'
    BY CapNext
  <1>3. CapInv => CommitCap
    BY DEF CapInv, CommitCap
  <1>4. TypeInv /\ [Next]_vars => TypeInv'
    BY NextType
  <1>5. QED BY <1>1, <1>2, <1>3, <1>4, InitType, PTL DEF Spec

\* What was in order against an entry is in order against a later one.
LEMMA NonceLater ==
  ASSUME NEW e \in Entry, NEW e2 \in Entry, NEW n \in Nat, NEW r \in Nat,
         NEW o \in Op, e.version <= e2.version, e.nonce <= e2.nonce,
         e.relayNonce <= e2.relayNonce, NonceOp(e, n, r, o)
  PROVE  NonceOp(e2, n, r, o)
  <1>1. /\ e.version \in Nat /\ e.nonce \in Nat /\ e.relayNonce \in Nat
        /\ e2.version \in Nat /\ e2.nonce \in Nat /\ e2.relayNonce \in Nat
        /\ o.version \in Nat /\ o.blob.nonce \in Nat
    BY DEF Entry, Op, Blob
  <1>2. Larger(e.nonce, n) <= Larger(e2.nonce, n)
        /\ Larger(e.relayNonce, r) <= Larger(e2.relayNonce, r)
        /\ Larger(e.nonce, n) \in Nat /\ Larger(e2.nonce, n) \in Nat
        /\ Larger(e.relayNonce, r) \in Nat /\ Larger(e2.relayNonce, r) \in Nat
    BY <1>1 DEF Larger
  <1>3. QED BY <1>1, <1>2 DEF NonceOp, Between

\* The contract accepts a commit that was relayed in turn: its blob reports the
\* nonce the registry now stores.
LEMMA NonceLand ==
  ASSUME TypeInv, Lockstep, Sequential, NonceInv, [Next]_vars
  PROVE  /\ NonceCopyAgrees'
         /\ \A k \in Keys : /\ chain[k].version <= chain'[k].version
                            /\ chain[k].nonce <= chain'[k].nonce
                            /\ chain[k].relayNonce <= chain'[k].relayNonce
  <1>1. \A k \in Keys : /\ chain[k].version \in Nat /\ chain[k].nonce \in Nat
                        /\ chain[k].relayNonce \in Nat
    BY DEF TypeInv, TypeOK, Entry
  <1>2. CASE UNCHANGED chainVars
    BY <1>1, <1>2 DEF chainVars, NonceInv, NonceCopyAgrees
  <1>3. ASSUME NEW a \in Signed, a \in Auth, Accepts(a), Land(a),
               a.relayNonce = chain[a.key].relayNonce, NEW k \in Keys
        PROVE  /\ chain'[k].blob.nonce = chain'[k].nonce
               /\ chain[k].version <= chain'[k].version
               /\ chain[k].nonce <= chain'[k].nonce
               /\ chain[k].relayNonce <= chain'[k].relayNonce
    <2>1. CASE k # a.key
      <3>1. chain'[k] = chain[k]
        BY <1>3, <2>1, LandStep DEF TypeInv
      <3>2. QED BY <1>1, <3>1 DEF NonceInv, NonceCopyAgrees
    <2>2. CASE k = a.key
      <3>1. chain'[a.key] = [blob |-> a.blob,
                             version |-> chain[a.key].version + 1,
                             nonce |-> chain[a.key].nonce + 1,
                             relayNonce |-> chain[a.key].relayNonce + 1]
        BY <1>3, LandStep DEF TypeInv
      <3>2. /\ a.expectedVersion = chain[k].nonce
            /\ a.relayNonce = chain[k].nonce
        BY <1>3, <2>2 DEF Accepts, Lockstep
      <3>3. Between(a.expectedVersion, a.blob.nonce, a.relayNonce)
        BY <1>3 DEF NonceInv
      <3>4. a.blob.nonce \in Nat
        BY <1>3 DEF Auth, Blob
      <3>5. a.blob.nonce = chain[k].nonce + 1
        BY <1>1, <3>2, <3>3, <3>4 DEF Between
      <3>6. QED BY <1>1, <2>2, <3>1, <3>5
    <2>3. QED BY <2>1, <2>2
  <1>4. QED BY <1>2, <1>3, ChainStep DEF Sequential, NonceCopyAgrees

\* One fiber's step: what it holds, what it signs and what it remembers stay in
\* order.
LEMMA NonceFiber ==
  ASSUME TypeInv, Lockstep, Sequential, NonceInv,
         NEW t \in Tasks, NEW f \in Fibers,
         \/ \E c \in Calls : Invoke(t, f, c)
         \/ FiberStep(t, f)
         \/ Fail(t, f)
  PROVE  /\ \A k \in Keys : /\ writes'[t][k].version <= nonces'[t][k]
                            /\ nonces'[t][k] <= relayNonces'[t][k]
         /\ LET o == op'[t][f]
                k == o.call.key
            IN  o.pc # "idle" =>
                  NonceOp(chain'[k], nonces'[t][k], relayNonces'[t][k], o)
  <1> DEFINE o == op[t][f]
             k == o.call.key
             Memos == \A x \in Keys : /\ writes'[t][x].version <= nonces'[t][x]
                                      /\ nonces'[t][x] <= relayNonces'[t][x]
             Holds(r) == NonceOp(chain'[r.call.key], nonces'[t][r.call.key],
                                 relayNonces'[t][r.call.key], r)
             Mine == op'[t][f].pc # "idle" => Holds(op'[t][f])
  <1> SUFFICES Memos /\ Mine
    OBVIOUS
  <1>1. ASSUME NEW r, Goto(t, f, r), Holds(r)
        PROVE  Mine
    BY <1>1 DEF Goto, TypeInv, TypeOK
  <1>2. ASSUME NEW out, Return(t, f, out)
        PROVE  Mine
    BY <1>2 DEF Return, Goto, IdleOp, TypeInv, TypeOK
  <1>3. ASSUME UNCHANGED <<nonces, writes, relayNonces>>
        PROVE  Memos
    BY <1>3 DEF NonceInv
  <1>4. \A r : r.pc \in {"getState", "deliver"} => Holds(r)
    BY DEF NonceOp
  <1>5. /\ o \in Op
        /\ o.pc # "idle" =>
              /\ k \in Keys
              /\ NonceOp(chain[k], nonces[t][k], relayNonces[t][k], o)
              /\ chain[k].version \in Nat /\ chain[k].nonce = chain[k].version
              /\ chain[k].relayNonce = chain[k].version
              /\ nonces[t][k] \in Nat /\ relayNonces[t][k] \in Nat
              /\ writes[t][k].version \in Nat
              /\ writes[t][k].version <= nonces[t][k]
              /\ nonces[t][k] <= relayNonces[t][k]
    BY CallType DEF TypeInv, TypeOK, Entry, Memo, Lockstep, NonceInv
  <1>6. o.version \in Nat /\ o.relayNonce \in Nat /\ o.blob.nonce \in Nat
    BY <1>5 DEF Op, Blob
  <1> HIDE DEF Memos, Mine
  <1>7. ASSUME NEW c \in Calls, Invoke(t, f, c)
        PROVE  Memos /\ Mine
    <2> DEFINE r == [IdleOp EXCEPT !.pc = "getState", !.call = c,
                                   !.no = calls[t] + 1]
    <2>1. /\ \E out : Return(t, f, out) \/ Goto(t, f, r)
          /\ UNCHANGED <<nonces, writes, relayNonces>>
      BY <1>7 DEF Invoke, taskVars
    <2>2. r.pc = "getState"
      BY DEF IdleOp
    <2> HIDE DEF r
    <2>3. QED BY <1>1, <1>2, <1>3, <1>4, <2>1, <2>2
  <1>8. CASE ReadState(t, f)
    <2> DEFINE l == IF chain[k].version = 0 THEN AfterRead(o.call) ELSE "fetch"
               p == [o EXCEPT !.pc = AfterRead(o.call), !.memo = TRUE,
                              !.base = writes[t][k].blob,
                              !.version = writes[t][k].version]
               q == [o EXCEPT !.pc = l, !.memo = FALSE, !.base = chain[k].blob,
                              !.version = chain[k].version]
    <2>1. /\ Goto(t, f, p) \/ Goto(t, f, q)
          /\ UNCHANGED <<chain, nonces, writes, relayNonces>>
          /\ o.pc # "idle"
      BY <1>8 DEF ReadState, chainVars, taskVars
    <2>2. /\ l \in {"fetch", "deliver", "getNonce"}
          /\ AfterRead(o.call) \in {"deliver", "getNonce"}
      BY DEF AfterRead
    <2>3. /\ p.pc \in {"deliver", "getNonce"} /\ p.call = o.call
          /\ p.version = writes[t][k].version
          /\ q.pc \in {"fetch", "deliver", "getNonce"} /\ q.call = o.call
          /\ q.version = chain[k].version
      BY <1>5, <2>2 DEF Op
    <2>4. /\ NonceOp(chain[k], nonces[t][k], relayNonces[t][k], p)
          /\ NonceOp(chain[k], nonces[t][k], relayNonces[t][k], q)
      <3> HIDE DEF p, q, o, k
      <3>1. QED BY <1>5, <2>1, <2>3 DEF NonceOp, Larger
    <2> HIDE DEF p, q
    <2>5. Holds(p) /\ Holds(q)
      BY <2>1, <2>3, <2>4
    <2>6. QED BY <1>1, <1>3, <2>1, <2>5
  <1>9. CASE CheckNonceCopy(t, f)
    <2> DEFINE r == [o EXCEPT !.pc = AfterRead(o.call)]
    <2>1. /\ Return(t, f, "tampered") \/ Goto(t, f, r)
          /\ UNCHANGED <<chain, nonces, writes, relayNonces>>
          /\ o.pc = "fetch"
      BY <1>9 DEF CheckNonceCopy, chainVars, taskVars
    <2>2. /\ r.pc \in {"deliver", "getNonce"} /\ r.call = o.call
          /\ r.version = o.version
      BY <1>5 DEF Op, AfterRead
    <2> HIDE DEF r
    <2>3. NonceOp(chain[k], nonces[t][k], relayNonces[t][k], r)
      <3> HIDE DEF k, o
      <3>1. QED BY <1>5, <1>6, <2>1, <2>2 DEF NonceOp, Larger
    <2>4. Holds(r)
      BY <2>1, <2>2, <2>3
    <2>5. QED BY <1>1, <1>2, <1>3, <2>1, <2>4
  <1>10. CASE Deliver(t, f)
    <2>1. /\ Return(t, f, "ok") \/ Return(t, f, "permission")
          /\ UNCHANGED <<nonces, writes, relayNonces>>
      BY <1>10 DEF Deliver
    <2>2. QED BY <1>2, <1>3, <2>1
  <1>11. CASE ReadNonce(t, f)
    <2> DEFINE acl == NextAcl(o.call, o.base.acl, Caller[t])
               b == [iv |-> <<t, o.no, o.attempt>>, parent |-> o.base.iv,
                     memo |-> o.memo, acl |-> acl,
                     committedBy |-> IF acl = None THEN None ELSE Caller[t],
                     nonce |-> getNonce(t, k) + 1]
               r == [o EXCEPT !.pc = "relayNonce", !.blob = b]
    <2>1. /\ (\E out : Return(t, f, out)) \/ Goto(t, f, r)
          /\ UNCHANGED <<chain, nonces, writes, relayNonces>>
          /\ o.pc = "getNonce"
      BY <1>11 DEF ReadNonce, chainVars, taskVars
    <2>2. b.nonce = Larger(chain[k].nonce, nonces[t][k]) + 1
      BY DEF getNonce
    <2> HIDE DEF b
    <2>3. /\ r.pc = "relayNonce" /\ r.call = o.call /\ r.version = o.version
          /\ r.blob = b
      BY <1>5 DEF Op
    <2> HIDE DEF r
    <2>4. NonceOp(chain[k], nonces[t][k], relayNonces[t][k], r)
      <3> HIDE DEF k, o
      <3>1. QED BY <1>5, <1>6, <2>1, <2>2, <2>3 DEF NonceOp, Larger, Between
    <2>5. Holds(r)
      BY <2>1, <2>3, <2>4
    <2>6. QED BY <1>1, <1>2, <1>3, <2>1, <2>5
  <1>12. CASE ReadRelayNonce(t, f)
    <2> DEFINE m == NextRelayNonce(t, k)
               r == [o EXCEPT !.pc = "sign", !.relayNonce = m]
    <2>1. /\ Goto(t, f, r) /\ o.pc = "relayNonce"
          /\ UNCHANGED <<chain, nonces, writes, relayNonces>>
      BY <1>12 DEF ReadRelayNonce, chainVars, taskVars
    <2>2. m = Larger(chain[k].relayNonce, relayNonces[t][k])
      BY DEF NextRelayNonce
    <2>3. m \in Nat
      BY <1>5, <2>1, <2>2 DEF Larger
    <2> HIDE DEF m
    <2>4. /\ r.pc = "sign" /\ r.call = o.call /\ r.version = o.version
          /\ r.blob = o.blob /\ r.relayNonce = m
      BY <1>5 DEF Op
    <2> HIDE DEF r
    <2>5. NonceOp(chain[k], nonces[t][k], relayNonces[t][k], r)
      <3> HIDE DEF k, o
      <3>1. QED BY <1>5, <2>1, <2>2, <2>4 DEF NonceOp
    <2>6. Holds(r)
      BY <2>1, <2>4, <2>5
    <2>7. QED BY <1>1, <1>3, <2>1, <2>6
  <1>13. CASE Sign(t, f)
    <2> DEFINE m == Len(ledger[t]) + 1
               r == [o EXCEPT !.pc = "putLedger", !.at = m]
    <2>1. /\ Goto(t, f, r) /\ o.pc = "sign"
          /\ UNCHANGED <<chain, nonces, writes, relayNonces>>
      BY <1>13 DEF Sign, chainVars
    <2> HIDE DEF m
    <2>2. /\ r.pc = "putLedger" /\ r.call = o.call /\ r.version = o.version
          /\ r.blob = o.blob /\ r.relayNonce = o.relayNonce
      BY <1>5 DEF Op
    <2> HIDE DEF r
    <2>3. NonceOp(chain[k], nonces[t][k], relayNonces[t][k], r)
      <3> HIDE DEF k, o
      <3>1. QED BY <1>5, <2>1, <2>2 DEF NonceOp
    <2>4. Holds(r)
      BY <2>1, <2>2, <2>3
    <2>5. QED BY <1>1, <1>3, <2>1, <2>4
  <1>14. CASE PutLedger(t, f)
    <2> DEFINE r == [o EXCEPT !.pc = "putCommit"]
    <2>1. /\ Goto(t, f, r) /\ o.pc = "putLedger"
          /\ UNCHANGED <<chain, nonces, writes, relayNonces>>
      BY <1>14 DEF PutLedger, chainVars, taskVars
    <2>2. /\ r.pc = "putCommit" /\ r.call = o.call /\ r.version = o.version
          /\ r.blob = o.blob /\ r.relayNonce = o.relayNonce
      BY <1>5 DEF Op
    <2> HIDE DEF r
    <2>3. NonceOp(chain[k], nonces[t][k], relayNonces[t][k], r)
      <3> HIDE DEF k, o
      <3>1. QED BY <1>5, <2>1, <2>2 DEF NonceOp
    <2>4. Holds(r)
      BY <2>1, <2>2, <2>3
    <2>5. QED BY <1>1, <1>3, <2>1, <2>4
  <1>15. CASE PutCommit(t, f)
    <2> DEFINE m == [blob |-> o.blob, version |-> o.version + 1]
    <2>1. /\ Return(t, f, "ok") /\ o.pc = "putCommit"
          /\ relayNonces' = [relayNonces EXCEPT ![t][k] = o.relayNonce + 1]
          /\ nonces' = [nonces EXCEPT ![t][k] = o.blob.nonce]
          /\ writes' = [writes EXCEPT ![t][k] = m]
      BY <1>15 DEF PutCommit, Acknowledge, Sequential
    <2>2. /\ o.version + 1 <= o.blob.nonce
          /\ o.blob.nonce <= o.relayNonce + 1
      BY <1>5, <2>1 DEF NonceOp, Between
    <2>3. m.version = o.version + 1 /\ k \in Keys
      BY <1>5, <2>1
    <2>4. /\ relayNonces \in [Tasks -> [Keys -> Nat]]
          /\ nonces \in [Tasks -> [Keys -> Nat]]
          /\ writes \in [Tasks -> [Keys -> Memo]]
          /\ \A x \in Keys : /\ writes[t][x].version <= nonces[t][x]
                             /\ nonces[t][x] <= relayNonces[t][x]
      BY DEF TypeInv, TypeOK, NonceInv
    <2> HIDE DEF m, k, o
    <2>5. /\ writes'[t][k] = m /\ nonces'[t][k] = o.blob.nonce
          /\ relayNonces'[t][k] = o.relayNonce + 1
          /\ \A x \in Keys \ {k} : /\ writes'[t][x] = writes[t][x]
                                   /\ nonces'[t][x] = nonces[t][x]
                                   /\ relayNonces'[t][x] = relayNonces[t][x]
      BY <2>1, <2>3, <2>4
    <2>6. Memos
      BY <2>2, <2>3, <2>4, <2>5 DEF Memos
    <2>7. QED BY <1>2, <2>1, <2>6
  <1>16. CASE Fail(t, f)
    <2> DEFINE r == Again(o)
    <2>1. /\ Return(t, f, "failed") \/ Goto(t, f, r)
          /\ UNCHANGED <<nonces, writes, relayNonces>>
      BY <1>16 DEF Fail, taskVars
    <2>2. r.pc = "getState"
      BY AgainIs
    <2> HIDE DEF r
    <2>3. QED BY <1>1, <1>2, <1>3, <1>4, <2>1, <2>2
  <1>17. QED
    BY <1>7, <1>8, <1>9, <1>10, <1>11, <1>12, <1>13, <1>14, <1>15, <1>16
       DEF FiberStep

LEMMA NonceNext ==
  ASSUME TypeInv, Lockstep, Sequential, NonceInv, [Next]_vars
  PROVE  NonceInv'
  <1> DEFINE Step(t, f) == \/ \E c \in Calls : Invoke(t, f, c)
                           \/ FiberStep(t, f)
                           \/ Fail(t, f)
             Held(t, f) == LET o == op[t][f]
                               k == o.call.key
                           IN  o.pc # "idle" =>
                                 NonceOp(chain[k], nonces[t][k],
                                         relayNonces[t][k], o)
             Ordered(t) == \A k \in Keys :
                             /\ writes[t][k].version <= nonces[t][k]
                             /\ nonces[t][k] <= relayNonces[t][k]
  <1>1. TypeInv'
    BY NextType
  <1>2. ASSUME NEW t \in Tasks,
               UNCHANGED <<op[t], nonces[t], writes[t], relayNonces[t]>>
        PROVE  Ordered(t)' /\ \A f \in Fibers : Held(t, f)'
    <2>1. Ordered(t)'
      BY <1>2 DEF NonceInv
    <2>2. ASSUME NEW f \in Fibers, op[t][f].pc # "idle"
          PROVE  Held(t, f)'
      <3> DEFINE o == op[t][f]
                 k == o.call.key
      <3>1. /\ o \in Op /\ k \in Keys
            /\ NonceOp(chain[k], nonces[t][k], relayNonces[t][k], o)
        BY <2>2, CallType DEF NonceInv
      <3>2. /\ chain[k] \in Entry /\ chain'[k] \in Entry
            /\ nonces[t][k] \in Nat /\ relayNonces[t][k] \in Nat
        BY <1>1, <3>1 DEF TypeInv, TypeOK
      <3>3. /\ chain[k].version <= chain'[k].version
            /\ chain[k].nonce <= chain'[k].nonce
            /\ chain[k].relayNonce <= chain'[k].relayNonce
        BY <3>1, NonceLand
      <3>4. NonceOp(chain'[k], nonces[t][k], relayNonces[t][k], o)
        <4> HIDE DEF o, k
        <4>1. QED BY <3>1, <3>2, <3>3, NonceLater
      <3>5. QED BY <1>2, <3>4
    <2>3. \A f \in Fibers : Held(t, f)'
      BY <1>2, <2>2
    <2>4. QED BY <2>1, <2>3
  <1>3. ASSUME NEW t \in Tasks
        PROVE  Ordered(t)' /\ \A f \in Fibers : Held(t, f)'
    <2>1. CASE \E u \in Tasks, g \in Fibers : Step(u, g)
      <3>1. PICK u \in Tasks, g \in Fibers : Step(u, g)
        BY <2>1
      <3>2. CASE u = t
        BY <3>1, <3>2, NonceFiber DEF Sequential
      <3>3. CASE u # t
        BY <1>2, <3>1, <3>3, OtherTasks
      <3>4. QED BY <3>2, <3>3
    <2>2. CASE \E a \in staged : Relay(a)
      <3>1. UNCHANGED <<op, nonces, writes, relayNonces>>
        BY <2>2 DEF Relay, taskVars
      <3>2. QED BY <1>2, <3>1
    <2>3. CASE UNCHANGED vars
      <3>1. UNCHANGED <<op, nonces, writes, relayNonces>>
        BY <2>3 DEF vars
      <3>2. QED BY <1>2, <3>1
    <2>4. QED BY <2>1, <2>2, <2>3 DEF Next
  <1>4. ASSUME NEW a \in Signed'
        PROVE  Between(a.expectedVersion, a.blob.nonce, a.relayNonce)
    <2>1. CASE a \in Signed
      BY <2>1 DEF NonceInv
    <2>2. CASE a \notin Signed
      <3>1. PICK t \in Tasks, f \in Fibers :
                   Sign(t, f) /\ a = Authorization(op[t][f])
        BY <2>2, SignedStep
      <3>2. op[t][f].pc = "sign"
        BY <3>1 DEF Sign
      <3>3. Between(op[t][f].version, op[t][f].blob.nonce, op[t][f].relayNonce)
        BY <3>2 DEF NonceInv, NonceOp
      <3>4. QED BY <3>1, <3>3 DEF Authorization
    <2>3. QED BY <2>1, <2>2
  <1>5. NonceCopyAgrees'
    BY NonceLand
  <1>6. QED BY <1>3, <1>4, <1>5 DEF NonceInv

LEMMA NonceInit == ASSUME Init PROVE NonceInv
  <1>1. \A t \in Tasks, f \in Fibers : op[t][f].pc = "idle"
    BY DEF Init, IdleOp
  <1>2. Signed = {}
    BY DEF Init, Signed
  <1>3. NonceCopyAgrees
    BY DEF Init, NonceCopyAgrees, NoEntry, NoBlob
  <1>4. \A t \in Tasks, k \in Keys : /\ writes[t][k].version = 0
                                    /\ nonces[t][k] = 0
                                    /\ relayNonces[t][k] = 0
    BY DEF Init, PerTaskKey, NoMemo
  <1>5. QED BY <1>1, <1>2, <1>3, <1>4 DEF NonceInv

\* While every payload awaits its calls one by one, the nonce inside the blob
\* the chain names is the nonce the registry stores, however many tasks race,
\* whatever fails and in whatever order the node relays: _readContainer never
\* refuses for good what a commit stored.
THEOREM SequentialNonceCopyAgrees ==
  ASSUME Sequential PROVE Spec => []NonceCopyAgrees
  <1> DEFINE I == TypeInv /\ Lockstep /\ NonceInv
  <1>1. Init => I
    BY InitType, LockstepInit, NonceInit
  <1>2. I /\ [Next]_vars => I'
    BY NextType, LockstepNext, NonceNext
  <1>3. I => NonceCopyAgrees
    BY DEF NonceInv
  <1>4. QED BY <1>1, <1>2, <1>3, PTL DEF Spec
(***************************************************************************)
(* What the result reports.  A payload that awaits its calls reads what is *)
(* newest to it, and nothing it was told before is newer than that.        *)
(***************************************************************************)

\* The version of k that a read of task t starts from.
Newest(t, k) == Larger(chain[k].version, writes[t][k].version)

\* What fiber o of task t has read is as new as what was reported.
ReportsOp(t, o) ==
    o.pc \notin {"idle", "getState"} =>
        /\ results[t][o.call.key].version <= o.version
        /\ o.version <= Newest(t, o.call.key)

ReportsInv ==
    /\ \A t \in Tasks, k \in Keys : results[t][k].version <= Newest(t, k)
    /\ \A t \in Tasks, f \in Fibers : ReportsOp(t, op[t][f])

LEMMA VersionTypes ==
  ASSUME TypeOK, NEW t \in Tasks, NEW k \in Keys
  PROVE  /\ chain[k].version \in Nat /\ writes[t][k].version \in Nat
         /\ results[t][k].version \in Nat
  <1>1. chain[k] \in Entry /\ writes[t][k] \in Memo /\ results[t][k] \in Memo
    BY DEF TypeOK
  <1>2. QED BY <1>1 DEF Entry, Memo

LEMMA ReportsInit == Init => ReportsInv
  BY DEF Init, ReportsInv, ReportsOp, Newest, Larger, PerTaskKey, NoMemo,
     NoEntry, IdleOp

\* A step that tells the payload nothing and moves one of its calls on.
LEMMA ReportsQuiet ==
  ASSUME TypeInv, ReportsInv, NEW t \in Tasks, NEW f \in Fibers, Sequential,
         UNCHANGED <<chain, writes, results>>,
         \A u \in Tasks : u # t => op'[u] = op[u],
         ReportsOp(t, op[t][f])'
  PROVE  ReportsInv'
  <1>1. \A g \in Fibers : g = f
    BY DEF Sequential
  <1>2. ASSUME NEW u \in Tasks, NEW g \in Fibers PROVE ReportsOp(u, op[u][g])'
    <2>1. CASE u = t
      BY <1>1, <2>1
    <2>2. CASE u # t
      BY <2>2 DEF ReportsInv, ReportsOp, Newest
    <2>3. QED BY <2>1, <2>2
  <1>3. QED BY <1>2 DEF ReportsInv, Newest

\* A step that ends a call and reports version v of key k.
LEMMA ReportsTold ==
  ASSUME TypeInv, TypeInv', ReportsInv, NEW t \in Tasks, NEW f \in Fibers,
         Sequential, UNCHANGED chain,
         \A u \in Tasks : u # t => op'[u] = op[u] /\ writes'[u] = writes[u],
         op'[t][f].pc = "idle", NEW k \in Keys, NEW m \in Memo,
         results' = [results EXCEPT ![t][k] = m],
         results[t][k].version <= m.version,
         \A j \in Keys : j # k => writes'[t][j] = writes[t][j],
         m.version <= Larger(chain'[k].version, writes'[t][k].version)
  PROVE  /\ ReportsInv'
         /\ \A u \in Tasks, j \in Keys :
               results'[u][j].version >= results[u][j].version
  <1>1. \A u \in Tasks, j \in Keys :
           results'[u][j] = IF u = t /\ j = k THEN m ELSE results[u][j]
    BY DEF TypeInv, TypeOK
  <1>2. \A g \in Fibers : g = f
    BY DEF Sequential
  <1>3. ASSUME NEW u \in Tasks, NEW j \in Keys
        PROVE  /\ results'[u][j].version <= Newest(u, j)'
               /\ results'[u][j].version >= results[u][j].version
    <2>1. CASE u = t /\ j = k
      BY <1>1, <2>1, VersionTypes DEF TypeInv, Memo, Newest
    <2>2. CASE ~(u = t /\ j = k)
      <3>1. writes'[u][j] = writes[u][j] /\ results'[u][j] = results[u][j]
        BY <1>1, <2>2
      <3>2. QED BY <3>1, VersionTypes DEF ReportsInv, Newest, TypeInv
    <2>3. QED BY <2>1, <2>2
  <1>4. ASSUME NEW u \in Tasks, NEW g \in Fibers PROVE ReportsOp(u, op[u][g])'
    <2>1. CASE u = t
      BY <1>2, <2>1 DEF ReportsOp
    <2>2. CASE u # t
      <3>1. CASE op[u][g].pc = "idle"
        BY <2>2, <3>1 DEF ReportsOp
      <3>2. CASE op[u][g].pc # "idle"
        <4>1. op[u][g].call.key \in Keys
          BY <3>2, CallType
        <4>2. QED BY <1>1, <2>2, <4>1 DEF ReportsInv, ReportsOp, Newest
      <3>3. QED BY <3>1, <3>2
    <2>3. QED BY <2>1, <2>2
  <1>5. QED BY <1>3, <1>4 DEF ReportsInv

\* What a payload is told of a key never goes back, and stays as new as what
\* its next call starts from.
Reports == [\A t \in Tasks, k \in Keys :
               results'[t][k].version >= results[t][k].version]_results

LEMMA ReportsFiber ==
  ASSUME Sequential, TypeInv, ReportsInv, [Next]_vars,
         NEW t \in Tasks, NEW f \in Fibers,
         \/ \E c \in Calls : Invoke(t, f, c)
         \/ FiberStep(t, f)
         \/ Fail(t, f)
  PROVE  ReportsInv' /\ Reports
  <1> DEFINE o == op[t][f]
             k == o.call.key
  <1>1. TypeInv'
    BY NextType
  <1>2. \A u \in Tasks : u # t => op'[u] = op[u] /\ writes'[u] = writes[u]
    BY OtherTasks
  <1>3. \A r : Goto(t, f, r) => op'[t][f] = r
    BY DEF Goto, TypeInv, TypeOK
  <1>4. \A out : Return(t, f, out) => op'[t][f].pc = "idle"
    BY <1>3 DEF Return, IdleOp
  <1>5. ASSUME UNCHANGED <<chain, writes, results>>, ReportsOp(t, op[t][f])'
        PROVE  ReportsInv' /\ Reports
    BY <1>2, <1>5, ReportsQuiet DEF Reports
  <1>6. ASSUME UNCHANGED <<chain, writes, results>>,
               op'[t][f].pc \in {"idle", "getState"}
        PROVE  ReportsInv' /\ Reports
    BY <1>5, <1>6 DEF ReportsOp
  <1>7. ASSUME UNCHANGED <<chain, writes, results>>,
               o.pc \notin {"idle", "getState"},
               op'[t][f].call = o.call, op'[t][f].version = o.version
        PROVE  ReportsInv' /\ Reports
    <2>1. ReportsOp(t, o)
      BY DEF ReportsInv
    <2>2. ReportsOp(t, op[t][f])'
      BY <1>7, <2>1 DEF ReportsOp, Newest
    <2>3. QED BY <1>5, <1>7, <2>2
  <1>8. o \in Op
    BY DEF TypeInv, TypeOK
  <1>9. ASSUME NEW c \in Calls, Invoke(t, f, c) PROVE ReportsInv' /\ Reports
    <2> DEFINE r == [IdleOp EXCEPT !.pc = "getState", !.call = c,
                                   !.no = calls[t] + 1]
    <2>1. /\ Return(t, f, "permission") \/ Return(t, f, "limit") \/ Goto(t, f, r)
          /\ UNCHANGED <<chain, writes, results>>
      BY <1>9 DEF Invoke, chainVars, taskVars
    <2>2. r.pc = "getState"
      BY DEF IdleOp
    <2> HIDE DEF r
    <2>3. QED BY <1>3, <1>4, <1>6, <2>1, <2>2
  <1>10. CASE ReadState(t, f)
    <2>1. /\ UNCHANGED <<chain, writes, results>> /\ k \in Keys
      BY <1>10, CallType DEF ReadState, chainVars, taskVars
    <2>2. op'[t][f].call = o.call /\ op'[t][f].version = Newest(t, k)
      <3>1. writes[t][k].version \in Nat /\ chain[k].version \in Nat
        BY <2>1, VersionTypes DEF TypeInv
      <3>2. CASE PrefersOwn(t, k)
        <4>1. Goto(t, f, [o EXCEPT !.pc = AfterRead(o.call), !.memo = TRUE,
                                   !.base = writes[t][k].blob,
                                   !.version = writes[t][k].version])
          BY <1>10, <3>2 DEF ReadState
        <4>2. op'[t][f].call = o.call
              /\ op'[t][f].version = writes[t][k].version
          BY <1>3, <1>8, <4>1 DEF Op
        <4>3. QED BY <3>1, <3>2, <4>2 DEF PrefersOwn, Newest, Larger
      <3>3. CASE ~PrefersOwn(t, k)
        <4>1. Goto(t, f, [o EXCEPT !.pc = IF chain[k].version = 0
                                          THEN AfterRead(o.call) ELSE "fetch",
                                   !.memo = FALSE, !.base = chain[k].blob,
                                   !.version = chain[k].version])
          BY <1>10, <3>3 DEF ReadState
        <4>2. op'[t][f].call = o.call /\ op'[t][f].version = chain[k].version
          BY <1>3, <1>8, <4>1 DEF Op
        <4>3. QED BY <3>1, <3>3, <4>2 DEF PrefersOwn, Newest, Larger
      <3>4. QED BY <3>2, <3>3
    <2>3. ReportsOp(t, op[t][f])'
      <3>1. results[t][k].version <= Newest(t, k) /\ Newest(t, k) \in Nat
        BY <2>1, VersionTypes DEF ReportsInv, Newest, Larger, TypeInv
      <3>2. QED BY <2>1, <2>2, <3>1 DEF ReportsOp, Newest
    <2>4. QED BY <1>5, <2>1, <2>3
  <1>11. CASE CheckNonceCopy(t, f)
    <2> DEFINE r == [o EXCEPT !.pc = AfterRead(o.call)]
    <2>1. /\ Return(t, f, "tampered") \/ Goto(t, f, r)
          /\ o.pc = "fetch"
          /\ UNCHANGED <<chain, writes, results>>
      BY <1>11 DEF CheckNonceCopy, chainVars, taskVars
    <2>2. r.call = o.call /\ r.version = o.version
      BY <1>8 DEF Op
    <2> HIDE DEF r
    <2>3. QED BY <1>3, <1>4, <1>6, <1>7, <2>1, <2>2
  <1>12. CASE ReadNonce(t, f)
    <2>1. /\ \/ \E out : Return(t, f, out)
             \/ \E b : Goto(t, f, [o EXCEPT !.pc = "relayNonce", !.blob = b])
          /\ UNCHANGED <<chain, writes, results>> /\ o.pc = "getNonce"
      BY <1>12 DEF ReadNonce, chainVars, taskVars
    <2>2. ASSUME NEW b, Goto(t, f, [o EXCEPT !.pc = "relayNonce", !.blob = b])
          PROVE  op'[t][f].call = o.call /\ op'[t][f].version = o.version
      BY <1>3, <1>8, <2>2 DEF Op
    <2>3. QED BY <1>4, <1>6, <1>7, <2>1, <2>2
  <1>13. CASE ReadRelayNonce(t, f)
    <2> DEFINE r == [o EXCEPT !.pc = "sign",
                              !.relayNonce = NextRelayNonce(t, k)]
    <2>1. /\ Goto(t, f, r) /\ o.pc = "relayNonce"
          /\ UNCHANGED <<chain, writes, results>>
      BY <1>13 DEF ReadRelayNonce, chainVars, taskVars
    <2>2. r.call = o.call /\ r.version = o.version
      BY <1>8 DEF Op
    <2> HIDE DEF r
    <2>3. QED BY <1>3, <1>7, <2>1, <2>2
  <1>14. CASE Sign(t, f)
    <2> DEFINE r == [o EXCEPT !.pc = "putLedger", !.at = Len(ledger[t]) + 1]
    <2>1. /\ Goto(t, f, r) /\ o.pc = "sign"
          /\ UNCHANGED <<chain, writes, results>>
      BY <1>14 DEF Sign, chainVars
    <2>2. r.call = o.call /\ r.version = o.version
      BY <1>8 DEF Op
    <2> HIDE DEF r
    <2>3. QED BY <1>3, <1>7, <2>1, <2>2
  <1>15. CASE PutLedger(t, f)
    <2> DEFINE r == [o EXCEPT !.pc = "putCommit"]
    <2>1. /\ Goto(t, f, r) /\ o.pc = "putLedger"
          /\ UNCHANGED <<chain, writes, results>>
      BY <1>15 DEF PutLedger, chainVars, taskVars
    <2>2. r.call = o.call /\ r.version = o.version
      BY <1>8 DEF Op
    <2> HIDE DEF r
    <2>3. QED BY <1>3, <1>7, <2>1, <2>2
  <1>16. CASE Fail(t, f)
    <2> DEFINE r == Again(o)
    <2>1. /\ Return(t, f, "failed") \/ Goto(t, f, r)
          /\ UNCHANGED <<chain, writes, results>>
      BY <1>16 DEF Fail, chainVars, taskVars
    <2>2. r.pc = "getState"
      BY AgainIs
    <2> HIDE DEF r
    <2>3. QED BY <1>3, <1>4, <1>6, <2>1, <2>2
  <1>17. CASE Deliver(t, f)
    <2> DEFINE m == [blob |-> o.base, version |-> o.version]
    <2>1. /\ UNCHANGED <<chain, writes>> /\ o.pc = "deliver" /\ k \in Keys
          /\ op'[t][f].pc = "idle"
          /\ \/ results' = results
             \/ results' = [results EXCEPT ![t][k] = m]
      BY <1>4, <1>17, CallType DEF Deliver, chainVars
    <2>2. /\ results[t][k].version <= o.version
          /\ o.version <= Newest(t, k)
      BY <2>1 DEF ReportsInv, ReportsOp
    <2>3. m \in Memo /\ m.version = o.version
      BY <1>8 DEF Op, Memo
    <2>4. m.version <= Larger(chain'[k].version, writes'[t][k].version)
      BY <2>1, <2>2, <2>3 DEF Newest
    <2> HIDE DEF m, k
    <2>5. QED
      BY <1>1, <1>2, <1>6, <2>1, <2>2, <2>3, <2>4, ReportsTold DEF Reports
  <1>18. CASE PutCommit(t, f)
    <2> DEFINE m == [blob |-> o.blob, version |-> o.version + 1]
    <2>1. /\ UNCHANGED chain /\ o.pc = "putCommit" /\ k \in Keys
          /\ op'[t][f].pc = "idle"
          /\ results' = [results EXCEPT ![t][k] = m]
          /\ writes' = [writes EXCEPT ![t][k] = m]
      BY <1>4, <1>18, CallType
      DEF PutCommit, Acknowledge, Sequential, chainVars
    <2>2. m \in Memo /\ m.version = o.version + 1 /\ o.version \in Nat
      BY <1>8 DEF Op, Memo
    <2>3. results[t][k].version <= o.version /\ results[t][k].version \in Nat
      BY <2>1, VersionTypes DEF ReportsInv, ReportsOp, TypeInv
    <2> HIDE DEF m, k
    <2>4. /\ writes'[t][k] = m
          /\ \A j \in Keys : j # k => writes'[t][j] = writes[t][j]
      BY <2>1 DEF TypeInv, TypeOK
    <2>5. m.version <= Larger(chain'[k].version, writes'[t][k].version)
      <3>1. chain'[k].version \in Nat
        BY <2>1, VersionTypes DEF TypeInv
      <3>2. QED BY <2>2, <2>4, <3>1 DEF Larger
    <2>6. results[t][k].version <= m.version
      BY <2>2, <2>3
    <2>7. QED
      BY <1>1, <1>2, <2>1, <2>2, <2>4, <2>5, <2>6, ReportsTold DEF Reports
  <1>19. QED
    BY <1>9, <1>10, <1>11, <1>12, <1>13, <1>14, <1>15, <1>16, <1>17, <1>18
       DEF FiberStep

LEMMA ReportsNext ==
  ASSUME Sequential, TypeInv, ReportsInv, [Next]_vars
  PROVE  ReportsInv' /\ Reports
  <1>1. CASE UNCHANGED vars
    BY <1>1 DEF vars, ReportsInv, ReportsOp, Newest, Reports
  <1>2. ASSUME NEW a \in staged, Relay(a) PROVE ReportsInv' /\ Reports
    <2>1. UNCHANGED <<op, writes, results>>
      BY <1>2 DEF Relay, taskVars
    <2>2. ASSUME NEW t \in Tasks, NEW k \in Keys
          PROVE  \A n \in Nat : n <= Newest(t, k) => n <= Newest(t, k)'
      <3>1. /\ chain[k] \in Entry /\ chain'[k] \in Entry
            /\ chain'[k] = chain[k] \/ chain'[k].version > chain[k].version
        BY ChainAdvances
      <3>2. writes[t][k].version \in Nat /\ writes'[t][k] = writes[t][k]
        BY <2>1, VersionTypes DEF TypeInv
      <3>3. QED BY <3>1, <3>2 DEF Newest, Larger, Entry
    <2>3. ASSUME NEW t \in Tasks, NEW f \in Fibers
          PROVE  ReportsOp(t, op[t][f])'
      <3>1. CASE op[t][f].pc \in {"idle", "getState"}
        BY <2>1, <3>1 DEF ReportsOp
      <3>2. CASE op[t][f].pc \notin {"idle", "getState"}
        <4>1. op[t][f].call.key \in Keys /\ op[t][f].version \in Nat
          BY <3>2, CallType DEF Op
        <4>2. ReportsOp(t, op[t][f])
          BY DEF ReportsInv
        <4>3. QED BY <2>1, <2>2, <3>2, <4>1, <4>2 DEF ReportsOp
      <3>3. QED BY <3>1, <3>2
    <2>4. ASSUME NEW t \in Tasks, NEW k \in Keys
          PROVE  results'[t][k].version <= Newest(t, k)'
      BY <2>1, <2>2, VersionTypes DEF ReportsInv, TypeInv
    <2>5. QED BY <2>1, <2>3, <2>4 DEF ReportsInv, Reports
  <1>3. QED BY <1>1, <1>2, ReportsFiber DEF Next

\* While a payload awaits its calls one by one, what its result reports of a
\* key is at least as new as what was reported before.
THEOREM SequentialResultsAdvance ==
  ASSUME Sequential PROVE Spec => ResultsAdvance
  <1>1. TypeInv /\ ReportsInv /\ [Next]_vars =>
           ReportsInv' /\ [\A t \in Tasks, k \in Keys :
               results'[t][k].version >= results[t][k].version]_results
    BY ReportsNext DEF Reports
  <1>2. TypeInv /\ [Next]_vars => TypeInv'
    BY NextType
  <1>3. QED BY <1>1, <1>2, ReportsInit, InitType, PTL DEF Spec, ResultsAdvance
(***************************************************************************)
(* The refinement of EsrRegister, of a task alone on its keys that awaits  *)
(* its calls and whose awaits do not fail.  What it authorized for a key   *)
(* are the versions of that key one by one, and the chain shows one of     *)
(* them: the last, or an earlier one while the memo is ahead.              *)
(***************************************************************************)

LoneTask ==
    Sequential /\ ~Failures /\ Tasks = {Alone} /\ None \notin Containers

\* What the task has authorized, by its place in the ledger.
Entries == 1 .. Len(ledger[Alone])
Authorized == ledger[Alone]

\* Call o is storing its authorization, entry i.
BeingPut(o, i) == o.pc \in {"putLedger", "putCommit"} /\ i = o.at

\* A call makes one container, named for the call.
FiberIds(f) ==
    LET o == op[Alone][f]
    IN  o.pc # "idle" =>
          /\ o.no \in 1 .. calls[Alone] /\ o.attempt = 0
          /\ o.pc \in {"relayNonce", "sign", "putLedger", "putCommit"} =>
                o.blob.iv = <<Alone, o.no, 0>>
          /\ \A i \in Entries :
                BeingPut(o, i) \/ Authorized[i].blob.iv[2] < o.no

\* No container is made twice.
IdsInv ==
    /\ calls[Alone] <= MaxCalls
    /\ \A i \in Entries : /\ Authorized[i].blob.iv \in Containers
                          /\ Authorized[i].blob.iv[2] <= calls[Alone]
    /\ \A f \in Fibers : FiberIds(f)

\* A call works on the task's own latest version.
FiberVersions(f) ==
    LET o == op[Alone][f]
    IN  o.pc \notin {"idle", "getState"} =>
          /\ o.version = writes[Alone][o.call.key].version
          /\ o.pc \in {"fetch", "deliver"} =>
                o.base = writes[Alone][o.call.key].blob

\* Authorization a makes container b the version v of key k.
Makes(a, k, v, b) == a.key = k /\ a.expectedVersion + 1 = v /\ a.blob = b

\* A version of a key is authorized once, and remembered unless it is still
\* being stored; the memo is the last one.
VersionsInv ==
    /\ \A i \in Entries :
          \/ Authorized[i].expectedVersion <
                writes[Alone][Authorized[i].key].version
          \/ \E f \in Fibers : BeingPut(op[Alone][f], i)
    /\ \A i, j \in Entries :
          /\ Authorized[i].key = Authorized[j].key
          /\ Authorized[i].expectedVersion = Authorized[j].expectedVersion
          => i = j
    /\ \A k \in Keys :
          LET m == writes[Alone][k]
          IN  IF m.version = 0 THEN m.blob = NoBlob
              ELSE \E i \in Entries : Makes(Authorized[i], k, m.version, m.blob)
    /\ \A f \in Fibers : FiberVersions(f)

\* Nobody else's authorizations are staged, or land.
OnChainInv ==
    /\ \A k \in Keys : \A n \in 1 .. Len(landed[k]) :
          \E i \in Entries : landed[k][n] = Authorized[i] /\ Authorized[i].key = k
    /\ \A a \in staged : \E i \in Entries : a = Authorized[i]

LoneInv == IdsInv /\ VersionsInv /\ OnChainInv

LEMMA LoneInit ==
  ASSUME LoneTask, Init PROVE LoneInv
  <1>1. /\ ledger[Alone] = <<>> /\ calls[Alone] = 0 /\ staged = {}
        /\ \A k \in Keys : writes[Alone][k] = NoMemo /\ landed[k] = <<>>
        /\ \A f \in Fibers : op[Alone][f] = IdleOp
    BY DEF LoneTask, Init, PerTaskKey
  <1>2. Entries = {}
    BY <1>1 DEF Entries
  <1>3. MaxCalls \in Nat
    BY EcldStateAssumption
  <1>4. QED
    BY <1>1, <1>2, <1>3 DEF LoneInv, IdsInv, VersionsInv, OnChainInv, FiberIds,
       FiberVersions, IdleOp, NoMemo

LEMMA LoneTypes ==
  ASSUME LoneTask, TypeInv
  PROVE  /\ Alone \in Tasks
         /\ ledger[Alone] \in Seq(Auth) /\ Len(ledger[Alone]) \in Nat
         /\ calls[Alone] \in Nat
         /\ \A i \in Entries : /\ Authorized[i] \in Auth
                               /\ Authorized[i].expectedVersion \in Nat
                               /\ Authorized[i].key \in Keys
         /\ \A k \in Keys : /\ writes[Alone][k] \in Memo
                            /\ writes[Alone][k].version \in Nat
                            /\ chain[k] \in Entry /\ chain[k].version \in Nat
         /\ \A f \in Fibers : op[Alone][f] \in Op /\ op[Alone][f].version \in Nat
  <1>1. Alone \in Tasks
    BY DEF LoneTask
  <1>2. ledger[Alone] \in Seq(Auth) /\ calls[Alone] \in Nat
    BY <1>1 DEF TypeInv, TypeOK
  <1>3. \A i \in Entries : Authorized[i] \in Auth
    BY <1>2 DEF Entries, Authorized
  <1>4. \A k \in Keys : writes[Alone][k] \in Memo /\ chain[k] \in Entry
    BY <1>1 DEF TypeInv, TypeOK
  <1>5. \A f \in Fibers : op[Alone][f] \in Op
    BY <1>1 DEF TypeInv, TypeOK
  <1>6. QED BY <1>1, <1>2, <1>3, <1>4, <1>5 DEF Auth, Memo, Entry, Op

\* What a fiber stores is what it made, for the version after the memo's.
LEMMA LonePut ==
  ASSUME LoneTask, TypeInv, MemoInv, LoneInv, NEW f \in Fibers, NEW i \in Entries,
         BeingPut(op[Alone][f], i)
  PROVE  LET o == op[Alone][f]
         IN  /\ o.call.key \in Keys
             /\ Makes(Authorized[i], o.call.key, writes[Alone][o.call.key].version + 1, o.blob)
             /\ o.version = writes[Alone][o.call.key].version
             /\ o.blob.iv = <<Alone, o.no, 0>>
             /\ \A j \in Entries : j # i => Authorized[j].blob.iv[2] < o.no
  <1> DEFINE o == op[Alone][f]
  <1>1. Alone \in Tasks /\ o \in Op /\ o.version \in Nat
    BY LoneTypes
  <1>2. /\ o.pc \in {"putLedger", "putCommit"} /\ i = o.at
        /\ MemoOp(acked, ledger[Alone], Alone, o)
    BY <1>1 DEF BeingPut, MemoInv, MemoOps
  <1>3. /\ Authorized[i].key = o.call.key /\ Authorized[i].blob = o.blob
        /\ Authorized[i].expectedVersion = o.version
    BY <1>2 DEF MemoOp, Authorized
  <1>4. o.version = writes[Alone][o.call.key].version
    BY <1>2 DEF LoneInv, VersionsInv, FiberVersions
  <1>5. /\ o.blob.iv = <<Alone, o.no, 0>>
        /\ \A j \in Entries : BeingPut(op[Alone][f], j) \/ Authorized[j].blob.iv[2] < o.no
    BY <1>2 DEF LoneInv, IdsInv, FiberIds
  <1>6. \A j \in Entries : BeingPut(op[Alone][f], j) => j = i
    BY <1>2 DEF BeingPut
  <1>7. o.call.key \in Keys
    BY <1>1, <1>2, CallType
  <1>8. QED BY <1>1, <1>3, <1>4, <1>5, <1>6, <1>7 DEF Makes

\* Where the chain is: it shows the memo, or what went before it, or what is
\* being stored on top of it.
LEMMA LoneChain ==
  ASSUME LoneTask, TypeInv, Lockstep, MemoInv, LoneInv, NEW k \in Keys
  PROVE  /\ chain[k].version = 0 => chain[k].blob = NoBlob
         /\ chain[k].version # 0 =>
               \E i \in Entries : Makes(Authorized[i], k, chain[k].version, chain[k].blob)
         /\ \/ chain[k].version <= writes[Alone][k].version
            \/ \E f \in Fibers, i \in Entries :
                  /\ BeingPut(op[Alone][f], i)
                  /\ Makes(Authorized[i], k, writes[Alone][k].version + 1, op[Alone][f].blob)
                  /\ op[Alone][f].call.key = k
                  /\ chain[k].version = writes[Alone][k].version + 1
                  /\ chain[k].blob = op[Alone][f].blob
         /\ chain[k].version = writes[Alone][k].version =>
               chain[k].blob = writes[Alone][k].blob
  <1> DEFINE n == Len(landed[k])
             m == writes[Alone][k]
  <1>1. /\ n \in Nat /\ chain[k].version = n
        /\ chain[k].blob = IF n = 0 THEN NoBlob ELSE landed[k][n].blob
    BY DEF Lockstep, TypeInv, TypeOK
  <1>2. CASE n = 0
    <2>1. m.version \in Nat /\ (m.version = 0 => m.blob = NoBlob)
      BY LoneTypes DEF LoneInv, VersionsInv
    <2>2. QED BY <1>1, <1>2, <2>1
  <1>3. CASE n # 0
    <2>1. PICK i \in Entries : landed[k][n] = Authorized[i] /\ Authorized[i].key = k
      BY <1>1, <1>3 DEF LoneInv, OnChainInv
    <2>2. landed[k][n].expectedVersion = n - 1
      BY <1>1, <1>3 DEF MemoInv, MemoLanded
    <2>3. Makes(Authorized[i], k, chain[k].version, chain[k].blob)
      BY <1>1, <1>3, <2>1, <2>2 DEF Makes
    <2>4. m.version \in Nat
      BY LoneTypes
    <2>5. CASE Authorized[i].expectedVersion < m.version
      <3>1. n <= m.version
        BY <1>1, <2>1, <2>2, <2>4, <2>5
      <3>2. ASSUME n = m.version PROVE chain[k].blob = m.blob
        <4>1. PICK j \in Entries : Makes(Authorized[j], k, m.version, m.blob)
          BY <1>3, <3>2 DEF LoneInv, VersionsInv
        <4>2. /\ Authorized[i].expectedVersion \in Nat
              /\ Authorized[j].expectedVersion \in Nat
          BY LoneTypes
        <4>3. Authorized[i].expectedVersion = Authorized[j].expectedVersion
          BY <1>1, <2>3, <3>2, <4>1, <4>2 DEF Makes
        <4>4. i = j
          BY <2>1, <4>1, <4>3 DEF LoneInv, VersionsInv, Makes
        <4>5. QED BY <2>3, <4>1, <4>4 DEF Makes
      <3>3. QED BY <1>1, <1>3, <2>3, <3>1, <3>2
    <2>6. ASSUME NEW f \in Fibers, BeingPut(op[Alone][f], i)
          PROVE  /\ Makes(Authorized[i], k, m.version + 1, op[Alone][f].blob)
                 /\ op[Alone][f].call.key = k
                 /\ chain[k].version = m.version + 1
                 /\ chain[k].blob = op[Alone][f].blob
      <3>1. Makes(Authorized[i], op[Alone][f].call.key,
                  writes[Alone][op[Alone][f].call.key].version + 1,
                  op[Alone][f].blob)
        BY <2>6, LonePut
      <3>2. op[Alone][f].call.key = k
        BY <2>1, <3>1 DEF Makes
      <3>3. QED BY <1>1, <2>3, <3>1, <3>2 DEF Makes
    <2>7. CASE \E f \in Fibers : BeingPut(op[Alone][f], i)
      <3>1. PICK f \in Fibers : BeingPut(op[Alone][f], i)
        BY <2>7
      <3>2. /\ Makes(Authorized[i], k, m.version + 1, op[Alone][f].blob)
            /\ op[Alone][f].call.key = k
            /\ chain[k].version = m.version + 1
            /\ chain[k].blob = op[Alone][f].blob
        BY <2>6, <3>1
      <3>3. chain[k].version # m.version
        BY <2>4, <3>2
      <3>4. \E g \in Fibers, j \in Entries :
               /\ BeingPut(op[Alone][g], j)
               /\ Makes(Authorized[j], k, m.version + 1, op[Alone][g].blob)
               /\ op[Alone][g].call.key = k
               /\ chain[k].version = m.version + 1
               /\ chain[k].blob = op[Alone][g].blob
        BY <3>1, <3>2
      <3>5. \E j \in Entries :
               Makes(Authorized[j], k, chain[k].version, chain[k].blob)
        BY <2>3
      <3>6. chain[k].version # 0
        BY <1>1, <1>3
      <3>7. QED BY <3>3, <3>4, <3>5, <3>6
    <2>8. Authorized[i].expectedVersion < m.version
          \/ \E f \in Fibers : BeingPut(op[Alone][f], i)
      BY <2>1 DEF LoneInv, VersionsInv
    <2>9. QED BY <2>5, <2>7, <2>8
  <1>4. QED BY <1>2, <1>3

\* A step that adds nothing to the ledger, the memos or the chain.
LEMMA LoneQuiet ==
  ASSUME LoneTask, TypeInv, LoneInv, NEW f \in Fibers,
         UNCHANGED <<landed, ledger, writes>>,
         calls'[Alone] \in calls[Alone] .. MaxCalls,
         \A a \in staged' : a \in staged \/ \E i \in Entries : a = Authorized[i],
         \A i \in Entries : BeingPut(op[Alone][f], i) => BeingPut(op'[Alone][f], i),
         FiberIds(f)', FiberVersions(f)'
  PROVE  LoneInv'
  <1>1. /\ Entries' = Entries
        /\ \A i \in Entries : Authorized'[i] = Authorized[i]
        /\ \A g \in Fibers : g = f
    BY DEF Entries, Authorized, LoneTask, Sequential
  <1>2. IdsInv'
    <2>1. calls[Alone] \in Nat /\ MaxCalls \in Nat
      BY LoneTypes, EcldStateAssumption
    <2>2. \A i \in Entries : /\ Authorized[i].blob.iv \in Containers
                             /\ Authorized[i].blob.iv[2] <= calls[Alone]
                             /\ Authorized[i].blob.iv[2] \in Nat
      BY DEF LoneInv, IdsInv, Containers
    <2>3. QED BY <1>1, <2>1, <2>2 DEF IdsInv
  <1>3. VersionsInv'
    <2>1. \A i \in Entries :
             \/ Authorized'[i].expectedVersion <
                   writes'[Alone][Authorized'[i].key].version
             \/ \E g \in Fibers : BeingPut(op'[Alone][g], i)
      BY <1>1 DEF LoneInv, VersionsInv
    <2>2. \A i, j \in Entries :
             /\ Authorized'[i].key = Authorized'[j].key
             /\ Authorized'[i].expectedVersion = Authorized'[j].expectedVersion
             => i = j
      BY <1>1 DEF LoneInv, VersionsInv
    <2>3. \A k \in Keys :
            LET m == writes'[Alone][k]
            IN  IF m.version = 0 THEN m.blob = NoBlob
                ELSE \E i \in Entries : /\ Authorized'[i].key = k
                                         /\ Authorized'[i].expectedVersion + 1
                                               = m.version
                                         /\ Authorized'[i].blob = m.blob
      BY <1>1 DEF LoneInv, VersionsInv, Makes
    <2>4. QED BY <1>1, <2>1, <2>2, <2>3 DEF VersionsInv, Makes
  <1>4. OnChainInv'
    BY <1>1 DEF LoneInv, OnChainInv
  <1>5. QED BY <1>2, <1>3, <1>4 DEF LoneInv

\* A call moves on before it has signed, or returns.
LEMMA LoneMoves ==
  ASSUME LoneTask, TypeInv, LoneInv, NEW f \in Fibers, NEW r,
         op[Alone][f].pc \notin {"idle", "putLedger", "putCommit"},
         UNCHANGED <<landed, ledger, writes, staged, calls>>,
         op'[Alone][f] = r,
         \/ r.pc = "idle"
         \/ /\ r.pc \notin {"putLedger", "putCommit"}
            /\ r.no = op[Alone][f].no /\ r.attempt = op[Alone][f].attempt
            /\ r.pc \in {"relayNonce", "sign"} =>
                  r.blob.iv = <<Alone, op[Alone][f].no, 0>>
            /\ r.version = writes[Alone][r.call.key].version
            /\ r.pc \in {"fetch", "deliver"} =>
                  r.base = writes[Alone][r.call.key].blob
  PROVE  LoneInv'
  <1>1. /\ Entries' = Entries
        /\ \A i \in Entries : Authorized'[i] = Authorized[i]
        /\ \A i \in Entries : ~BeingPut(op[Alone][f], i)
    BY DEF Entries, Authorized, BeingPut
  <1>2. FiberIds(f)'
    <2>1. FiberIds(f)
      BY DEF LoneInv, IdsInv
    <2>2. QED BY <1>1, <2>1 DEF FiberIds
  <1>3. FiberVersions(f)'
    BY DEF FiberVersions
  <1>4. calls'[Alone] \in calls[Alone] .. MaxCalls
    BY LoneTypes, EcldStateAssumption DEF LoneInv, IdsInv
  <1>5. QED BY <1>1, <1>2, <1>3, <1>4, LoneQuiet

LEMMA LoneSign ==
  ASSUME LoneTask, TypeInv, MemoInv, LoneInv, NEW f \in Fibers, Sign(Alone, f)
  PROVE  LoneInv'
  <1> DEFINE o == op[Alone][f]
             n == Authorization(o)
             last == Len(ledger[Alone]) + 1
             r == [o EXCEPT !.pc = "putLedger", !.at = last]
  <1>1. /\ Alone \in Tasks /\ o \in Op /\ o.version \in Nat
        /\ ledger[Alone] \in Seq(Auth) /\ Len(ledger[Alone]) \in Nat
        /\ calls[Alone] \in Nat
    BY LoneTypes
  <1>2. /\ o.pc = "sign" /\ ledger'[Alone] = Append(ledger[Alone], n)
        /\ op'[Alone][f] = r /\ o.call.key \in Keys
        /\ UNCHANGED <<landed, writes, staged, calls>>
    BY <1>1, CallType DEF Sign, Goto, TypeInv, TypeOK, chainVars
  <1>3. /\ r.pc = "putLedger" /\ r.at = last /\ r.no = o.no
        /\ r.attempt = o.attempt /\ r.blob = o.blob
        /\ r.version = o.version /\ r.call = o.call
    BY <1>1 DEF Op
  <1>4. n.key = o.call.key /\ n.blob = o.blob /\ n.expectedVersion = o.version
    BY DEF Authorization
  <1> HIDE DEF n, r
  <1>5. /\ Entries' = Entries \cup {last} /\ last \notin Entries
        /\ \A i \in Entries : Authorized'[i] = Authorized[i]
        /\ Authorized'[last] = n
    <2>1. /\ Len(ledger'[Alone]) = last
          /\ \A i \in Entries : ledger'[Alone][i] = ledger[Alone][i]
          /\ ledger'[Alone][last] = n
      BY <1>1, <1>2 DEF Entries
    <2>2. QED BY <1>1, <2>1 DEF Entries, Authorized
  <1>6. /\ \A i \in Entries : ~BeingPut(op[Alone][f], i)
        /\ BeingPut(op'[Alone][f], last)
        /\ \A g \in Fibers : g = f
    BY <1>2, <1>3 DEF BeingPut, LoneTask, Sequential
  <1>7. /\ o.no \in 1 .. calls[Alone] /\ o.attempt = 0
        /\ o.blob.iv = <<Alone, o.no, 0>>
        /\ \A i \in Entries : Authorized[i].blob.iv[2] < o.no
        /\ calls[Alone] <= MaxCalls
    BY <1>2, <1>6 DEF LoneInv, IdsInv, FiberIds
  <1>8. o.blob.iv \in Containers /\ o.blob.iv[2] <= calls[Alone]
    BY <1>1, <1>7, EcldStateAssumption DEF Containers
  <1> HIDE DEF last, o
  <1>9. IdsInv'
    <2>1. FiberIds(f)'
      BY <1>2, <1>3, <1>5, <1>6, <1>7 DEF FiberIds
    <2>2. \A i \in Entries' : /\ Authorized'[i].blob.iv \in Containers
                              /\ Authorized'[i].blob.iv[2] <= calls[Alone]
      BY <1>4, <1>5, <1>8 DEF LoneInv, IdsInv
    <2>3. QED BY <1>2, <1>6, <1>7, <2>1, <2>2 DEF IdsInv
  <1>10. VersionsInv'
    <2>1. o.version = writes[Alone][o.call.key].version
      BY <1>2 DEF LoneInv, VersionsInv, FiberVersions, o
    <2>2. \A i \in Entries : Authorized[i].expectedVersion <
                                writes[Alone][Authorized[i].key].version
      BY <1>6 DEF LoneInv, VersionsInv
    <2>3. \A i \in Entries' :
             \/ Authorized'[i].expectedVersion <
                   writes'[Alone][Authorized'[i].key].version
             \/ \E g \in Fibers : BeingPut(op'[Alone][g], i)
      BY <1>2, <1>5, <1>6, <2>2
    <2>4. \A i \in Entries : Authorized[i].key = n.key =>
                                Authorized[i].expectedVersion # n.expectedVersion
      BY <1>1, <1>4, <2>1, <2>2, LoneTypes
    <2>5. \A i, j \in Entries' :
             /\ Authorized'[i].key = Authorized'[j].key
             /\ Authorized'[i].expectedVersion = Authorized'[j].expectedVersion
             => i = j
      BY <1>5, <2>4 DEF LoneInv, VersionsInv
    <2>6. \A k \in Keys :
            LET m == writes'[Alone][k]
            IN  IF m.version = 0 THEN m.blob = NoBlob
                ELSE \E i \in Entries : Makes(Authorized[i], k, m.version, m.blob)
      BY <1>2 DEF LoneInv, VersionsInv
    <2>7. \A k \in Keys :
            LET m == writes'[Alone][k]
            IN  IF m.version = 0 THEN m.blob = NoBlob
                ELSE \E i \in Entries' : /\ Authorized'[i].key = k
                                         /\ Authorized'[i].expectedVersion + 1
                                               = m.version
                                         /\ Authorized'[i].blob = m.blob
      BY <1>5, <2>6 DEF Makes
    <2>8. FiberVersions(f)'
      BY <1>2, <1>3, <2>1 DEF FiberVersions
    <2>9. QED BY <1>6, <2>3, <2>5, <2>7, <2>8 DEF VersionsInv, Makes
  <1>11. OnChainInv'
    BY <1>2, <1>5 DEF LoneInv, OnChainInv
  <1>12. QED BY <1>9, <1>10, <1>11 DEF LoneInv

LEMMA LonePutLedger ==
  ASSUME LoneTask, TypeInv, MemoInv, LoneInv, NEW f \in Fibers,
         PutLedger(Alone, f)
  PROVE  LoneInv'
  <1> DEFINE o == op[Alone][f]
             r == [o EXCEPT !.pc = "putCommit"]
  <1>1. /\ Alone \in Tasks /\ o \in Op
        /\ ledger[Alone] \in Seq(Auth) /\ Len(ledger[Alone]) \in Nat
        /\ calls[Alone] \in Nat /\ MaxCalls \in Nat
    BY LoneTypes, EcldStateAssumption
  <1>2. /\ o.pc = "putLedger" /\ op'[Alone][f] = r
        /\ staged' = staged \cup {ledger[Alone][i] : i \in 1 .. o.at}
        /\ UNCHANGED <<landed, ledger, writes, calls>>
        /\ o.at \in 1 .. Len(ledger[Alone])
    BY <1>1 DEF PutLedger, Goto, TypeInv, TypeOK, OpOK, chainVars, taskVars
  <1>3. /\ r.pc = "putCommit" /\ r.at = o.at /\ r.no = o.no
        /\ r.attempt = o.attempt /\ r.blob = o.blob
        /\ r.version = o.version /\ r.call = o.call
    BY <1>1 DEF Op
  <1> HIDE DEF r
  <1>4. /\ Entries' = Entries
        /\ \A i \in Entries : Authorized'[i] = Authorized[i]
        /\ \A i \in Entries : BeingPut(op[Alone][f], i) <=> BeingPut(op'[Alone][f], i)
    BY <1>2, <1>3 DEF Entries, Authorized, BeingPut
  <1>5. FiberIds(f)'
    <2>1. FiberIds(f)
      BY DEF LoneInv, IdsInv
    <2>2. QED BY <1>2, <1>3, <1>4, <2>1 DEF FiberIds
  <1>6. FiberVersions(f)'
    <2>1. FiberVersions(f)
      BY DEF LoneInv, VersionsInv
    <2>2. QED BY <1>2, <1>3, <2>1 DEF FiberVersions
  <1>7. \A a \in staged' : a \in staged \/ \E i \in Entries : a = Authorized[i]
    <2>1. 1 .. o.at \subseteq Entries
      BY <1>1, <1>2 DEF Entries
    <2>2. QED BY <1>2, <2>1 DEF Authorized
  <1>8. calls'[Alone] \in calls[Alone] .. MaxCalls
    BY <1>1, <1>2 DEF LoneInv, IdsInv
  <1>9. QED BY <1>2, <1>4, <1>5, <1>6, <1>7, <1>8, LoneQuiet

\* The memo takes over what was being stored.
LEMMA LonePutCommit ==
  ASSUME LoneTask, TypeInv, MemoInv, LoneInv, NEW f \in Fibers,
         PutCommit(Alone, f)
  PROVE  LoneInv'
  <1> DEFINE o == op[Alone][f]
             k == o.call.key
             m == [blob |-> o.blob, version |-> o.version + 1]
  <1>1. /\ Alone \in Tasks /\ o \in Op /\ o.version \in Nat
        /\ ledger[Alone] \in Seq(Auth)
    BY LoneTypes
  <1>2. /\ o.pc = "putCommit" /\ op'[Alone][f].pc = "idle" /\ k \in Keys
        /\ staged' = staged \cup {ledger[Alone][o.at]}
        /\ writes' = [writes EXCEPT ![Alone][k] = m]
        /\ UNCHANGED <<landed, ledger, calls>>
        /\ o.at \in Entries
    <2>1. /\ o.pc = "putCommit" /\ Acknowledge(Alone, f, o, ledger[Alone][o.at])
          /\ staged' = staged \cup {ledger[Alone][o.at]}
          /\ UNCHANGED <<landed, ledger, calls>>
      BY DEF PutCommit, LoneTask, Sequential, chainVars
    <2>2. /\ writes' = [writes EXCEPT ![Alone][k] = m]
          /\ op' = [op EXCEPT ![Alone][f] = [IdleOp EXCEPT !.out = "ok"]]
      BY <2>1 DEF Acknowledge, Return, Goto
    <2>3. op'[Alone][f].pc = "idle"
      BY <1>1, <2>2 DEF IdleOp, TypeInv, TypeOK
    <2>4. k \in Keys
      BY <1>1, <2>1, CallType
    <2>5. o.at \in Entries
      BY <1>1, <2>1 DEF TypeInv, OpOK, Entries
    <2>6. QED BY <2>1, <2>2, <2>3, <2>4, <2>5
  <1>3. m.blob = o.blob /\ m.version = o.version + 1
    OBVIOUS
  <1>4. BeingPut(o, o.at)
    BY <1>2 DEF BeingPut
  <1>5. /\ Makes(Authorized[o.at], k, writes[Alone][k].version + 1, o.blob)
        /\ o.version = writes[Alone][k].version
    BY <1>2, <1>4, LonePut
  <1> HIDE DEF m, k
  <1>6. /\ writes'[Alone][k] = m
        /\ \A j \in Keys : j # k => writes'[Alone][j] = writes[Alone][j]
    BY <1>1, <1>2 DEF TypeInv, TypeOK
  <1>7. /\ Entries' = Entries
        /\ \A i \in Entries : Authorized'[i] = Authorized[i]
        /\ \A g \in Fibers : g = f
    BY <1>2 DEF Entries, Authorized, LoneTask, Sequential
  <1>8. IdsInv'
    BY <1>2, <1>7 DEF LoneInv, IdsInv, FiberIds
  <1>9. VersionsInv'
    <2>1. ASSUME NEW i \in Entries
          PROVE  Authorized[i].expectedVersion <
                    writes'[Alone][Authorized[i].key].version
      <3>1. /\ Authorized[i].expectedVersion \in Nat
            /\ Authorized[i].key \in Keys
            /\ writes[Alone][Authorized[i].key].version \in Nat
        BY LoneTypes
      <3>2. CASE BeingPut(op[Alone][f], i)
        <4>1. i = o.at
          BY <3>2 DEF BeingPut
        <4>2. /\ Authorized[i].key = k
              /\ Authorized[i].expectedVersion + 1 = writes[Alone][k].version + 1
          BY <1>5, <4>1 DEF Makes
        <4>3. QED BY <1>3, <1>5, <1>6, <3>1, <4>2
      <3>3. CASE ~BeingPut(op[Alone][f], i)
        <4>1. Authorized[i].expectedVersion <
                 writes[Alone][Authorized[i].key].version
          BY <1>7, <3>3 DEF LoneInv, VersionsInv
        <4>2. QED BY <1>1, <1>3, <1>5, <1>6, <3>1, <4>1
      <3>4. QED BY <3>2, <3>3
    <2>2. ASSUME NEW j \in Keys
          PROVE  LET w == writes'[Alone][j]
                 IN  IF w.version = 0 THEN w.blob = NoBlob
                     ELSE \E i \in Entries : Makes(Authorized[i], j, w.version, w.blob)
      <3>1. CASE j = k
        BY <1>1, <1>2, <1>3, <1>5, <1>6, <3>1
      <3>2. CASE j # k
        BY <1>6, <3>2 DEF LoneInv, VersionsInv
      <3>3. QED BY <3>1, <3>2
    <2>3. \A i, j \in Entries :
             /\ Authorized'[i].key = Authorized'[j].key
             /\ Authorized'[i].expectedVersion = Authorized'[j].expectedVersion
             => i = j
      BY <1>7 DEF LoneInv, VersionsInv
    <2>4. \A j \in Keys :
            LET w == writes'[Alone][j]
            IN  IF w.version = 0 THEN w.blob = NoBlob
                ELSE \E i \in Entries : /\ Authorized'[i].key = j
                                        /\ Authorized'[i].expectedVersion + 1
                                              = w.version
                                        /\ Authorized'[i].blob = w.blob
      BY <1>7, <2>2 DEF Makes
    <2>5. FiberVersions(f)'
      BY <1>2 DEF FiberVersions
    <2>6. \A i \in Entries : Authorized'[i].expectedVersion <
                                writes'[Alone][Authorized'[i].key].version
      BY <1>7, <2>1
    <2>7. QED BY <1>7, <2>3, <2>4, <2>5, <2>6 DEF VersionsInv, Makes
  <1>10. OnChainInv'
    BY <1>2, <1>7 DEF LoneInv, OnChainInv, Authorized
  <1>11. QED BY <1>8, <1>9, <1>10 DEF LoneInv

LEMMA LoneRelay ==
  ASSUME LoneTask, TypeInv, LoneInv, NEW a \in staged, Relay(a)
  PROVE  LoneInv'
  <1>1. /\ UNCHANGED <<ledger, writes, staged, calls, op>> /\ Land(a)
        /\ a \in Auth
    BY DEF Relay, taskVars, TypeInv, TypeOK
  <1>2. PICK i \in Entries : a = Authorized[i]
    BY DEF LoneInv, OnChainInv
  <1>3. /\ Entries' = Entries
        /\ \A j : Authorized'[j] = Authorized[j]
    BY <1>1 DEF Entries, Authorized
  <1>4. IdsInv'
    BY <1>1, <1>3 DEF LoneInv, IdsInv, FiberIds, BeingPut
  <1>5. VersionsInv'
    BY <1>1, <1>3 DEF LoneInv, VersionsInv, FiberVersions, BeingPut, Makes
  <1>6. OnChainInv'
    <2>1. ASSUME NEW k \in Keys, NEW n \in 1 .. Len(landed'[k])
          PROVE  \E j \in Entries : landed'[k][n] = Authorized[j]
                                    /\ Authorized[j].key = k
      <3>1. landed[k] \in Seq(Auth)
        BY DEF TypeInv, TypeOK
      <3>2. \/ landed'[k] = landed[k]
            \/ landed'[k] = Append(landed[k], a) /\ a.key = k
        BY <1>1, LandStep DEF TypeInv
      <3>3. \/ n \in 1 .. Len(landed[k]) /\ landed'[k][n] = landed[k][n]
            \/ landed'[k][n] = a /\ a.key = k
        BY <3>1, <3>2
      <3>4. QED BY <1>2, <3>3 DEF LoneInv, OnChainInv
    <2>2. QED BY <1>1, <1>3, <2>1 DEF OnChainInv, LoneInv
  <1>7. QED BY <1>4, <1>5, <1>6 DEF LoneInv

LEMMA LoneInvoke ==
  ASSUME LoneTask, TypeInv, LoneInv, NEW f \in Fibers, NEW c \in Calls,
         Invoke(Alone, f, c)
  PROVE  LoneInv'
  <1> DEFINE n == calls[Alone] + 1
             r == op'[Alone][f]
  <1>1. /\ Alone \in Tasks /\ calls[Alone] \in Nat /\ MaxCalls \in Nat
        /\ op[Alone][f].pc = "idle" /\ calls[Alone] < MaxCalls
        /\ calls' = [calls EXCEPT ![Alone] = @ + 1]
        /\ UNCHANGED <<landed, ledger, writes, staged>>
    BY LoneTypes, EcldStateAssumption DEF Invoke, chainVars, taskVars
  <1>2. calls'[Alone] = n
    BY <1>1 DEF TypeInv, TypeOK
  <1>3. \/ r.pc = "idle"
        \/ r.pc = "getState" /\ r.no = n /\ r.attempt = 0
    <2>1. \/ op' = [op EXCEPT ![Alone][f] = [IdleOp EXCEPT !.out = "permission"]]
          \/ op' = [op EXCEPT ![Alone][f] = [IdleOp EXCEPT !.out = "limit"]]
          \/ op' = [op EXCEPT ![Alone][f] =
                      [IdleOp EXCEPT !.pc = "getState", !.call = c, !.no = n]]
      BY DEF Invoke, Return, Goto
    <2>2. \A v : op' = [op EXCEPT ![Alone][f] = v] => r = v
      BY <1>1 DEF TypeInv, TypeOK
    <2>3. \A out : [IdleOp EXCEPT !.out = out].pc = "idle"
      BY DEF IdleOp
    <2>4. LET v == [IdleOp EXCEPT !.pc = "getState", !.call = c, !.no = n]
          IN  v.pc = "getState" /\ v.no = n /\ v.attempt = 0
      BY DEF IdleOp
    <2> HIDE DEF r
    <2>5. QED BY <2>1, <2>2, <2>3, <2>4
  <1>4. \A i \in Entries : /\ ~BeingPut(op[Alone][f], i)
                           /\ Authorized[i].blob.iv[2] \in Nat
                           /\ Authorized[i].blob.iv[2] <= calls[Alone]
    BY <1>1 DEF BeingPut, LoneInv, IdsInv, Containers
  <1>5. /\ Entries' = Entries
        /\ \A i \in Entries : Authorized'[i] = Authorized[i]
    BY <1>1 DEF Entries, Authorized
  <1>6. FiberIds(f)'
    <2>1. \A i \in Entries : Authorized[i].blob.iv[2] < n
      BY <1>1, <1>4
    <2>2. n \in 1 .. calls'[Alone]
      BY <1>1, <1>2
    <2>3. QED BY <1>3, <1>5, <2>1, <2>2 DEF FiberIds
  <1>7. FiberVersions(f)'
    BY <1>3 DEF FiberVersions
  <1>8. calls'[Alone] \in calls[Alone] .. MaxCalls
    BY <1>1, <1>2
  <1>9. QED BY <1>1, <1>4, <1>6, <1>7, <1>8, LoneQuiet

\* What a call reads is the task's own latest version.
LEMMA LoneReads ==
  ASSUME LoneTask, TypeInv, Lockstep, MemoInv, LoneInv,
         NEW f \in Fibers, NEW k \in Keys,
         op[Alone][f].pc \notin {"putLedger", "putCommit"}
  PROVE  /\ chain[k].version <= writes[Alone][k].version
         /\ ~(writes[Alone][k].version > chain[k].version) =>
               /\ chain[k].version = writes[Alone][k].version
               /\ chain[k].blob = writes[Alone][k].blob
  <1>1. chain[k].version \in Nat /\ writes[Alone][k].version \in Nat
    BY LoneTypes
  <1>2. \A g \in Fibers, i \in Entries : ~BeingPut(op[Alone][g], i)
    BY DEF LoneTask, Sequential, BeingPut
  <1>3. chain[k].version <= writes[Alone][k].version
    BY <1>2, LoneChain
  <1>4. chain[k].version = writes[Alone][k].version =>
           chain[k].blob = writes[Alone][k].blob
    BY LoneChain
  <1>5. QED BY <1>1, <1>3, <1>4

\* What getState leaves of an operation, and what it sets (ecld_state.js:423-449).
LEMMA ReadFields ==
  ASSUME NEW o \in Op, NEW pc, NEW memo, NEW base, NEW version
  PROVE  LET r == [o EXCEPT !.pc = pc, !.memo = memo, !.base = base,
                            !.version = version]
         IN  /\ r.no = o.no /\ r.attempt = o.attempt /\ r.call = o.call
             /\ r.version = version /\ r.base = base /\ r.pc = pc
  BY DEF Op

LEMMA LoneReadState ==
  ASSUME LoneTask, TypeInv, Lockstep, MemoInv, LoneInv, NEW f \in Fibers,
         ReadState(Alone, f)
  PROVE  LoneInv'
  <1> DEFINE o == op[Alone][f]
             k == o.call.key
             r == op'[Alone][f]
             l == AfterRead(o.call)
             m == IF chain[k].version = 0 THEN l ELSE "fetch"
             own == [o EXCEPT !.pc = l, !.memo = TRUE,
                              !.base = writes[Alone][k].blob,
                              !.version = writes[Alone][k].version]
             relayed == [o EXCEPT !.pc = m, !.memo = FALSE,
                                  !.base = chain[k].blob,
                                  !.version = chain[k].version]
  <1>1. /\ Alone \in Tasks /\ o \in Op /\ o.pc = "getState" /\ k \in Keys
        /\ UNCHANGED <<landed, ledger, writes, staged, calls>>
    <2>1. /\ o.pc = "getState" /\ UNCHANGED <<landed, ledger, writes, staged, calls>>
      BY DEF ReadState, chainVars, taskVars
    <2>2. QED BY <2>1, LoneTypes, CallType
  <1>2. \/ PrefersOwn(Alone, k) /\ r = own
        \/ ~PrefersOwn(Alone, k) /\ r = relayed
    <2>1. \/ PrefersOwn(Alone, k) /\ op' = [op EXCEPT ![Alone][f] = own]
          \/ ~PrefersOwn(Alone, k) /\ op' = [op EXCEPT ![Alone][f] = relayed]
      BY DEF ReadState, Goto
    <2>2. \A v : op' = [op EXCEPT ![Alone][f] = v] => r = v
      BY <1>1 DEF TypeInv, TypeOK
    <2> HIDE DEF r, own, relayed
    <2>3. QED BY <2>1, <2>2
  <1>3. ~PrefersOwn(Alone, k) => /\ chain[k].version = writes[Alone][k].version
                                 /\ chain[k].blob = writes[Alone][k].blob
    BY <1>1, LoneReads DEF PrefersOwn
  <1>4. l \in {"deliver", "getNonce"} /\ m \in {"deliver", "getNonce", "fetch"}
    BY DEF AfterRead
  <1> HIDE DEF l, m
  <1>5. /\ own.no = o.no /\ own.attempt = o.attempt /\ own.call = o.call
        /\ own.version = writes[Alone][k].version
        /\ own.base = writes[Alone][k].blob /\ own.pc = l
    <2> HIDE DEF o, k
    <2>1. QED BY <1>1, ReadFields
  <1>6. /\ relayed.no = o.no /\ relayed.attempt = o.attempt
        /\ relayed.call = o.call /\ relayed.version = chain[k].version
        /\ relayed.base = chain[k].blob /\ relayed.pc = m
    <2> HIDE DEF o, k
    <2>1. QED BY <1>1, ReadFields
  <1> HIDE DEF r, own, relayed
  <1>7. /\ r.no = o.no /\ r.attempt = o.attempt /\ r.call = o.call
        /\ r.version = writes[Alone][k].version
        /\ r.base = writes[Alone][k].blob
        /\ r.pc \in {"deliver", "getNonce", "fetch"}
    <2>1. CASE PrefersOwn(Alone, k)
      <3>1. r = own
        BY <1>2, <2>1
      <3>2. QED BY <1>4, <1>5, <3>1
    <2>2. CASE ~PrefersOwn(Alone, k)
      <3>1. r = relayed
        BY <1>2, <2>2
      <3>2. QED BY <1>3, <1>4, <1>6, <2>2, <3>1
    <2>3. QED BY <2>1, <2>2
  <1>8. /\ o.pc \notin {"idle", "putLedger", "putCommit"}
        /\ r.pc \notin {"putLedger", "putCommit"} /\ op'[Alone][f] = r
    BY <1>1, <1>7 DEF r
  <1>9. /\ r.no = op[Alone][f].no /\ r.attempt = op[Alone][f].attempt
        /\ r.version = writes[Alone][r.call.key].version
        /\ r.base = writes[Alone][r.call.key].blob
        /\ r.pc \notin {"relayNonce", "sign"}
    BY <1>7
  <1> HIDE DEF o, k
  <1>10. QED BY <1>1, <1>8, <1>9, LoneMoves DEF o

LEMMA LoneCheckNonceCopy ==
  ASSUME LoneTask, TypeInv, LoneInv, NEW f \in Fibers, CheckNonceCopy(Alone, f)
  PROVE  LoneInv'
  <1> DEFINE o == op[Alone][f]
             r == op'[Alone][f]
  <1>1. /\ Alone \in Tasks /\ o \in Op /\ o.pc = "fetch"
        /\ UNCHANGED <<landed, ledger, writes, staged, calls>>
    BY LoneTypes DEF CheckNonceCopy, chainVars, taskVars
  <1>2. \/ r = [IdleOp EXCEPT !.out = "tampered"]
        \/ r = [o EXCEPT !.pc = AfterRead(o.call)]
    <2>1. \/ op' = [op EXCEPT ![Alone][f] = [IdleOp EXCEPT !.out = "tampered"]]
          \/ op' = [op EXCEPT ![Alone][f] = [o EXCEPT !.pc = AfterRead(o.call)]]
      BY DEF CheckNonceCopy, Return, Goto
    <2>2. \A v : op' = [op EXCEPT ![Alone][f] = v] => r = v
      BY <1>1 DEF TypeInv, TypeOK
    <2>3. QED BY <2>1, <2>2
  <1>3. /\ o.version = writes[Alone][o.call.key].version
        /\ o.base = writes[Alone][o.call.key].blob
    BY <1>1 DEF LoneInv, VersionsInv, FiberVersions
  <1>4. \/ r.pc = "idle"
        \/ /\ r.no = o.no /\ r.attempt = o.attempt /\ r.call = o.call
           /\ r.version = o.version /\ r.base = o.base
           /\ r.pc \in {"deliver", "getNonce"}
    BY <1>1, <1>2 DEF Op, AfterRead, IdleOp
  <1> HIDE DEF r
  <1>5. QED BY <1>1, <1>3, <1>4, LoneMoves DEF r

LEMMA LoneReadNonce ==
  ASSUME LoneTask, TypeInv, LoneInv, NEW f \in Fibers, ReadNonce(Alone, f)
  PROVE  LoneInv'
  <1> DEFINE o == op[Alone][f]
             r == op'[Alone][f]
             next == getNonce(Alone, o.call.key) + 1
             acl == NextAcl(o.call, o.base.acl, Caller[Alone])
             b == [iv |-> <<Alone, o.no, o.attempt>>, parent |-> o.base.iv,
                   memo |-> o.memo, acl |-> acl,
                   committedBy |-> IF acl = None THEN None ELSE Caller[Alone],
                   nonce |-> next]
  <1>1. /\ Alone \in Tasks /\ o \in Op /\ o.pc = "getNonce"
        /\ UNCHANGED <<landed, ledger, writes, staged, calls>>
    BY LoneTypes DEF ReadNonce, chainVars, taskVars
  <1>2. \/ r = [IdleOp EXCEPT !.out = "nonce"]
        \/ r = [IdleOp EXCEPT !.out = "permission"]
        \/ r = [o EXCEPT !.pc = "relayNonce", !.blob = b]
    <2>1. \/ op' = [op EXCEPT ![Alone][f] = [IdleOp EXCEPT !.out = "nonce"]]
          \/ op' = [op EXCEPT ![Alone][f] = [IdleOp EXCEPT !.out = "permission"]]
          \/ op' = [op EXCEPT ![Alone][f] =
                      [o EXCEPT !.pc = "relayNonce", !.blob = b]]
      BY DEF ReadNonce, Return, Goto
    <2>2. \A v : op' = [op EXCEPT ![Alone][f] = v] => r = v
      BY <1>1 DEF TypeInv, TypeOK
    <2>3. QED BY <2>1, <2>2
  <1>3. o.version = writes[Alone][o.call.key].version
    BY <1>1 DEF LoneInv, VersionsInv, FiberVersions
  <1>4. o.attempt = 0 /\ b.iv = <<Alone, o.no, o.attempt>>
    BY <1>1 DEF LoneInv, IdsInv, FiberIds
  <1> HIDE DEF b
  <1>5. \/ r.pc = "idle"
        \/ /\ r.no = o.no /\ r.attempt = o.attempt /\ r.call = o.call
           /\ r.version = o.version /\ r.blob.iv = <<Alone, o.no, 0>>
           /\ r.pc = "relayNonce"
    BY <1>1, <1>2, <1>4 DEF Op, IdleOp
  <1> HIDE DEF r
  <1>6. QED BY <1>1, <1>3, <1>5, LoneMoves DEF r

LEMMA LoneReadRelayNonce ==
  ASSUME LoneTask, TypeInv, LoneInv, NEW f \in Fibers, ReadRelayNonce(Alone, f)
  PROVE  LoneInv'
  <1> DEFINE o == op[Alone][f]
             r == op'[Alone][f]
  <1>1. /\ Alone \in Tasks /\ o \in Op /\ o.pc = "relayNonce"
        /\ UNCHANGED <<landed, ledger, writes, staged, calls>>
    BY LoneTypes DEF ReadRelayNonce, chainVars, taskVars
  <1>2. r = [o EXCEPT !.pc = "sign",
                      !.relayNonce = NextRelayNonce(Alone, o.call.key)]
    BY <1>1 DEF ReadRelayNonce, Goto, TypeInv, TypeOK
  <1>3. /\ o.version = writes[Alone][o.call.key].version
        /\ o.blob.iv = <<Alone, o.no, 0>>
    BY <1>1 DEF LoneInv, VersionsInv, FiberVersions, IdsInv, FiberIds
  <1>4. /\ r.no = o.no /\ r.attempt = o.attempt /\ r.call = o.call
        /\ r.version = o.version /\ r.blob = o.blob /\ r.pc = "sign"
    BY <1>1, <1>2 DEF Op
  <1> HIDE DEF r
  <1>5. QED BY <1>1, <1>3, <1>4, LoneMoves DEF r

LEMMA LoneDeliver ==
  ASSUME LoneTask, TypeInv, LoneInv, NEW f \in Fibers, Deliver(Alone, f)
  PROVE  LoneInv'
  <1>1. /\ Alone \in Tasks /\ op[Alone][f].pc = "deliver"
        /\ UNCHANGED <<landed, ledger, writes, staged, calls>>
    BY LoneTypes DEF Deliver, chainVars
  <1>2. op'[Alone][f].pc = "idle"
    BY <1>1 DEF Deliver, Return, Goto, TypeInv, TypeOK, IdleOp
  <1>3. QED BY <1>1, <1>2, LoneMoves

LEMMA LoneNext ==
  ASSUME LoneTask, TypeInv, Lockstep, MemoInv, LoneInv, [Next]_vars
  PROVE  LoneInv'
  <1>1. CASE UNCHANGED vars
    BY <1>1 DEF vars, LoneInv, IdsInv, VersionsInv, OnChainInv, FiberIds,
       FiberVersions, Entries, Authorized
  <1>2. ASSUME NEW t \in Tasks, NEW f \in Fibers, NEW c \in Calls, Invoke(t, f, c)
        PROVE  LoneInv'
    BY <1>2, LoneInvoke DEF LoneTask
  <1>3. ASSUME NEW t \in Tasks, NEW f \in Fibers, FiberStep(t, f)
        PROVE  LoneInv'
    <2>1. t = Alone
      BY DEF LoneTask
    <2>2. QED
      BY <1>3, <2>1, LoneReadState, LoneCheckNonceCopy, LoneDeliver,
         LoneReadNonce, LoneReadRelayNonce, LoneSign, LonePutLedger,
         LonePutCommit DEF FiberStep
  <1>4. ASSUME NEW t \in Tasks, NEW f \in Fibers, Fail(t, f)
        PROVE  LoneInv'
    BY <1>4 DEF Fail, LoneTask
  <1>5. ASSUME NEW a \in staged, Relay(a)
        PROVE  LoneInv'
    BY <1>5, LoneRelay
  <1>6. QED BY <1>1, <1>2, <1>3, <1>4, <1>5 DEF Next

LEMMA LoneHolds ==
  ASSUME LoneTask
  PROVE  Spec => [](TypeInv /\ Lockstep /\ MemoInv /\ LoneInv)
  <1>1. Init => LoneInv
    BY LoneInit
  <1>2. TypeInv /\ Lockstep /\ MemoInv /\ LoneInv /\ [Next]_vars => LoneInv'
    BY LoneNext
  <1>3. QED BY <1>1, <1>2, MemoHolds, PTL DEF Spec

\* What a call is storing has not been the register's value before it lands.
LEMMA LoneFresh ==
  ASSUME LoneTask, TypeInv, Lockstep, MemoInv, LoneInv, NEW f \in Fibers,
         NEW i \in Entries, BeingPut(op[Alone][f], i),
         LET k == op[Alone][f].call.key
         IN  chain[k].version <= writes[Alone][k].version
  PROVE  /\ op[Alone][f].blob.iv \in Containers
         /\ \A x \in Keys : /\ writes[Alone][x].blob.iv # op[Alone][f].blob.iv
                            /\ chain[x].blob.iv # op[Alone][f].blob.iv
  <1> DEFINE o == op[Alone][f]
             k == o.call.key
  <1>1. /\ Makes(Authorized[i], k, writes[Alone][k].version + 1, o.blob)
        /\ o.blob.iv = <<Alone, o.no, 0>>
        /\ \A j \in Entries : j # i => Authorized[j].blob.iv[2] < o.no
    BY LonePut
  <1>2. /\ o.blob.iv \in Containers /\ o.no \in Nat
        /\ None \notin Containers /\ NoBlob.iv = None
    <2>1. o.blob.iv \in Containers
      BY <1>1 DEF LoneInv, IdsInv, Makes
    <2>2. o.pc # "idle"
      BY DEF BeingPut
    <2>3. calls[Alone] \in Nat
      BY LoneTypes
    <2>4. o.no \in 1 .. calls[Alone]
      BY <2>2 DEF LoneInv, IdsInv, FiberIds
    <2> HIDE DEF o
    <2>5. QED BY <2>1, <2>3, <2>4 DEF LoneTask, NoBlob
  <1>3. ASSUME NEW j \in Entries, j # i
        PROVE  Authorized[j].blob.iv # o.blob.iv
    <2> HIDE DEF o
    <2>1. Authorized[j].blob.iv[2] < o.no
      BY <1>1, <1>3
    <2>2. o.blob.iv[2] = o.no
      BY <1>1
    <2>3. QED BY <1>2, <2>1, <2>2
  <1>4. ASSUME NEW x \in Keys, writes[Alone][x].blob.iv = o.blob.iv
        PROVE  FALSE
    <2>1. PICK j \in Entries : Makes(Authorized[j], x, writes[Alone][x].version,
                                     writes[Alone][x].blob)
      BY <1>2, <1>4 DEF LoneInv, VersionsInv
    <2>2. j = i
      BY <1>3, <1>4, <2>1 DEF Makes
    <2>3. x = k /\ writes[Alone][k].version = writes[Alone][k].version + 1
      BY <1>1, <2>1, <2>2 DEF Makes
    <2>4. writes[Alone][k].version \in Nat
      BY <2>3, LoneTypes
    <2>5. QED BY <2>3, <2>4
  <1>5. ASSUME NEW x \in Keys, chain[x].blob.iv = o.blob.iv
        PROVE  FALSE
    <2>1. chain[x].version # 0
      BY <1>2, <1>5, LoneChain
    <2>2. PICK j \in Entries : Makes(Authorized[j], x, chain[x].version,
                                     chain[x].blob)
      BY <2>1, LoneChain
    <2>3. j = i
      BY <1>3, <1>5, <2>2 DEF Makes
    <2>4. x = k /\ chain[k].version = writes[Alone][k].version + 1
      BY <1>1, <2>2, <2>3 DEF Makes
    <2>5. writes[Alone][k].version \in Nat
      BY <2>4, LoneTypes
    <2>6. QED BY <2>4, <2>5
  <1>6. QED BY <1>2, <1>4, <1>5

\* A function of the keys after a step at one of them.
LEMMA OneKey ==
  ASSUME NEW k \in Keys, NEW v, NEW w,
         v = [x \in Keys |-> v[x]], w = [x \in Keys |-> w[x]],
         \A x \in Keys : x # k => w[x] = v[x]
  PROVE  w = [v EXCEPT ![k] = w[k]]
  OBVIOUS

\* What the task would read is its own latest version, or one more if what it
\* is storing has landed already.
LEMMA LoneWouldRead ==
  ASSUME LoneTask, TypeInv, Lockstep, MemoInv, LoneInv, NEW k \in Keys
  PROVE  /\ chain[k].version <= writes[Alone][k].version =>
               WouldRead[k] = Shown(writes[Alone][k])
         /\ ~(chain[k].version <= writes[Alone][k].version) =>
               WouldRead[k] = Shown(chain[k])
  <1>1. chain[k].version \in Nat /\ writes[Alone][k].version \in Nat
    BY LoneTypes
  <1>2. chain[k].version = writes[Alone][k].version =>
           chain[k].blob = writes[Alone][k].blob
    BY LoneChain
  <1>3. WouldRead[k] = IF writes[Alone][k].version > chain[k].version
                       THEN Shown(writes[Alone][k]) ELSE Shown(chain[k])
    BY DEF WouldRead
  <1>4. QED BY <1>1, <1>2, <1>3 DEF Shown

LEMMA RefinesDeliver ==
  ASSUME LoneTask, TypeInv, Lockstep, MemoInv, LoneInv, NEW f \in Fibers,
         Deliver(Alone, f)
  PROVE  Register!Next \/ UNCHANGED <<WouldRead, WillReport>>
  <1> DEFINE o == op[Alone][f]
             k == o.call.key
  <1>1. /\ Alone \in Tasks /\ o.pc = "deliver" /\ k \in Keys
        /\ UNCHANGED <<chain, writes>>
    BY LoneTypes, CallType DEF Deliver, chainVars
  <1>2. UNCHANGED WouldRead
    BY <1>1 DEF WouldRead
  <1>3. \/ UNCHANGED results
        \/ results' = [results EXCEPT ![Alone][k] = [blob |-> o.base,
                                                     version |-> o.version]]
    BY DEF Deliver
  <1>4. CASE UNCHANGED results
    BY <1>2, <1>4 DEF WillReport
  <1>5. CASE results' = [results EXCEPT ![Alone][k] = [blob |-> o.base,
                                                       version |-> o.version]]
    <2>1. /\ results'[Alone][k] = [blob |-> o.base, version |-> o.version]
          /\ \A x \in Keys : x # k => results'[Alone][x] = results[Alone][x]
      BY <1>1, <1>5 DEF TypeInv, TypeOK
    <2>2. /\ o.version = writes[Alone][k].version
          /\ o.base = writes[Alone][k].blob
      BY <1>1 DEF LoneInv, VersionsInv, FiberVersions
    <2>3. WouldRead[k] = Shown(writes[Alone][k])
      BY <1>1, LoneReads, LoneWouldRead
    <2>4. WillReport'[k] = WouldRead[k]
      <3>1. WillReport'[k] = Shown(results'[Alone][k])
        BY <1>1 DEF WillReport
      <3>2. Shown(results'[Alone][k]) = Shown(writes[Alone][k])
        <4> DEFINE m == [blob |-> o.base, version |-> o.version]
                   w == writes[Alone][k]
        <4>1. m.blob = w.blob /\ m.version = w.version
          BY <2>2
        <4> HIDE DEF m, w
        <4>2. Shown(m) = Shown(w)
          BY <4>1 DEF Shown
        <4>3. QED BY <2>1, <4>2 DEF m, w
      <3>3. QED BY <2>3, <3>1, <3>2
    <2>5. WillReport' = [WillReport EXCEPT ![k] = WillReport'[k]]
      <3>1. /\ WillReport = [x \in Keys |-> WillReport[x]]
            /\ WillReport' = [x \in Keys |-> WillReport'[x]]
        BY DEF WillReport
      <3>2. \A x \in Keys : x # k => WillReport'[x] = WillReport[x]
        BY <2>1 DEF WillReport
      <3> HIDE DEF k
      <3>3. QED BY <1>1, <3>1, <3>2, OneKey
    <2>6. Register!Report(k)
      BY <1>2, <2>4, <2>5 DEF Register!Report
    <2>7. QED BY <1>1, <2>6 DEF Register!Next
  <1>6. QED BY <1>3, <1>4, <1>5

LEMMA RefinesPutCommit ==
  ASSUME LoneTask, TypeInv, Lockstep, MemoInv, LoneInv, NEW f \in Fibers,
         PutCommit(Alone, f)
  PROVE  Register!Next
  <1> DEFINE o == op[Alone][f]
             k == o.call.key
             m == [blob |-> o.blob, version |-> o.version + 1]
  <1>1. /\ Alone \in Tasks /\ o.pc = "putCommit" /\ UNCHANGED chain
        /\ writes' = [writes EXCEPT ![Alone][k] = m]
        /\ results' = [results EXCEPT ![Alone][k] = m]
    BY LoneTypes DEF PutCommit, LoneTask, Sequential, chainVars, Acknowledge
  <1>2. k \in Keys /\ o.at \in Entries
    BY <1>1, CallType DEF TypeInv, OpOK, Entries
  <1>3. BeingPut(o, o.at)
    BY <1>1 DEF BeingPut
  <1>4. o.version = writes[Alone][k].version /\ o.version \in Nat
    BY <1>2, <1>3, LonePut, LoneTypes
  <1>5. m.blob = o.blob /\ m.version = o.version + 1
    OBVIOUS
  <1> HIDE DEF m, k
  <1>6. /\ writes'[Alone][k] = m /\ results'[Alone][k] = m
        /\ \A x \in Keys : x # k => /\ writes'[Alone][x] = writes[Alone][x]
                                    /\ results'[Alone][x] = results[Alone][x]
    BY <1>1, <1>2 DEF TypeInv, TypeOK
  <1>7. /\ WillReport'[k] = Shown(m)
        /\ WillReport' = [WillReport EXCEPT ![k] = WillReport'[k]]
    <2>1. WillReport'[k] = Shown(m)
      BY <1>2, <1>6 DEF WillReport, Shown
    <2>2. \A x \in Keys : x # k => WillReport'[x] = WillReport[x]
      BY <1>6 DEF WillReport, Shown
    <2>3. QED BY <1>2, <2>1, <2>2, OneKey DEF WillReport
  <1>8. /\ \A x \in Keys : x # k => WouldRead'[x] = WouldRead[x]
        /\ WouldRead' = [x \in Keys |-> WouldRead'[x]]
        /\ WouldRead = [x \in Keys |-> WouldRead[x]]
        /\ WouldRead'[k] = IF m.version > chain[k].version
                           THEN Shown(m) ELSE Shown(chain[k])
    BY <1>1, <1>2, <1>6 DEF WouldRead, Shown
  <1>9. WouldRead' = [WouldRead EXCEPT ![k] = WouldRead'[k]]
    BY <1>2, <1>8, OneKey
  <1>10. chain[k].version \in Nat
    BY <1>2, LoneTypes
  <1>11. CASE chain[k].version <= writes[Alone][k].version
    <2>1. /\ WouldRead[k] = Shown(writes[Alone][k])
          /\ WouldRead'[k] = Shown(m)
      BY <1>2, <1>4, <1>5, <1>8, <1>10, <1>11, LoneWouldRead
    <2>2. WouldRead'[k] = [id |-> o.blob.iv, version |-> WouldRead[k].version + 1]
      BY <1>4, <1>5, <2>1 DEF Shown
    <2>3. /\ o.blob.iv \in Containers
          /\ \A x \in Keys : /\ writes[Alone][x].blob.iv # o.blob.iv
                             /\ chain[x].blob.iv # o.blob.iv
      BY <1>2, <1>3, <1>11, LoneFresh DEF k
    <2>4. \A x \in Keys : WouldRead[x].id # o.blob.iv
      BY <2>3 DEF WouldRead, Shown
    <2>5. Register!Commit(k, o.blob.iv)
      BY <1>7, <1>9, <2>1, <2>2, <2>4 DEF Register!Commit
    <2>6. QED BY <1>2, <2>3, <2>5 DEF Register!Next
  <1>12. CASE ~(chain[k].version <= writes[Alone][k].version)
    <2>1. PICK g \in Fibers, i \in Entries :
             /\ BeingPut(op[Alone][g], i)
             /\ chain[k].version = writes[Alone][k].version + 1
             /\ chain[k].blob = op[Alone][g].blob
      BY <1>2, <1>12, LoneChain
    <2>2. g = f
      BY DEF LoneTask, Sequential
    <2>3. Shown(chain[k]) = Shown(m)
      BY <1>4, <1>5, <2>1, <2>2 DEF Shown
    <2>4. WouldRead[k] = Shown(m) /\ WouldRead'[k] = Shown(m)
      BY <1>2, <1>8, <1>12, <2>3, LoneWouldRead
    <2>5. UNCHANGED WouldRead
      BY <1>8, <2>4
    <2>6. Register!Report(k)
      BY <1>7, <2>4, <2>5 DEF Register!Report
    <2>7. QED BY <1>2, <2>6 DEF Register!Next
  <1>13. QED BY <1>11, <1>12

LEMMA RefinesRelay ==
  ASSUME LoneTask, TypeInv, Lockstep, MemoInv, LoneInv, NEW a \in staged, Relay(a)
  PROVE  Register!Next \/ UNCHANGED <<WouldRead, WillReport>>
  <1> DEFINE k == a.key
             w == writes[Alone][k]
  <1>1. /\ UNCHANGED <<writes, results, op>> /\ Land(a) /\ a \in Auth
        /\ a.expectedVersion = chain[k].version
    BY DEF Relay, Accepts, taskVars, TypeInv, TypeOK
  <1>2. /\ k \in Keys /\ \A x \in Keys : x # k => chain'[x] = chain[x]
        /\ chain'[k].version = chain[k].version + 1 /\ chain'[k].blob = a.blob
    <2>1. /\ k \in Keys
          /\ chain'[k] = [blob |-> a.blob, version |-> chain[k].version + 1,
                          nonce |-> chain[k].nonce + 1,
                          relayNonce |-> chain[k].relayNonce + 1]
          /\ \A x \in Keys \ {k} : chain'[x] = chain[x]
      BY <1>1, LandStep DEF TypeInv
    <2>2. QED BY <2>1
  <1>3. PICK i \in Entries : a = Authorized[i]
    BY DEF LoneInv, OnChainInv
  <1>4. chain[k].version \in Nat /\ w.version \in Nat
    BY <1>2, LoneTypes
  <1> HIDE DEF k
  <1>5. UNCHANGED WillReport
    BY <1>1 DEF WillReport
  <1>6. /\ \A x \in Keys : x # k => WouldRead'[x] = WouldRead[x]
        /\ WouldRead' = [x \in Keys |-> WouldRead'[x]]
        /\ WouldRead = [x \in Keys |-> WouldRead[x]]
        /\ WouldRead'[k] = IF w.version > chain[k].version + 1 THEN Shown(w)
                           ELSE [id |-> a.blob.iv, version |-> chain[k].version + 1]
    BY <1>1, <1>2 DEF WouldRead, Shown
  <1>7. CASE a.expectedVersion < w.version
    <2>1. WouldRead[k] = Shown(w)
      BY <1>1, <1>2, <1>4, <1>7, LoneWouldRead
    <2>2. ASSUME ~(w.version > chain[k].version + 1)
          PROVE  a.blob = w.blob /\ w.version = chain[k].version + 1
      <3>1. w.version = chain[k].version + 1 /\ w.version # 0
        BY <1>1, <1>4, <1>7, <2>2
      <3>2. PICK j \in Entries : Makes(Authorized[j], k, w.version, w.blob)
        BY <1>2, <3>1 DEF LoneInv, VersionsInv
      <3>3. /\ Authorized[j].expectedVersion \in Nat
            /\ Authorized[i].expectedVersion \in Nat
        BY LoneTypes
      <3>4. /\ Authorized[i].key = Authorized[j].key
            /\ Authorized[i].expectedVersion = Authorized[j].expectedVersion
        BY <1>1, <1>3, <3>1, <3>2, <3>3 DEF Makes, k
      <3>5. i = j
        BY <3>4 DEF LoneInv, VersionsInv
      <3>6. QED BY <1>3, <3>1, <3>2, <3>5 DEF Makes
    <2>3. WouldRead'[k] = Shown(w)
      BY <1>6, <2>2 DEF Shown
    <2>4. UNCHANGED WouldRead
      BY <1>6, <2>1, <2>3
    <2>5. QED BY <1>5, <2>4
  <1>8. CASE ~(a.expectedVersion < w.version)
    <2>1. PICK f \in Fibers : BeingPut(op[Alone][f], i)
      BY <1>3, <1>8 DEF LoneInv, VersionsInv, k
    <2> DEFINE o == op[Alone][f]
    <2>2. Makes(Authorized[i], o.call.key,
                writes[Alone][o.call.key].version + 1, o.blob)
      BY <2>1, LonePut
    <2>3. /\ o.call.key = k /\ a.blob = o.blob
          /\ a.expectedVersion + 1 = w.version + 1
      BY <1>3, <2>2 DEF Makes, k
    <2>4. chain[k].version = w.version
      BY <1>1, <1>4, <2>3
    <2>5. /\ WouldRead[k] = Shown(w)
          /\ WouldRead'[k] = [id |-> o.blob.iv, version |-> w.version + 1]
      BY <1>2, <1>4, <1>6, <2>3, <2>4, LoneWouldRead
    <2>6. WouldRead' = [WouldRead EXCEPT ![k] =
                          [id |-> o.blob.iv, version |-> WouldRead[k].version + 1]]
      <3>1. WouldRead' = [WouldRead EXCEPT ![k] = WouldRead'[k]]
        BY <1>2, <1>6, OneKey
      <3>2. WouldRead[k].version = w.version
        BY <2>5 DEF Shown
      <3>3. QED BY <2>5, <3>1, <3>2
    <2>7. /\ o.blob.iv \in Containers
          /\ \A x \in Keys : /\ writes[Alone][x].blob.iv # o.blob.iv
                             /\ chain[x].blob.iv # o.blob.iv
      BY <1>4, <2>1, <2>3, <2>4, LoneFresh
    <2>8. \A x \in Keys : WouldRead[x].id # o.blob.iv
      BY <2>7 DEF WouldRead, Shown
    <2>9. Register!Commit(k, o.blob.iv)
      BY <1>5, <2>6, <2>8 DEF Register!Commit
    <2>10. QED BY <1>2, <2>7, <2>9 DEF Register!Next
  <1>9. QED BY <1>7, <1>8

LEMMA RefinesNext ==
  ASSUME LoneTask, TypeInv, Lockstep, MemoInv, LoneInv, [Next]_vars
  PROVE  [Register!Next]_<<WouldRead, WillReport>>
  <1>1. ASSUME UNCHANGED <<chain, writes, results>>
        PROVE  UNCHANGED <<WouldRead, WillReport>>
    BY <1>1 DEF WouldRead, WillReport
  <1>2. CASE UNCHANGED vars
    BY <1>1, <1>2 DEF vars
  <1>3. ASSUME NEW t \in Tasks, NEW f \in Fibers,
               \/ \E c \in Calls : Invoke(t, f, c)
               \/ ReadState(t, f) \/ CheckNonceCopy(t, f) \/ ReadNonce(t, f)
               \/ ReadRelayNonce(t, f) \/ Sign(t, f) \/ PutLedger(t, f)
               \/ Fail(t, f)
        PROVE  UNCHANGED <<chain, writes, results>>
    BY <1>3 DEF Invoke, ReadState, CheckNonceCopy, ReadNonce, ReadRelayNonce,
       Sign, PutLedger, Fail, chainVars, taskVars
  <1>4. ASSUME NEW t \in Tasks, NEW f \in Fibers, Deliver(t, f) \/ PutCommit(t, f)
        PROVE  Register!Next \/ UNCHANGED <<WouldRead, WillReport>>
    BY <1>4, RefinesDeliver, RefinesPutCommit DEF LoneTask
  <1>5. ASSUME NEW a \in staged, Relay(a)
        PROVE  Register!Next \/ UNCHANGED <<WouldRead, WillReport>>
    BY <1>5, RefinesRelay
  <1>6. QED BY <1>1, <1>2, <1>3, <1>4, <1>5 DEF Next, FiberStep

\* A task alone on its keys that awaits its calls sees a register per key: it
\* reads its own commits at once and for ever, the node relays them unseen,
\* and its result reports what the chain will show.
THEOREM LoneImplementsRegister ==
  ASSUME LoneTask PROVE Spec => ImplementsRegister
  <1>1. Init => Register!Init
    BY DEF Init, Register!Init, WouldRead, WillReport, Shown, LoneTask,
       PerTaskKey, NoMemo, NoEntry, NoBlob
  <1>2. TypeInv /\ Lockstep /\ MemoInv /\ LoneInv /\ [Next]_vars =>
           [Register!Next]_<<WouldRead, WillReport>>
    BY RefinesNext
  <1>3. QED
    BY <1>1, <1>2, LoneHolds, PTL DEF Spec, ImplementsRegister, Register!Spec

=============================================================================
