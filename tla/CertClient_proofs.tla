-------------------------- MODULE CertClient_proofs --------------------------
(***************************************************************************)
(* Proofs about CertClient: its types, that a failed extraction it reports *)
(* has failed, and that it does not submit what the watcher queued, for    *)
(* every grace period, every lag the grace outlasts and polls as late as   *)
(* they may come.                                                          *)
(***************************************************************************)
EXTENDS CertClient, TLAPS

\* What the two properties rest on: a poll that is still answered the old
\* record follows a submission by less than the lag (the grace outlasts it),
\* and a client submits only before it polls, when it saw no row or a failed
\* one.
IInv ==
    /\ TypeOK
    /\ pc = "poll" /\ lag > 0 =>
          submittedAt # -1 /\ lag + submittedAt <= AnswerLag
    /\ pc = "queue" => submittedAt = -1
    /\ timely => row # "none"
    /\ chainRegistered /\ timely /\ pc = "submit" => sawFailure
    /\ WatchedIsNotPosted

USE CertAssumption DEF CertAssumption

LEMMA PlusZero ==
    ASSUME NEW m \in Int, NEW n, n = 0
    PROVE  m + n = m
OBVIOUS

LEMMA InitIInv == Init => IInv
<1> SUFFICES ASSUME Init
             PROVE  IInv
    OBVIOUS
<1>1. TypeOK
    <2>1. pc \in {"queue", "submit"}
        BY DEF Init, Start
    <2>2. waited \in 0 .. CHAIN_ROW_GRACE /\ submittedAt \in -1 .. RESUBMIT_GRACE
        BY DEF Init
    <2>3. /\ lag \in 0 .. AnswerLag
          /\ failures \in 0 .. MaxFailures /\ faults \in 0 .. MaxFaults
        BY DEF Init
    <2> QED
        BY <2>1, <2>2, <2>3 DEF Init, TypeOK
<1>2. ~timely /\ submittedAt = -1 /\ pc # "poll"
    BY DEF Init, Start
<1> QED
    BY <1>1, <1>2 DEF IInv, WatchedIsNotPosted

\* A sleep shortens the lag by what it adds to the time since the submission.
LEMMA SleepLemma ==
    ASSUME TypeOK, sleep,
           lag > 0 => submittedAt # -1 /\ lag + submittedAt <= AnswerLag
    PROVE  /\ waited' \in 0 .. CHAIN_ROW_GRACE
           /\ submittedAt' \in -1 .. RESUBMIT_GRACE
           /\ lag' \in 0 .. AnswerLag
           /\ submittedAt' = -1 <=> submittedAt = -1
           /\ lag' > 0 => submittedAt' # -1 /\ lag' + submittedAt' <= AnswerLag
<1>1. PICK t \in 1 .. MaxSleep :
         /\ waited' = UpTo(waited + t, CHAIN_ROW_GRACE)
         /\ submittedAt' = IF submittedAt = -1 THEN -1
                           ELSE UpTo(submittedAt + t, RESUBMIT_GRACE)
         /\ lag' = IF lag > t THEN lag - t ELSE 0
    BY DEF sleep
<1>2. t \in Int /\ t >= 1
    OBVIOUS
<1>3. waited' \in 0 .. CHAIN_ROW_GRACE
    BY <1>1, <1>2 DEF TypeOK, UpTo
<1>4. submittedAt' \in -1 .. RESUBMIT_GRACE
    BY <1>1, <1>2 DEF TypeOK, UpTo
<1>5. lag' \in 0 .. AnswerLag
    BY <1>1, <1>2 DEF TypeOK
<1>6. submittedAt' = -1 <=> submittedAt = -1
    BY <1>1, <1>2 DEF TypeOK, UpTo
<1>7. lag' > 0 => submittedAt' # -1 /\ lag' + submittedAt' <= AnswerLag
    BY <1>1, <1>2 DEF TypeOK, UpTo
<1> QED
    BY <1>3, <1>4, <1>5, <1>6, <1>7

\* A turn of the loop, with the answer the service gives.
LEMMA DecideLemma ==
    ASSUME TypeOK, Decide(Answer), UNCHANGED row,
           lag > 0 =>
               \/ submittedAt # -1 /\ lag + submittedAt <= AnswerLag
               \/ Answer # "failed"
    PROVE  /\ pc' \in {"poll", "saved", "failed"}
           /\ pc' = "failed" => row = "failed"
           /\ waited' \in 0 .. CHAIN_ROW_GRACE
           /\ submittedAt' \in -1 .. RESUBMIT_GRACE
           /\ lag' \in 0 .. AnswerLag
           /\ submittedAt' = -1 <=> submittedAt = -1
           /\ pc' = "poll" /\ lag' > 0 =>
                  submittedAt' # -1 /\ lag' + submittedAt' <= AnswerLag
<1>1. lag > 0 => submittedAt # -1 /\ lag + submittedAt <= AnswerLag
    BY DEF Answer
<1>2. CASE pc' = "poll" /\ sleep
    BY <1>1, <1>2, SleepLemma
<1>3. CASE /\ Answer = "failed" /\ ~StillPrevious /\ pc' = "failed"
           /\ UNCHANGED <<waited, submittedAt, lag>>
    <2>1. ~(lag > 0)
        BY <1>1, <1>3 DEF StillPrevious, TypeOK
    <2> QED
        BY <1>3, <2>1 DEF Answer, TypeOK
<1>4. CASE pc' = "saved" /\ UNCHANGED <<waited, submittedAt, lag>>
    BY <1>4 DEF TypeOK
<1> QED
    BY <1>2, <1>3, <1>4 DEF Decide

LEMMA SubmitLemma ==
    ASSUME TypeOK, Queued
    PROVE  /\ row' \in {"none", "queued", "running", "failed", "done"}
           /\ lag' \in 0 .. AnswerLag
           /\ row' # "none"
BY DEF TypeOK, Queued, serviceVars

LEMMA AnswerType ==
    ASSUME TypeOK
    PROVE  Answer \in {"none", "queued", "running", "failed", "done"}
BY DEF TypeOK, Answer

LEMMA NextIInv == IInv /\ [Next]_vars => IInv'
<1> SUFFICES ASSUME IInv, [Next]_vars
             PROVE  IInv'
    OBVIOUS
<1> USE DEF Ended
<1>1. CASE Queue
    <2> USE <1>1 DEF IInv, Queue, Saw
    <2>1. CASE /\ Answer = "failed" \/ Answer = "none"
               /\ pc' = "submit" /\ UNCHANGED <<waited, submittedAt, lag>>
        BY <2>1 DEF TypeOK, WatchedIsNotPosted, Answer
    <2>2. CASE Answer \notin {"none", "failed"} /\ Decide(Answer)
        <3>1. /\ pc' \in {"poll", "saved", "failed"}
              /\ waited' \in 0 .. CHAIN_ROW_GRACE
              /\ submittedAt' \in -1 .. RESUBMIT_GRACE
              /\ lag' \in 0 .. AnswerLag
              /\ submittedAt' = -1 <=> submittedAt = -1
              /\ pc' = "poll" /\ lag' > 0 =>
                     submittedAt' # -1 /\ lag' + submittedAt' <= AnswerLag
            BY <2>2, DecideLemma
        <3> QED
            BY <2>2, <3>1 DEF TypeOK, WatchedIsNotPosted
    <2>3. CASE Answer = "none" /\ pc' = "queue" /\ sleep
        <3>1. ~(lag > 0)
            BY <2>3 DEF Answer, TypeOK
        <3>2. /\ waited' \in 0 .. CHAIN_ROW_GRACE
              /\ submittedAt' \in -1 .. RESUBMIT_GRACE
              /\ lag' \in 0 .. AnswerLag
              /\ submittedAt' = -1 <=> submittedAt = -1
            BY <2>3, <3>1, SleepLemma
        <3> QED
            BY <2>3, <3>2 DEF TypeOK, WatchedIsNotPosted
    <2> QED
        BY <2>1, <2>2, <2>3
<1>2. CASE Submit
    <2>1. /\ row' \in {"none", "queued", "running", "failed", "done"}
          /\ lag' \in 0 .. AnswerLag
          /\ row' # "none"
        BY <1>2, SubmitLemma DEF IInv, Submit
    <2>2. TypeOK'
        BY <1>2, <2>1 DEF IInv, Submit, TypeOK
    <2>3. pc' = "poll" /\ submittedAt' = 0
        BY <1>2 DEF Submit
    <2>5. submittedAt' # -1 /\ lag' + submittedAt' <= AnswerLag
        <3>1. 0 # -1
            OBVIOUS
        <3>2. lag' \in Int /\ AnswerLag \in Int /\ lag' <= AnswerLag
            BY <2>1
        <3>3. lag' + submittedAt' = lag'
            BY <2>3, <3>2, PlusZero
        <3> QED
            BY <2>3, <3>1, <3>2, <3>3
    <2>4. WatchedIsNotPosted'
        BY <1>2 DEF IInv, Submit, WatchedIsNotPosted
    <2> QED
        BY <2>1, <2>2, <2>3, <2>4, <2>5 DEF IInv
<1>3. CASE Poll
    <2>1. /\ pc' \in {"poll", "saved", "failed"}
          /\ waited' \in 0 .. CHAIN_ROW_GRACE
          /\ submittedAt' \in -1 .. RESUBMIT_GRACE
          /\ lag' \in 0 .. AnswerLag
          /\ submittedAt' = -1 <=> submittedAt = -1
          /\ pc' = "poll" /\ lag' > 0 =>
                 submittedAt' # -1 /\ lag' + submittedAt' <= AnswerLag
        BY <1>3, DecideLemma DEF IInv, Poll
    <2> QED
        BY <1>3, <2>1 DEF IInv, Poll, Saw, TypeOK, WatchedIsNotPosted
<1>4. CASE RequestFails
    <2>1. /\ row' \in {"none", "queued", "running", "failed", "done"}
          /\ lag' \in 0 .. AnswerLag
          /\ row' = row \/ row' # "none"
        BY <1>4, SubmitLemma DEF IInv, RequestFails, serviceVars, TypeOK
    <2>2. TypeOK'
        BY <1>4, <2>1 DEF IInv, RequestFails, TypeOK
    <2>3. pc' = "error" /\ (timely' => row' # "none")
        BY <1>4, <2>1 DEF IInv, RequestFails
    <2>4. WatchedIsNotPosted'
        BY <1>4 DEF IInv, RequestFails, WatchedIsNotPosted
    <2> QED
        BY <2>2, <2>3, <2>4 DEF IInv
<1>5. CASE PublishAgain
    <2>1. /\ pc' = Start /\ waited' = 0 /\ submittedAt' = -1
          /\ timely' = (row # "none") /\ sawFailure' = FALSE
          /\ UNCHANGED <<chainRegistered, row, lag, failures, faults>>
        BY <1>5 DEF PublishAgain, serviceVars
    <2>2. TypeOK'
        <3>1. pc' \in {"queue", "submit"}
            BY <2>1 DEF Start
        <3>2. waited' \in 0 .. CHAIN_ROW_GRACE
            BY <2>1
        <3>3. submittedAt' \in -1 .. RESUBMIT_GRACE
            BY <2>1
        <3> QED
            BY <2>1, <3>1, <3>2, <3>3 DEF IInv, TypeOK
    <2>3. pc' # "poll" /\ (chainRegistered' => pc' # "submit")
        BY <2>1 DEF Start
    <2> QED
        BY <2>1, <2>2, <2>3 DEF IInv, WatchedIsNotPosted
<1>6. CASE WatcherQueues
    BY <1>6 DEF IInv, WatcherQueues, TypeOK, WatchedIsNotPosted, clientVars
<1>7. CASE Extract
    BY <1>7 DEF IInv, Extract, TypeOK, WatchedIsNotPosted, clientVars
<1>8. CASE UNCHANGED vars
    BY <1>8 DEF IInv, TypeOK, WatchedIsNotPosted, vars, clientVars, serviceVars
<1> QED
    BY <1>1, <1>2, <1>3, <1>4, <1>5, <1>6, <1>7, <1>8 DEF Next, Client, Saved

THEOREM Inductive == Spec => []IInv
<1>1. Init => IInv
    BY InitIInv
<1>2. IInv /\ [Next]_vars => IInv'
    BY NextIInv
<1> QED
    BY <1>1, <1>2, PTL DEF Spec

\* Types of the client's and the service's state, with the graces and the lag
\* within their bounds.
THEOREM TypeCorrect == Spec => []TypeOK
<1>1. IInv => TypeOK
    BY DEF IInv
<1> QED
    BY <1>1, Inductive, PTL

\* public_key_service.js: a registered image that the watcher queued in time is
\* submitted again only after the service answered a failed extraction of it.
THEOREM WatchedNotPosted == Spec => []WatchedIsNotPosted
<1>1. IInv => WatchedIsNotPosted
    BY DEF IInv
<1> QED
    BY <1>1, Inductive, PTL

\* The step by which the client gives up is taken on a failed record.
LEMMA FailureStep ==
    IInv /\ [Next]_vars => (pc' = "failed" /\ pc # "failed" => row = "failed")
<1> SUFFICES ASSUME IInv, [Next]_vars, pc' = "failed", pc # "failed"
             PROVE  row = "failed"
    OBVIOUS
<1>1. CASE Queue
    <2>1. Answer \notin {"none", "failed"} /\ Decide(Answer)
        BY <1>1 DEF Queue
    <2> QED
        BY <1>1, <2>1, DecideLemma DEF IInv, Queue
<1>2. CASE Poll
    BY <1>2, DecideLemma DEF IInv, Poll
<1>3. CASE UNCHANGED vars
    BY <1>3 DEF vars, clientVars
<1>4. ~Submit /\ ~RequestFails /\ ~PublishAgain /\ ~WatcherQueues /\ ~Extract
    BY DEF Submit, RequestFails, PublishAgain, WatcherQueues, Extract,
           clientVars, Start
<1> QED
    BY <1>1, <1>2, <1>3, <1>4 DEF Next, Client, Saved

\* public_key_service.js: the publish gives up only on an extraction that has
\* failed, never on the answer about the one before its own submission, for
\* every grace that outlasts the service's lag.
THEOREM FailureReal == Spec => FailureIsReal
<1>1. IInv /\ [Next]_vars =>
          [pc' = "failed" /\ pc # "failed" => row = "failed"]_vars
    BY FailureStep
<1> QED
    BY <1>1, Inductive, PTL DEF Spec, FailureIsReal
=============================================================================
