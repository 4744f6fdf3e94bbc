----------------------------- MODULE CertClient -----------------------------
(***************************************************************************)
(* The publish's client of the certificate extraction service,             *)
(* public_key_service.js, with the service as the client's comments and    *)
(* calls describe it.  Time is counted in polls of POLL_SECONDS.           *)
(*                                                                         *)
(* The service keeps one record of the image.  Its registry watcher queues *)
(* an image registered on chain, at some time or never; a submission runs  *)
(* a failed extraction again, and for a moment after it the old record is  *)
(* still answered.  A user whose publish ended publishes again.            *)
(***************************************************************************)
EXTENDS Integers

CONSTANTS CHAIN_ROW_GRACE, \* CHAIN_ROW_GRACE_SECONDS, in polls
          RESUBMIT_GRACE,  \* RESUBMIT_GRACE_SECONDS, in polls
          AnswerLag,       \* how long the service may answer the old record
          MaxSleep,        \* bound: how late a poll may come
          MaxFailures,     \* bound: extractions that fail
          MaxFaults        \* bound: requests that fail

\* The resubmission grace is there to outlast the service's lag.
ASSUME CertAssumption ==
    /\ CHAIN_ROW_GRACE \in Nat \ {0} /\ RESUBMIT_GRACE \in Nat \ {0}
    /\ AnswerLag \in 0 .. RESUBMIT_GRACE
    /\ MaxSleep \in Nat \ {0}
    /\ MaxFailures \in Nat /\ MaxFaults \in Nat

VARIABLES
    chainRegistered, \* --chain-registered
    pc,              \* the client's next request, or how it ended
    waited,          \* polls since the client started, up to the grace
    submittedAt,     \* polls since it submitted, up to the grace; -1: not
    row,             \* the service's record of the image
    lag,             \* for how long it still answers a failed record
    timely,          \* history: a row was there while the client waited for it
    sawFailure,      \* history: this publish was answered a failed record
    failures, faults

clientVars == <<pc, waited, submittedAt>>
serviceVars == <<row, lag>>
vars == <<chainRegistered, clientVars, serviceVars, timely, sawFailure,
          failures, faults>>

Ended == {"saved", "failed", "error"}

\* Where main starts: an image that is not on chain is submitted at once.
Start == IF chainRegistered THEN "queue" ELSE "submit"

Init ==
    /\ chainRegistered \in BOOLEAN
    /\ pc = Start /\ waited = 0 /\ submittedAt = -1
    /\ row = "none" /\ lag = 0
    /\ timely = FALSE /\ sawFailure = FALSE
    /\ failures = 0 /\ faults = 0

-----------------------------------------------------------------------------
(***************************************************************************)
(* The client.                                                             *)
(***************************************************************************)

\* checkIpfsHashStatus: the record, "none" for a 404.
Answer == IF lag > 0 THEN "failed" ELSE row

UpTo(n, bound) == IF n < bound THEN n ELSE bound

\* A sleep between two polls; time passes for the service too.
sleep ==
    \E t \in 1 .. MaxSleep :
        /\ waited' = UpTo(waited + t, CHAIN_ROW_GRACE)
        /\ submittedAt' = IF submittedAt = -1 THEN -1
                          ELSE UpTo(submittedAt + t, RESUBMIT_GRACE)
        /\ lag' = IF lag > t THEN lag - t ELSE 0

\* Mutant: a failed record is taken as the outcome at once.
StillPreviousNever == FALSE

\* A failed record right after this publish's submission is the old one.
StillPrevious == submittedAt # -1 /\ submittedAt < RESUBMIT_GRACE

\* One turn of main's loop with the service's answer.
Decide(answer) ==
    \/ /\ answer \in {"none", "queued", "running"}
       /\ pc' = "poll" /\ sleep
    \/ /\ answer = "failed" /\ StillPrevious
       /\ pc' = "poll" /\ sleep
    \/ /\ answer = "failed" /\ ~StillPrevious
       /\ pc' = "failed" /\ UNCHANGED <<waited, submittedAt, lag>>
    \/ /\ answer = "done"
       /\ pc' = "saved" /\ UNCHANGED <<waited, submittedAt, lag>>

Saw(answer) == sawFailure' = (sawFailure \/ answer = "failed")

\* Mutant: the deadline is looked at before the answer.
QueueDeadlineFirst ==
    /\ pc = "queue"
    /\ Saw(IF waited >= CHAIN_ROW_GRACE THEN "none" ELSE Answer)
    /\ \/ /\ waited >= CHAIN_ROW_GRACE \/ Answer = "failed"
          /\ pc' = "submit" /\ UNCHANGED <<waited, submittedAt, lag>>
       \/ /\ waited < CHAIN_ROW_GRACE /\ Answer \notin {"none", "failed"}
          /\ Decide(Answer)
       \/ /\ Answer = "none" /\ waited < CHAIN_ROW_GRACE
          /\ pc' = "queue" /\ sleep
    /\ UNCHANGED <<chainRegistered, row, timely, failures, faults>>

\* Mutant: a failed record is an answer like any other.
QueueTakesFailure ==
    /\ pc = "queue"
    /\ Saw(Answer)
    /\ \/ /\ Answer # "none"
          /\ Decide(Answer)
       \/ /\ Answer = "none" /\ waited >= CHAIN_ROW_GRACE
          /\ pc' = "submit" /\ UNCHANGED <<waited, submittedAt, lag>>
       \/ /\ Answer = "none" /\ waited < CHAIN_ROW_GRACE
          /\ pc' = "queue" /\ sleep
    /\ UNCHANGED <<chainRegistered, row, timely, failures, faults>>

\* The loop of queueImage: wait for the watcher's row.
Queue ==
    /\ pc = "queue"
    /\ Saw(Answer)
    /\ \/ /\ \/ Answer = "failed"
             \/ Answer = "none" /\ waited >= CHAIN_ROW_GRACE
          /\ pc' = "submit" /\ UNCHANGED <<waited, submittedAt, lag>>
       \/ /\ Answer \notin {"none", "failed"}
          /\ Decide(Answer)
       \/ /\ Answer = "none" /\ waited < CHAIN_ROW_GRACE
          /\ pc' = "queue" /\ sleep
    /\ UNCHANGED <<chainRegistered, row, timely, failures, faults>>

\* /api/addHash at the service: an image it does not know, or one whose
\* extraction failed, is queued.
Queued ==
    IF row \in {"none", "failed"}
    THEN /\ row' = "queued"
         /\ IF row = "failed" THEN lag' \in 0 .. AnswerLag ELSE lag' = 0
    ELSE UNCHANGED serviceVars

Submit ==
    /\ pc = "submit"
    /\ Queued
    /\ pc' = "poll" /\ submittedAt' = 0
    /\ UNCHANGED <<chainRegistered, waited, timely, sawFailure, failures,
                   faults>>

Poll ==
    /\ pc = "poll"
    /\ Decide(Answer)
    /\ Saw(Answer)
    /\ UNCHANGED <<chainRegistered, row, timely, failures, faults>>

\* Any error but a 404 ends the client; a submission may have taken effect.
RequestFails ==
    /\ pc \notin Ended
    /\ faults < MaxFaults /\ faults' = faults + 1
    /\ \/ UNCHANGED serviceVars
       \/ pc = "submit" /\ Queued
    /\ pc' = "error"
    /\ UNCHANGED <<chainRegistered, waited, submittedAt, timely, sawFailure,
                   failures>>

\* run.js ends with the client's failure; its user publishes again.
PublishAgain ==
    /\ pc \in {"failed", "error"}
    /\ pc' = Start /\ waited' = 0 /\ submittedAt' = -1
    /\ timely' = (row # "none") /\ sawFailure' = FALSE
    /\ UNCHANGED <<chainRegistered, serviceVars, failures, faults>>

-----------------------------------------------------------------------------
(***************************************************************************)
(* The service.                                                            *)
(***************************************************************************)
WatcherQueues ==
    /\ chainRegistered /\ row = "none"
    /\ row' = "queued"
    /\ timely' = (timely \/ pc = "queue")
    /\ UNCHANGED <<chainRegistered, clientVars, lag, sawFailure, failures,
                   faults>>

Extract ==
    /\ \/ row = "queued" /\ row' = "running" /\ UNCHANGED failures
       \/ row = "running" /\ row' = "done" /\ UNCHANGED failures
       \/ /\ row = "running" /\ row' = "failed"
          /\ failures < MaxFailures /\ failures' = failures + 1
    /\ UNCHANGED <<chainRegistered, clientVars, lag, timely, sawFailure,
                   faults>>

\* The certificate is saved; nothing more happens.
Saved == pc = "saved" /\ UNCHANGED vars

Client == Queue \/ Submit \/ Poll

Next ==
    Client \/ RequestFails \/ PublishAgain \/ WatcherQueues \/ Extract \/ Saved

Spec == Init /\ [][Next]_vars

\* The client polls on, its user publishes again, and the service ends every
\* extraction it was given.  The watcher is owed nothing.
FairSpec == Spec /\ WF_vars(Client) /\ WF_vars(PublishAgain) /\ WF_vars(Extract)

-----------------------------------------------------------------------------
TypeOK ==
    /\ chainRegistered \in BOOLEAN
    /\ pc \in {"queue", "submit", "poll"} \cup Ended
    /\ waited \in 0 .. CHAIN_ROW_GRACE
    /\ submittedAt \in -1 .. RESUBMIT_GRACE
    /\ row \in {"none", "queued", "running", "failed", "done"}
    /\ lag \in 0 .. AnswerLag
    /\ timely \in BOOLEAN /\ sawFailure \in BOOLEAN
    /\ failures \in 0 .. MaxFailures /\ faults \in 0 .. MaxFaults

\* The client takes a failed record as the outcome only when the extraction
\* it waits for has failed, never from the record of the run before its own
\* submission, however late its polls come.
FailureIsReal == [][pc' = "failed" /\ pc # "failed" => row = "failed"]_vars

\* A registered image that the watcher queued before the client's last look is
\* not submitted again unless the service answered a failed extraction of it.
WatchedIsNotPosted ==
    chainRegistered /\ timely /\ submittedAt # -1 => sawFailure

\* Publishing again ends with the certificate: a failed extraction is run
\* again, and a row that the watcher never queues is submitted.
EventuallySaved == <>(pc = "saved")
=============================================================================
