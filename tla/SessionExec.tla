---------------------------- MODULE SessionExec ----------------------------
(***************************************************************************)
(* The interactive session executor, etny_session_exec.js.  The payload is *)
(* run once to create its context; then the session takes the inputs the   *)
(* trustedzone streams, in sequence, awaits the payload's handler for each *)
(* and pushes a numbered output that acknowledges it, until the running    *)
(* period ends, the trustedzone closes the session or the message cap is   *)
(* reached.                                                                *)
(*                                                                         *)
(* Three things run beside the session loop: the clock; the trustedzone,   *)
(* whose objects arrive through the node, data before signature and in any *)
(* order; and the handlers.  A handler that does not answer within its     *)
(* budget is abandoned, but nothing stops it.                              *)
(*                                                                         *)
(* A step ends where the code awaits.  Time is counted in units longer     *)
(* than the 2 s of the polling sleep, and reading an object (its data and  *)
(* its signature) is one step.                                             *)
(***************************************************************************)
EXTENDS Integers, Sequences, FiniteSets

CONSTANTS CloseAfter,      \* config.close_after_seconds
          InputCutoff,     \* config.input_cutoff_seconds
          ConfigMessages,  \* config.max_messages, 0 when it is not given
          DefaultMessages, \* 256 in the code
          HandlerGrace,    \* HANDLER_GRACE_MS
          TimerMax,        \* the longest delay of setTimeout, 2^31 - 1 ms
          ReadsFail,       \* TRUE: a request to the bucket may fail
          MaxSteps,        \* bound: times the clock is set back
          MaxTime,         \* bound: the clock is not followed any further
          MaxInputs        \* bound: inputs the trustedzone streams

ASSUME SessionAssumption ==
    /\ CloseAfter \in Nat /\ InputCutoff \in Nat
    /\ ConfigMessages \in Nat /\ DefaultMessages \in Nat
    /\ HandlerGrace \in Nat \ {0} /\ TimerMax \in Nat \ {0}
    /\ ReadsFail \in BOOLEAN
    /\ MaxSteps \in Nat /\ MaxInputs \in Nat
    /\ MaxTime \in Nat /\ MaxTime >= CloseAfter /\ MaxTime >= InputCutoff

Inputs == 0 .. MaxInputs - 1

VARIABLES
    \* The session.
    pc,          \* what the loop awaits
    now,         \* the clock as this round read it
    nextSeq,     \* the input that is due
    processed,   \* inputs handled with SUCCESS
    outputs,     \* the outputs pushed, in order: what each acknowledges
    unprocessed, \* inputs whose handler was abandoned
    reason,      \* why the session ended
    result,      \* what runSession returned
    ready,       \* session.ready as it was pushed
    \* The payload.
    handlerSet,  \* resolveSessionHandler(scope) is a function
    running,     \* inputs whose handler has not settled
    \* The environment.
    clock,       \* Date.now(), from the start of the session
    back,        \* by how much the clock was set back
    timer,       \* what remains of the current handler's budget
    inbox,       \* session.input.i.securelock and its signature
    control,     \* session.control.securelock and its signature
    arrived      \* history: the time an input's data arrived

sessionVars == <<now, nextSeq, processed, outputs, unprocessed, reason>>
endVars == <<result, ready>>
payloadVars == <<handlerSet, running>>
clockVars == <<clock, back>>
bucketVars == <<inbox, control, arrived>>
vars == <<pc, sessionVars, endVars, payloadVars, clockVars, timer, bucketVars>>

Labels == {"config", "setup", "top", "control", "input", "data", "handling",
           "sleep", "done"}
ObjectState == {"absent", "unsigned", "signed"}
Codes == {"SUCCESS", "SYSTEM_ERROR", "PAYLOAD_NOT_DEFINED"}
Reasons == {"RUNNING_PERIOD_COMPLETE", "CLOSED", "MESSAGE_CAP",
            "PAYLOAD_SETUP_FAILED"}

Init ==
    /\ pc = "config"
    /\ now = 0 /\ nextSeq = 0 /\ processed = 0
    /\ outputs = <<>> /\ unprocessed = <<>>
    /\ reason = "RUNNING_PERIOD_COMPLETE"
    /\ result = "none" /\ ready = "none"
    /\ handlerSet = FALSE /\ running = {}
    /\ clock = 0 /\ back = 0 /\ timer = 0
    /\ inbox = [i \in Inputs |-> "absent"]
    /\ control = "absent"
    /\ arrived = [i \in Inputs |-> 0]

maxMessages == IF ConfigMessages = 0 THEN DefaultMessages ELSE ConfigMessages
Elapsed == clock + back

-----------------------------------------------------------------------------
(***************************************************************************)
(* The session loop.                                                       *)
(***************************************************************************)

\* runSession reads and verifies session.config.
LoadConfig ==
    /\ pc = "config"
    /\ \/ pc' = "setup" /\ UNCHANGED result
       \/ pc' = "done" /\ result' = "SYSTEM_ERROR"
    /\ UNCHANGED <<sessionVars, ready, payloadVars, clockVars, timer,
                   bucketVars>>

\* The payload's first run ends; readiness is announced with whether it left
\* a handler behind.
InitialRun(handler) ==
    /\ pc = "setup"
    /\ pc' = "top"
    /\ handlerSet' = handler
    /\ ready' = IF handler THEN "handler" ELSE "noHandler"
    /\ UNCHANGED <<sessionVars, result, running, clockVars, timer, bucketVars>>

\* The payload's first run fails: its code and its error are the result.
SetupFails ==
    /\ pc = "setup"
    /\ pc' = "done"
    /\ reason' = "PAYLOAD_SETUP_FAILED"
    /\ result' = "SETUP_ERROR"
    /\ UNCHANGED <<now, nextSeq, processed, outputs, unprocessed, ready,
                   payloadVars, clockVars, timer, bucketVars>>

\* The loop is left: the summary is returned with code SUCCESS.
Finish(why) ==
    /\ pc' = "done"
    /\ reason' = why
    /\ result' = "SUCCESS"

StaysOpen == UNCHANGED <<reason, result>>

\* A round begins: the clock is read once.
PeriodOverNever == FALSE
PeriodOver == clock >= CloseAfter
Top ==
    /\ pc = "top"
    /\ now' = clock
    /\ IF PeriodOver
       THEN Finish("RUNNING_PERIOD_COMPLETE")
       ELSE pc' = "control" /\ StaysOpen
    /\ UNCHANGED <<nextSeq, processed, outputs, unprocessed, ready,
                   payloadVars, clockVars, timer, bucketVars>>

\* closeRequested answered: only a signed control object counts, and a read
\* that fails counts as none.  Then the message cap.
ControlPresent == control # "absent"
CloseRequested == control = "signed"
CheckControl ==
    /\ pc = "control"
    /\ \/ CloseRequested /\ Finish("CLOSED")
       \/ /\ ~CloseRequested \/ ReadsFail
          /\ IF nextSeq >= maxMessages
             THEN Finish("MESSAGE_CAP")
             ELSE pc' = "input" /\ StaysOpen
    /\ UNCHANGED <<now, nextSeq, processed, outputs, unprocessed, ready,
                   payloadVars, clockVars, timer, bucketVars>>

Arrived(i) == i \in Inputs /\ inbox[i] # "absent"

\* isObjectInBucket answered for the next input; the cutoff is compared with
\* the clock as the round read it.
CheckInput ==
    /\ pc = "input"
    /\ \/ /\ ~Arrived(nextSeq) \/ ReadsFail
          /\ pc' = "sleep" /\ StaysOpen
       \/ /\ Arrived(nextSeq)
          /\ IF now >= InputCutoff
             THEN Finish("RUNNING_PERIOD_COMPLETE")
             ELSE pc' = "data" /\ StaysOpen
    /\ UNCHANGED <<now, nextSeq, processed, outputs, unprocessed, ready,
                   payloadVars, clockVars, timer, bucketVars>>

\* The input cannot be verified (yet): the round ends, the input stays due.
NotVerifiable ==
    /\ pc = "data"
    /\ inbox[nextSeq] # "signed" \/ ReadsFail
    /\ pc' = "sleep"
    /\ UNCHANGED <<sessionVars, endVars, payloadVars, clockVars, timer,
                   bucketVars>>

\* setTimeout turns a delay it cannot count into the shortest one.
SetTimeout(delay) == IF delay > TimerMax THEN 1 ELSE delay
Longer(a, b) == IF a > b THEN a ELSE b
BudgetOfGrace == SetTimeout(HandlerGrace)
BudgetToCutoff == SetTimeout(Longer(HandlerGrace, InputCutoff - clock))
Budget == SetTimeout(Longer(HandlerGrace, CloseAfter - clock))

\* An answer is pushed and the next input is due.
Answer(code) ==
    /\ outputs' = Append(outputs, [ack |-> nextSeq, code |-> code])
    /\ processed' = IF code = "SUCCESS" THEN processed + 1 ELSE processed
    /\ nextSeq' = nextSeq + 1
    /\ pc' = "top"

\* An input without a handler is answered with an error at once.
RejectInput ==
    /\ pc = "data"
    /\ inbox[nextSeq] = "signed"
    /\ ~handlerSet
    /\ Answer("PAYLOAD_NOT_DEFINED")
    /\ UNCHANGED <<now, unprocessed, reason, endVars, payloadVars, clockVars,
                   timer, bucketVars>>

\* The handler is called with the input, against its budget.
CallHandler ==
    /\ pc = "data"
    /\ inbox[nextSeq] = "signed"
    /\ handlerSet
    /\ pc' = "handling"
    /\ running' = running \cup {nextSeq}
    /\ timer' = Budget
    /\ UNCHANGED <<sessionVars, endVars, handlerSet, clockVars, bucketVars>>

\* The budget ran out first: the input is reported unprocessed.
Abandon ==
    /\ pc = "handling"
    /\ timer = 0
    /\ unprocessed' = Append(unprocessed, nextSeq)
    /\ nextSeq' = nextSeq + 1
    /\ pc' = "top"
    /\ UNCHANGED <<now, processed, outputs, reason, endVars, payloadVars,
                   clockVars, timer, bucketVars>>

Wake ==
    /\ pc = "sleep"
    /\ pc' = "top"
    /\ UNCHANGED <<sessionVars, endVars, payloadVars, clockVars, timer,
                   bucketVars>>

-----------------------------------------------------------------------------
(***************************************************************************)
(* The payload.                                                            *)
(***************************************************************************)

\* The handler the session waits for returns or throws.
Settle(code) ==
    /\ pc = "handling"
    /\ nextSeq \in running
    /\ running' = running \ {nextSeq}
    /\ Answer(code)
    /\ UNCHANGED <<now, unprocessed, reason, endVars, handlerSet, clockVars,
                   timer, bucketVars>>

\* A handler that was abandoned settles: nobody looks at the outcome.
LateSettleAnswers(i) ==
    /\ i \in running
    /\ pc = "handling" => i # nextSeq
    /\ running' = running \ {i}
    /\ outputs' = Append(outputs, [ack |-> i, code |-> "SUCCESS"])
    /\ UNCHANGED <<pc, now, nextSeq, processed, unprocessed, reason, endVars,
                   handlerSet, clockVars, timer, bucketVars>>
LateSettle(i) ==
    /\ i \in running
    /\ pc = "handling" => i # nextSeq
    /\ running' = running \ {i}
    /\ UNCHANGED <<pc, sessionVars, endVars, handlerSet, clockVars, timer,
                   bucketVars>>

\* Code of the payload that is still alive assigns the handler slot.
AssignHandler ==
    /\ pc \notin {"config", "setup", "done"}
    /\ handlerSet' = ~handlerSet
    /\ UNCHANGED <<pc, sessionVars, endVars, running, clockVars, timer,
                   bucketVars>>

-----------------------------------------------------------------------------
(***************************************************************************)
(* The clock, and the trustedzone through the node.                        *)
(***************************************************************************)

Tick ==
    /\ pc # "config"
    /\ clock' = IF clock < MaxTime THEN clock + 1 ELSE clock
    /\ timer' = IF timer > 0 THEN timer - 1 ELSE 0
    /\ UNCHANGED <<pc, sessionVars, endVars, payloadVars, back, bucketVars>>

\* Date.now() follows the host's wall clock; timers do not.
StepBack ==
    /\ pc # "config"
    /\ back < MaxSteps
    /\ clock > 0
    /\ clock' = clock - 1
    /\ back' = back + 1
    /\ UNCHANGED <<pc, sessionVars, endVars, payloadVars, timer, bucketVars>>

InputArrives(i) ==
    /\ \/ /\ inbox[i] = "absent"
          /\ inbox' = [inbox EXCEPT ![i] = "unsigned"]
          /\ arrived' = [arrived EXCEPT ![i] = Elapsed]
       \/ /\ inbox[i] = "unsigned"
          /\ inbox' = [inbox EXCEPT ![i] = "signed"]
          /\ UNCHANGED arrived
    /\ UNCHANGED <<pc, sessionVars, endVars, payloadVars, clockVars, timer,
                   control>>

CloseArrives ==
    /\ \/ control = "absent" /\ control' = "unsigned"
       \/ control = "unsigned" /\ control' = "signed"
    /\ UNCHANGED <<pc, sessionVars, endVars, payloadVars, clockVars, timer,
                   inbox, arrived>>

-----------------------------------------------------------------------------
\* What the loop does by itself once an await ends.
LoopStep ==
    \/ LoadConfig \/ Top \/ CheckControl \/ CheckInput \/ NotVerifiable
    \/ RejectInput \/ CallHandler \/ Abandon \/ Wake

Payload ==
    \/ \E handler \in BOOLEAN : InitialRun(handler)
    \/ SetupFails
    \/ \E code \in {"SUCCESS", "SYSTEM_ERROR"} : Settle(code)
    \/ \E i \in Inputs : LateSettle(i)
    \/ AssignHandler

Environment ==
    \/ Tick
    \/ StepBack
    \/ \E i \in Inputs : InputArrives(i)
    \/ CloseArrives

Next == LoopStep \/ Payload \/ Environment

Spec == Init /\ [][Next]_vars

\* Awaits of the bucket end and time passes; no handler owes an answer.
FairSpec == Spec /\ WF_vars(LoopStep) /\ WF_vars(Tick)

-----------------------------------------------------------------------------
(***************************************************************************)
(* Properties.                                                             *)
(***************************************************************************)

Output == [ack: Nat, code: Codes]

\* The locals of the session, its objects and the clock keep their types.
TypeOK ==
    /\ pc \in Labels
    /\ now \in Nat /\ nextSeq \in Nat /\ processed \in Nat
    /\ outputs \in Seq(Output)
    /\ unprocessed \in Seq(Nat)
    /\ reason \in Reasons
    /\ result \in {"none", "SUCCESS", "SETUP_ERROR", "SYSTEM_ERROR"}
    /\ ready \in {"none", "handler", "noHandler"}
    /\ handlerSet \in BOOLEAN /\ running \subseteq Nat
    /\ clock \in Nat /\ back \in Nat /\ timer \in Nat
    /\ inbox \in [Inputs -> ObjectState]
    /\ control \in ObjectState
    /\ arrived \in [Inputs -> Nat]

\* Every input the session has gone past was answered once or reported
\* unprocessed once, never both, and the answers are in the inputs' order,
\* also when a handler settles just as, or after, it is abandoned (run()).
AnsweredOnceInOrder ==
    /\ \A m, n \in 1 .. Len(outputs) : m < n => outputs[m].ack < outputs[n].ack
    /\ \A i \in 0 .. nextSeq - 1 :
          (\E n \in 1 .. Len(outputs) : outputs[n].ack = i)
            <=> ~(\E n \in 1 .. Len(unprocessed) : unprocessed[n] = i)
    /\ Len(outputs) + Len(unprocessed) = nextSeq

\* Unless the host sets its clock back, an input is abandoned only when the
\* running period is over, and nothing is taken after it: no input in the
\* middle of a session is lost to a handler that hangs (handle(), the budget).
AbandonedIsLast ==
    back = 0 /\ Len(unprocessed) > 0 =>
        /\ unprocessed = <<nextSeq - 1>>
        /\ clock >= CloseAfter

\* Nor do two handlers of a session then run at the same time, although one
\* that is abandoned is never stopped: what they share needs no lock.
HandlersDoNotOverlap == back = 0 => \A i, j \in running : i = j

\* The summary says what happened: the reason it gives held, and it counts as
\* processed what was answered with SUCCESS (run(), the summary).
SummaryTruthful ==
    result = "SUCCESS" =>
        /\ reason = "CLOSED" => control = "signed"
        /\ reason = "MESSAGE_CAP" => nextSeq = maxMessages
        /\ reason = "RUNNING_PERIOD_COMPLETE" =>
              Elapsed >= CloseAfter \/ Elapsed >= InputCutoff
        /\ processed = Cardinality({n \in 1 .. Len(outputs) :
                                       outputs[n].code = "SUCCESS"})

\* An input that is delivered past the cutoff is not consumed (run(), the
\* comment at the cutoff: "we only stop consuming").
LateInputNotTaken ==
    \A i \in Inputs : i < nextSeq => arrived[i] < InputCutoff

\* Once the payload's first run has ended the session ends, whatever hangs.
SessionEnds == pc = "top" ~> pc = "done"
=============================================================================
