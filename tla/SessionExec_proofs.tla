------------------------- MODULE SessionExec_proofs -------------------------
(***************************************************************************)
(* What TLAPS proves of SessionExec, for every value of its constants.     *)
(***************************************************************************)
EXTENDS SessionExec, FiniteSetTheorems, TLAPS

(***************************************************************************)
(* Type correctness.                                                       *)
(***************************************************************************)

\* A delay the session asks for is a natural number, as the budget is never
\* shorter than the grace period.
LEMMA BudgetType ==
  ASSUME clock \in Nat
  PROVE  Budget \in Nat /\ Budget > 0
  BY SessionAssumption DEF Budget, SetTimeout, Longer

LEMMA AnswerType ==
  ASSUME TypeOK, NEW code \in Codes, Answer(code)
  PROVE  /\ outputs' \in Seq(Output)
         /\ processed' \in Nat /\ nextSeq' \in Nat /\ pc' \in Labels
  BY DEF TypeOK, Answer, Output, Labels

\* The session loop keeps the types.
LEMMA LoopType == TypeOK /\ LoopStep => TypeOK'
  <1> SUFFICES ASSUME TypeOK, LoopStep PROVE TypeOK'
    OBVIOUS
  <1> USE DEF sessionVars, endVars, payloadVars, clockVars, bucketVars, Labels,
              Reasons
  <1>1. CASE LoadConfig
    BY <1>1 DEF TypeOK, LoadConfig
  <1>2. CASE Top
    BY <1>2 DEF TypeOK, Top, Finish, StaysOpen
  <1>3. CASE CheckControl
    BY <1>3 DEF TypeOK, CheckControl, Finish, StaysOpen
  <1>4. CASE CheckInput
    BY <1>4 DEF TypeOK, CheckInput, Finish, StaysOpen
  <1>5. CASE NotVerifiable
    BY <1>5 DEF TypeOK, NotVerifiable
  <1>6. CASE RejectInput
    <2>1. Answer("PAYLOAD_NOT_DEFINED")
      BY <1>6 DEF RejectInput
    <2>2. QED BY <1>6, <2>1, AnswerType DEF TypeOK, RejectInput, Codes
  <1>7. CASE CallHandler
    BY <1>7, BudgetType DEF TypeOK, CallHandler
  <1>8. CASE Abandon
    BY <1>8 DEF TypeOK, Abandon
  <1>9. CASE Wake
    BY <1>9 DEF TypeOK, Wake
  <1>10. QED BY <1>1, <1>2, <1>3, <1>4, <1>5, <1>6, <1>7, <1>8, <1>9 DEF LoopStep

\* So do the payload's own steps.
LEMMA PayloadType == TypeOK /\ Payload => TypeOK'
  <1> SUFFICES ASSUME TypeOK, Payload PROVE TypeOK'
    OBVIOUS
  <1> USE DEF sessionVars, endVars, payloadVars, clockVars, bucketVars, Labels,
              Reasons
  <1>1. ASSUME NEW handler \in BOOLEAN, InitialRun(handler) PROVE TypeOK'
    BY <1>1 DEF TypeOK, InitialRun
  <1>2. CASE SetupFails
    BY <1>2 DEF TypeOK, SetupFails
  <1>3. ASSUME NEW code \in {"SUCCESS", "SYSTEM_ERROR"}, Settle(code)
        PROVE  TypeOK'
    <2>1. Answer(code) /\ code \in Codes
      BY <1>3 DEF Settle, Codes
    <2>2. QED BY <1>3, <2>1, AnswerType DEF TypeOK, Settle
  <1>4. ASSUME NEW i \in Inputs, LateSettle(i) PROVE TypeOK'
    BY <1>4 DEF TypeOK, LateSettle
  <1>5. CASE AssignHandler
    BY <1>5 DEF TypeOK, AssignHandler
  <1>6. QED BY <1>1, <1>2, <1>3, <1>4, <1>5 DEF Payload

\* And the clock and the node.
LEMMA EnvironmentType == TypeOK /\ Environment => TypeOK'
  <1> SUFFICES ASSUME TypeOK, Environment PROVE TypeOK'
    OBVIOUS
  <1> USE DEF sessionVars, endVars, payloadVars, clockVars, bucketVars
  <1>1. CASE Tick
    BY <1>1 DEF TypeOK, Tick
  <1>2. CASE StepBack
    BY <1>2 DEF TypeOK, StepBack
  <1>3. ASSUME NEW i \in Inputs, InputArrives(i) PROVE TypeOK'
    <2>1. inbox' \in [Inputs -> ObjectState]
      BY <1>3 DEF TypeOK, InputArrives, ObjectState
    <2>2. clock + back \in Nat
      BY DEF TypeOK
    <2>3. arrived' \in [Inputs -> Nat]
      BY <1>3, <2>2 DEF TypeOK, InputArrives, Elapsed
    <2>4. UNCHANGED <<pc, sessionVars, endVars, payloadVars, clockVars, timer,
                      control>>
      BY <1>3 DEF InputArrives
    <2>5. QED BY <2>1, <2>3, <2>4 DEF TypeOK
  <1>4. CASE CloseArrives
    BY <1>4 DEF TypeOK, CloseArrives, ObjectState
  <1>5. QED BY <1>1, <1>2, <1>3, <1>4 DEF Environment

\* Every variable of the session executor keeps its type.
THEOREM SessionTypeCorrect == Spec => []TypeOK
  <1>1. Init => TypeOK
    <2> SUFFICES ASSUME Init PROVE TypeOK
      OBVIOUS
    <2>1. inbox \in [Inputs -> ObjectState] /\ arrived \in [Inputs -> Nat]
          /\ control \in ObjectState
      BY DEF Init, ObjectState
    <2>2. outputs \in Seq(Output) /\ unprocessed \in Seq(Nat)
      BY DEF Init
    <2>3. QED BY <2>1, <2>2 DEF Init, TypeOK, Labels, Reasons
  <1>2. TypeOK /\ [Next]_vars => TypeOK'
    <2> SUFFICES ASSUME TypeOK, [Next]_vars PROVE TypeOK'
      OBVIOUS
    <2>1. CASE Next
      BY <2>1, LoopType, PayloadType, EnvironmentType DEF Next
    <2>2. CASE UNCHANGED vars
      BY <2>2 DEF TypeOK, vars, sessionVars, endVars, payloadVars, clockVars,
         bucketVars
    <2>3. QED BY <2>1, <2>2
  <1>3. QED BY <1>1, <1>2, PTL DEF Spec

-----------------------------------------------------------------------------
(***************************************************************************)
(* Every input is answered or reported, once.                              *)
(***************************************************************************)

\* Nothing that is not due yet is answered or reported: with it the property
\* is inductive.
AnswersInv ==
    /\ AnsweredOnceInOrder
    /\ \A n \in 1 .. Len(outputs) : outputs[n].ack < nextSeq
    /\ \A n \in 1 .. Len(unprocessed) : unprocessed[n] < nextSeq

\* A step that touches neither the answers nor the input that is due.
AnswersKept == UNCHANGED <<outputs, unprocessed, nextSeq>>

LEMMA KeptAnswers == AnswersInv /\ AnswersKept => AnswersInv'
  BY DEF AnswersInv, AnswersKept, AnsweredOnceInOrder

LEMMA AppendFacts ==
  ASSUME NEW S, NEW s \in Seq(S), NEW e \in S
  PROVE  /\ Len(s) \in Nat
         /\ Len(Append(s, e)) = Len(s) + 1
         /\ Append(s, e)[Len(s) + 1] = e
         /\ \A n \in 1 .. Len(s) : s[n] \in S /\ Append(s, e)[n] = s[n]
  OBVIOUS

\* An answer is pushed for the input that is due.
LEMMA AnswerAnswers ==
  ASSUME TypeOK, AnswersInv, NEW code \in Codes, Answer(code),
         UNCHANGED unprocessed
  PROVE  AnswersInv'
  <1> DEFINE last == Len(outputs) + 1
  <1>1. /\ Len(outputs') = last /\ nextSeq' = nextSeq + 1
        /\ outputs'[last].ack = nextSeq
        /\ \A n \in 1 .. Len(outputs) : outputs'[n] = outputs[n]
        /\ Len(outputs) \in Nat /\ Len(unprocessed) \in Nat /\ nextSeq \in Nat
        /\ \A n \in 1 .. Len(outputs) : outputs[n].ack \in Nat
        /\ \A n \in 1 .. Len(unprocessed) : unprocessed[n] \in Nat
    <2> DEFINE e == [ack |-> nextSeq, code |-> code]
    <2>1. outputs \in Seq(Output) /\ unprocessed \in Seq(Nat) /\ nextSeq \in Nat
      BY DEF TypeOK
    <2>2. e \in Output /\ e.ack = nextSeq
      BY <2>1 DEF Output
    <2>3. outputs' = Append(outputs, e) /\ nextSeq' = nextSeq + 1
      BY DEF Answer
    <2>4. \A n \in 1 .. Len(outputs) : outputs[n] \in Output
      BY <2>1, <2>2, AppendFacts
    <2>5. \A n \in 1 .. Len(outputs) : outputs[n].ack \in Nat
      BY <2>4 DEF Output
    <2>6. Len(unprocessed) \in Nat
          /\ \A n \in 1 .. Len(unprocessed) : unprocessed[n] \in Nat
      BY <2>1
    <2> HIDE DEF e
    <2>7. Len(outputs) \in Nat /\ Len(outputs') = last /\ outputs'[last] = e
          /\ \A n \in 1 .. Len(outputs) : outputs'[n] = outputs[n]
      BY <2>1, <2>2, <2>3, AppendFacts
    <2>8. QED BY <2>1, <2>2, <2>3, <2>5, <2>6, <2>7
  <1>2. /\ \A n \in 1 .. Len(outputs) : outputs[n].ack < nextSeq
        /\ \A n \in 1 .. Len(unprocessed) : unprocessed[n] < nextSeq
        /\ \A m, n \in 1 .. Len(outputs) :
              m < n => outputs[m].ack < outputs[n].ack
        /\ Len(outputs) + Len(unprocessed) = nextSeq
        /\ unprocessed' = unprocessed
    BY DEF AnswersInv, AnsweredOnceInOrder
  <1>3. \A m, n \in 1 .. last : m < n => outputs'[m].ack < outputs'[n].ack
    <2> SUFFICES ASSUME NEW m \in 1 .. last, NEW n \in 1 .. last, m < n
                 PROVE  outputs'[m].ack < outputs'[n].ack
      OBVIOUS
    <2>1. m \in 1 .. Len(outputs) /\ outputs'[m] = outputs[m]
      BY <1>1, <1>2
    <2>2. CASE n = last
      BY <1>1, <1>2, <2>1, <2>2
    <2>3. CASE n # last
      <3>1. n \in 1 .. Len(outputs) /\ outputs'[n] = outputs[n]
        BY <1>1, <1>2, <2>3
      <3>2. outputs[m].ack < outputs[n].ack
        BY <1>2, <2>1, <3>1
      <3>3. QED BY <2>1, <3>1, <3>2
    <2>4. QED BY <2>2, <2>3
  <1>4. ASSUME NEW i \in 0 .. nextSeq
        PROVE  (\E n \in 1 .. last : outputs'[n].ack = i)
                  <=> ~(\E n \in 1 .. Len(unprocessed) : unprocessed[n] = i)
    <2>1. CASE i = nextSeq
      BY <1>1, <1>2, <2>1 DEF AnswersInv
    <2>2. CASE i # nextSeq
      <3>1. i \in 0 .. nextSeq - 1
        BY <1>1, <1>2, <2>2
      <3>2. (\E n \in 1 .. last : outputs'[n].ack = i)
              => (\E n \in 1 .. Len(outputs) : outputs[n].ack = i)
        <4> SUFFICES ASSUME NEW n \in 1 .. last, outputs'[n].ack = i
                     PROVE  \E q \in 1 .. Len(outputs) : outputs[q].ack = i
          OBVIOUS
        <4>1. n # last
          BY <1>1, <1>2, <2>2
        <4>2. n \in 1 .. Len(outputs) /\ outputs'[n] = outputs[n]
          BY <1>1, <1>2, <4>1
        <4>3. QED BY <4>2
      <3>4. (\E n \in 1 .. Len(outputs) : outputs[n].ack = i)
              => (\E n \in 1 .. last : outputs'[n].ack = i)
        BY <1>1, <1>2
      <3>3. QED BY <3>1, <3>2, <3>4 DEF AnswersInv, AnsweredOnceInOrder
    <2>3. QED BY <2>1, <2>2
  <1>5. Len(outputs') + Len(unprocessed') = nextSeq'
    <2>1. Len(unprocessed') = Len(unprocessed)
      BY <1>2
    <2>2. /\ Len(outputs') = Len(outputs) + 1 /\ nextSeq' = nextSeq + 1
          /\ Len(outputs) \in Nat /\ Len(unprocessed) \in Nat
          /\ nextSeq \in Nat
      BY <1>1
    <2>3. Len(outputs) + Len(unprocessed) = nextSeq
      BY <1>2
    <2>4. QED BY <2>1, <2>2, <2>3
  <1>6. \A n \in 1 .. last : outputs'[n].ack < nextSeq'
    <2> SUFFICES ASSUME NEW n \in 1 .. last PROVE outputs'[n].ack < nextSeq'
      OBVIOUS
    <2>1. CASE n = last
      BY <1>1, <1>2, <2>1
    <2>2. CASE n # last
      <3>1. n \in 1 .. Len(outputs)
        BY <1>1, <1>2, <2>2
      <3>2. outputs'[n] = outputs[n] /\ outputs[n].ack \in Nat
            /\ outputs[n].ack < nextSeq
        BY <1>1, <1>2, <3>1
      <3>3. QED BY <1>1, <1>2, <3>2
    <2>3. QED BY <2>1, <2>2
  <1>7. \A n \in 1 .. Len(unprocessed') : unprocessed'[n] < nextSeq'
    BY <1>1, <1>2
  <1>8. 0 .. nextSeq' - 1 = 0 .. nextSeq
    BY <1>1, <1>2
  <1>9. QED BY <1>1, <1>3, <1>4, <1>5, <1>6, <1>7, <1>8
            DEF AnswersInv, AnsweredOnceInOrder

\* The input that is due is reported unprocessed.
LEMMA AbandonAnswers ==
  ASSUME TypeOK, AnswersInv, Abandon
  PROVE  AnswersInv'
  <1> DEFINE last == Len(unprocessed) + 1
  <1>1. /\ Len(unprocessed') = last /\ nextSeq' = nextSeq + 1
        /\ unprocessed'[last] = nextSeq /\ outputs' = outputs
        /\ \A n \in 1 .. Len(unprocessed) : unprocessed'[n] = unprocessed[n]
        /\ Len(outputs) \in Nat /\ Len(unprocessed) \in Nat /\ nextSeq \in Nat
        /\ \A n \in 1 .. Len(outputs) : outputs[n].ack \in Nat
        /\ \A n \in 1 .. Len(unprocessed) : unprocessed[n] \in Nat
    <2>1. outputs \in Seq(Output) /\ unprocessed \in Seq(Nat) /\ nextSeq \in Nat
      BY DEF TypeOK
    <2>2. \A n \in 1 .. Len(outputs) : outputs[n].ack \in Nat
      <3>1. \A n \in 1 .. Len(outputs) : outputs[n] \in Output
        BY <2>1
      <3>2. QED BY <3>1 DEF Output
    <2>3. unprocessed' = Append(unprocessed, nextSeq) /\ nextSeq' = nextSeq + 1
          /\ outputs' = outputs
      BY DEF Abandon
    <2>4. Len(outputs) \in Nat
      BY <2>1
    <2>5. QED BY <2>1, <2>2, <2>3, <2>4, AppendFacts
  <1>2. /\ \A n \in 1 .. Len(outputs) : outputs[n].ack < nextSeq
        /\ \A n \in 1 .. Len(unprocessed) : unprocessed[n] < nextSeq
        /\ Len(outputs) + Len(unprocessed) = nextSeq
    BY DEF AnswersInv, AnsweredOnceInOrder
  <1>3. ASSUME NEW i \in 0 .. nextSeq
        PROVE  (\E n \in 1 .. Len(outputs) : outputs[n].ack = i)
                  <=> ~(\E n \in 1 .. last : unprocessed'[n] = i)
    <2>1. CASE i = nextSeq
      <3>1. \A n \in 1 .. Len(outputs) : outputs[n].ack # i
        BY <1>1, <1>2, <2>1
      <3>2. last \in 1 .. last
        BY <1>1, <1>2
      <3>3. QED BY <1>1, <1>2, <2>1, <3>1, <3>2
    <2>2. CASE i # nextSeq
      <3>1. i \in 0 .. nextSeq - 1
        BY <1>1, <1>2, <2>2
      <3>2. (\E n \in 1 .. last : unprocessed'[n] = i)
              <=> (\E n \in 1 .. Len(unprocessed) : unprocessed[n] = i)
        BY <1>1, <1>2, <2>2
      <3>3. QED BY <3>1, <3>2 DEF AnswersInv, AnsweredOnceInOrder
    <2>3. QED BY <2>1, <2>2
  <1>4. Len(outputs') + Len(unprocessed') = nextSeq'
    <2>1. Len(outputs') = Len(outputs)
      BY <1>1
    <2>2. QED BY <1>1, <1>2, <2>1
  <1>5. \A n \in 1 .. last : unprocessed'[n] < nextSeq'
    BY <1>1, <1>2 DEF AnswersInv
  <1>6. \A n \in 1 .. Len(outputs') : outputs'[n].ack < nextSeq'
    BY <1>1, <1>2 DEF AnswersInv
  <1>7. 0 .. nextSeq' - 1 = 0 .. nextSeq
    BY <1>1, <1>2
  <1>8. \A m, n \in 1 .. Len(outputs') : m < n => outputs'[m].ack < outputs'[n].ack
    BY <1>1, <1>2 DEF AnswersInv, AnsweredOnceInOrder
  <1>9. QED BY <1>1, <1>3, <1>4, <1>5, <1>6, <1>7, <1>8
            DEF AnswersInv, AnsweredOnceInOrder

LEMMA StepAnswers == TypeOK /\ AnswersInv /\ [Next]_vars => AnswersInv'
  <1> SUFFICES ASSUME TypeOK, AnswersInv, [Next]_vars PROVE AnswersInv'
    OBVIOUS
  <1>1. CASE RejectInput
    BY <1>1, AnswerAnswers DEF RejectInput, Codes
  <1>2. CASE Abandon
    BY <1>2, AbandonAnswers
  <1>3. ASSUME NEW code \in {"SUCCESS", "SYSTEM_ERROR"}, Settle(code)
        PROVE  AnswersInv'
    BY <1>3, AnswerAnswers DEF Settle, Codes
  <1>4. CASE LoopStep
    <2>1. CASE LoadConfig \/ Top \/ CheckControl \/ CheckInput \/ NotVerifiable
               \/ CallHandler \/ Wake
      <3>1. AnswersKept
        BY <2>1 DEF LoadConfig, Top, CheckControl, CheckInput, NotVerifiable,
           CallHandler, Wake, AnswersKept, sessionVars
      <3>2. QED BY <3>1, KeptAnswers
    <2>2. QED BY <1>1, <1>2, <1>4, <2>1 DEF LoopStep
  <1>5. CASE Payload
    <2>1. CASE \/ \E handler \in BOOLEAN : InitialRun(handler)
               \/ SetupFails
               \/ \E i \in Inputs : LateSettle(i)
               \/ AssignHandler
      <3>1. AnswersKept
        BY <2>1 DEF InitialRun, SetupFails, LateSettle, AssignHandler,
           AnswersKept, sessionVars
      <3>2. QED BY <3>1, KeptAnswers
    <2>2. QED BY <1>3, <1>5, <2>1 DEF Payload
  <1>6. CASE Environment \/ UNCHANGED vars
    <2>1. AnswersKept
      BY <1>6 DEF Environment, Tick, StepBack, InputArrives, CloseArrives, vars,
         AnswersKept, sessionVars
    <2>2. QED BY <2>1, KeptAnswers
  <1>7. QED BY <1>4, <1>5, <1>6 DEF Next

\* Every input is answered once or reported once, in order, whatever hangs
\* and whenever it settles (run(), handle()).
THEOREM InputsAnsweredOnce == Spec => []AnsweredOnceInOrder
  <1>1. Init => AnswersInv
    BY DEF Init, AnswersInv, AnsweredOnceInOrder
  <1>2. AnswersInv => AnsweredOnceInOrder
    BY DEF AnswersInv
  <1>3. QED BY <1>1, <1>2, SessionTypeCorrect, StepAnswers, PTL DEF Spec

-----------------------------------------------------------------------------
(***************************************************************************)
(* An abandoned handler is the last one.                                   *)
(***************************************************************************)

(***************************************************************************)
(* The delays the session asks for are within what setTimeout can count:   *)
(* a running period of less than 24 days.                                  *)
(***************************************************************************)
Countable == CloseAfter <= TimerMax /\ HandlerGrace <= TimerMax

\* While the clock only advances, the budget reaches to the end of the running
\* period; so a handler is abandoned after it, and the next round is the last.
HandlerInv ==
    back = 0 =>
        /\ pc = "handling" =>
              /\ clock + timer >= CloseAfter
              /\ unprocessed = <<>>
              /\ running \subseteq {nextSeq}
        /\ pc # "handling" /\ unprocessed = <<>> => running = {}
        /\ unprocessed # <<>> =>
              /\ pc \in {"top", "done"}
              /\ unprocessed = <<nextSeq - 1>>
              /\ clock >= CloseAfter
              /\ running \subseteq {nextSeq - 1}

\* The budget of a handler that is called now reaches to the end.
LEMMA BudgetReachesClose ==
  ASSUME Countable, clock \in Nat
  PROVE  clock + Budget >= CloseAfter
  BY SessionAssumption DEF Countable, Budget, SetTimeout, Longer

LEMMA LoopHandler ==
  ASSUME Countable, TypeOK, HandlerInv, LoopStep
  PROVE  HandlerInv'
  <1> USE DEF sessionVars, endVars, payloadVars, clockVars, bucketVars
  <1>1. CASE LoadConfig
    BY <1>1 DEF HandlerInv, LoadConfig
  <1>2. CASE Top
    BY <1>2, SessionAssumption DEF TypeOK, HandlerInv, Top, PeriodOver, Finish
  <1>3. CASE CheckControl
    BY <1>3 DEF HandlerInv, CheckControl, Finish
  <1>4. CASE CheckInput
    BY <1>4 DEF HandlerInv, CheckInput, Finish
  <1>5. CASE NotVerifiable
    BY <1>5 DEF HandlerInv, NotVerifiable
  <1>6. CASE RejectInput
    BY <1>6 DEF HandlerInv, RejectInput, Answer
  <1>7. CASE CallHandler
    BY <1>7, BudgetReachesClose DEF TypeOK, HandlerInv, CallHandler
  <1>8. CASE Abandon
    <2>1. CASE back = 0
      <3>1. unprocessed' = <<nextSeq>> /\ nextSeq' - 1 = nextSeq /\ pc' = "top"
            /\ clock' >= CloseAfter /\ running' \subseteq {nextSeq}
        BY <1>8, <2>1, SessionAssumption DEF TypeOK, HandlerInv, Abandon
      <3>2. QED BY <3>1 DEF HandlerInv
    <2>2. CASE back # 0
      BY <1>8, <2>2 DEF HandlerInv, Abandon
    <2>3. QED BY <2>1, <2>2
  <1>9. CASE Wake
    BY <1>9 DEF HandlerInv, Wake
  <1>10. QED BY <1>1, <1>2, <1>3, <1>4, <1>5, <1>6, <1>7, <1>8, <1>9 DEF LoopStep

LEMMA PayloadHandler ==
  ASSUME TypeOK, HandlerInv, Payload
  PROVE  HandlerInv'
  <1> USE DEF sessionVars, endVars, payloadVars, clockVars, bucketVars
  <1>1. ASSUME NEW handler \in BOOLEAN, InitialRun(handler) PROVE HandlerInv'
    BY <1>1 DEF HandlerInv, InitialRun
  <1>2. CASE SetupFails
    BY <1>2 DEF HandlerInv, SetupFails
  <1>3. ASSUME NEW code \in {"SUCCESS", "SYSTEM_ERROR"}, Settle(code)
        PROVE  HandlerInv'
    BY <1>3 DEF TypeOK, HandlerInv, Settle, Answer
  <1>4. ASSUME NEW i \in Inputs, LateSettle(i) PROVE HandlerInv'
    BY <1>4 DEF HandlerInv, LateSettle
  <1>5. CASE AssignHandler
    BY <1>5 DEF HandlerInv, AssignHandler
  <1>6. QED BY <1>1, <1>2, <1>3, <1>4, <1>5 DEF Payload

LEMMA EnvironmentHandler ==
  ASSUME TypeOK, HandlerInv, Environment
  PROVE  HandlerInv'
  <1> USE DEF sessionVars, endVars, payloadVars, clockVars, bucketVars
  <1>1. CASE Tick
    <2>1. clock' >= clock /\ (clock + timer >= CloseAfter => clock' + timer' >= CloseAfter)
      BY <1>1, SessionAssumption DEF TypeOK, Tick
    <2>2. QED BY <1>1, <2>1, SessionAssumption DEF TypeOK, HandlerInv, Tick
  <1>2. CASE StepBack
    BY <1>2 DEF TypeOK, HandlerInv, StepBack
  <1>3. ASSUME NEW i \in Inputs, InputArrives(i) PROVE HandlerInv'
    BY <1>3 DEF HandlerInv, InputArrives
  <1>4. CASE CloseArrives
    BY <1>4 DEF HandlerInv, CloseArrives
  <1>5. QED BY <1>1, <1>2, <1>3, <1>4 DEF Environment

LEMMA HandlerInvariant ==
  ASSUME Countable
  PROVE  Spec => []HandlerInv
  <1>1. Init => HandlerInv
    BY DEF Init, HandlerInv
  <1>2. TypeOK /\ HandlerInv /\ [Next]_vars => HandlerInv'
    <2> SUFFICES ASSUME TypeOK, HandlerInv, [Next]_vars PROVE HandlerInv'
      OBVIOUS
    <2>1. CASE Next
      BY <2>1, LoopHandler, PayloadHandler, EnvironmentHandler DEF Next
    <2>2. CASE UNCHANGED vars
      BY <2>2 DEF HandlerInv, vars, sessionVars, endVars, payloadVars, clockVars
    <2>3. QED BY <2>1, <2>2
  <1>3. QED BY <1>1, <1>2, SessionTypeCorrect, PTL DEF Spec

\* Unless the host sets its clock back, or the running period is longer than a
\* timer can be, only the last input of a session is ever abandoned, and only
\* at the end of the running period (handle()).
THEOREM OnlyLastAbandoned ==
  ASSUME Countable
  PROVE  Spec => []AbandonedIsLast
  <1>1. TypeOK /\ HandlerInv => AbandonedIsLast
    BY DEF TypeOK, HandlerInv, AbandonedIsLast
  <1>2. QED BY <1>1, SessionTypeCorrect, HandlerInvariant, PTL

\* Under the same conditions no two handlers of a session overlap (run()).
THEOREM HandlersAlone ==
  ASSUME Countable
  PROVE  Spec => []HandlersDoNotOverlap
  <1>1. TypeOK /\ HandlerInv => HandlersDoNotOverlap
    BY DEF TypeOK, HandlerInv, HandlersDoNotOverlap
  <1>2. QED BY <1>1, SessionTypeCorrect, HandlerInvariant, PTL

-----------------------------------------------------------------------------
(***************************************************************************)
(* The summary is truthful.                                                *)
(***************************************************************************)

Successes(out) == {n \in 1 .. Len(out) : out[n].code = "SUCCESS"}

\* The number of successes grows with each SUCCESS that is pushed.
LEMMA CountSuccesses ==
  ASSUME NEW out \in Seq(Output), NEW e \in Output
  PROVE  /\ Cardinality(Successes(out)) \in Nat
         /\ Cardinality(Successes(Append(out, e))) =
              IF e.code = "SUCCESS" THEN Cardinality(Successes(out)) + 1
                                    ELSE Cardinality(Successes(out))
  <1> DEFINE last == Len(out) + 1
  <1>1. /\ Len(out) \in Nat /\ Len(Append(out, e)) = last
        /\ Append(out, e)[last] = e
        /\ \A n \in 1 .. Len(out) : Append(out, e)[n] = out[n]
    BY AppendFacts
  <1>2. IsFiniteSet(Successes(out)) /\ last \notin Successes(out)
    <2>1. IsFiniteSet(1 .. Len(out))
      BY <1>1, FS_Interval
    <2>2. QED BY <1>1, <2>1, FS_Subset DEF Successes
  <1>3. Successes(Append(out, e)) = Successes(out) \cup
            (IF e.code = "SUCCESS" THEN {last} ELSE {})
    <2>1. 1 .. last = (1 .. Len(out)) \cup {last} /\ last \notin 1 .. Len(out)
      BY <1>1
    <2>2. QED BY <1>1, <2>1 DEF Successes
  <1>4. Cardinality(Successes(out)) \in Nat
    BY <1>2, FS_CardinalityType
  <1>5. CASE e.code = "SUCCESS"
    BY <1>2, <1>3, <1>4, <1>5, FS_AddElement
  <1>6. CASE e.code # "SUCCESS"
    <2>1. Successes(Append(out, e)) = Successes(out)
      BY <1>3, <1>6
    <2>2. QED BY <1>4, <1>6, <2>1
  <1>7. QED BY <1>5, <1>6, <1>4

\* Beside the summary's claims: the round's clock reading is not ahead of the
\* time, an input that is looked at is within the cap, and nothing is returned
\* before the loop is left.
SummaryInv ==
    /\ now <= Elapsed
    /\ nextSeq <= maxMessages
    /\ pc \in {"input", "data", "handling"} => nextSeq < maxMessages
    /\ pc # "done" => result = "none"
    /\ result = "SUCCESS" =>
          /\ reason = "CLOSED" => control = "signed"
          /\ reason = "MESSAGE_CAP" => nextSeq = maxMessages
          /\ reason = "RUNNING_PERIOD_COMPLETE" =>
                Elapsed >= CloseAfter \/ Elapsed >= InputCutoff

CountInv == processed = Cardinality(Successes(outputs))

LEMMA AnswerCounts ==
  ASSUME TypeOK, CountInv, NEW code \in Codes, Answer(code)
  PROVE  CountInv'
  <1> DEFINE e == [ack |-> nextSeq, code |-> code]
  <1>1. e \in Output /\ e.code = code
    BY DEF TypeOK, Output
  <1>2. outputs \in Seq(Output) /\ outputs' = Append(outputs, e)
        /\ processed' = IF code = "SUCCESS" THEN processed + 1 ELSE processed
    BY DEF TypeOK, Answer
  <1> HIDE DEF e
  <1>3. QED BY <1>1, <1>2, CountSuccesses DEF CountInv

LEMMA StepCounts == TypeOK /\ CountInv /\ [Next]_vars => CountInv'
  <1> SUFFICES ASSUME TypeOK, CountInv, [Next]_vars PROVE CountInv'
    OBVIOUS
  <1>1. CASE RejectInput
    BY <1>1, AnswerCounts DEF RejectInput, Codes
  <1>2. ASSUME NEW code \in {"SUCCESS", "SYSTEM_ERROR"}, Settle(code)
        PROVE  CountInv'
    BY <1>2, AnswerCounts DEF Settle, Codes
  <1>3. CASE UNCHANGED <<outputs, processed>>
    BY <1>3 DEF CountInv
  <1>4. CASE LoopStep
    BY <1>1, <1>3, <1>4 DEF LoopStep, LoadConfig, Top, CheckControl, CheckInput,
       NotVerifiable, CallHandler, Abandon, Wake, sessionVars
  <1>5. CASE Payload
    BY <1>2, <1>3, <1>5 DEF Payload, InitialRun, SetupFails, LateSettle,
       AssignHandler, sessionVars
  <1>6. CASE Environment \/ UNCHANGED vars
    BY <1>3, <1>6 DEF Environment, Tick, StepBack, InputArrives, CloseArrives,
       vars, sessionVars
  <1>7. QED BY <1>4, <1>5, <1>6 DEF Next

LEMMA MaxMessagesType == maxMessages \in Nat
  BY SessionAssumption DEF maxMessages

LEMMA StepSummary == TypeOK /\ SummaryInv /\ [Next]_vars => SummaryInv'
  <1> SUFFICES ASSUME TypeOK, SummaryInv, [Next]_vars PROVE SummaryInv'
    OBVIOUS
  <1> USE MaxMessagesType, SessionAssumption
      DEF TypeOK, SummaryInv, Elapsed, sessionVars, endVars, payloadVars,
          clockVars, bucketVars
  <1>1. CASE LoadConfig
    BY <1>1 DEF LoadConfig
  <1>2. CASE Top
    BY <1>2 DEF Top, PeriodOver, Finish, StaysOpen
  <1>3. CASE CheckControl
    BY <1>3 DEF CheckControl, CloseRequested, Finish, StaysOpen
  <1>4. CASE CheckInput
    BY <1>4 DEF CheckInput, Finish, StaysOpen
  <1>5. CASE NotVerifiable \/ Wake
    BY <1>5 DEF NotVerifiable, Wake
  <1>6. CASE RejectInput
    BY <1>6 DEF RejectInput, Answer
  <1>7. CASE CallHandler
    BY <1>7 DEF CallHandler
  <1>8. CASE Abandon
    BY <1>8 DEF Abandon
  <1>9. CASE Payload
    <2>1. ASSUME NEW handler \in BOOLEAN, InitialRun(handler) PROVE SummaryInv'
      BY <2>1 DEF InitialRun
    <2>2. CASE SetupFails
      BY <2>2 DEF SetupFails
    <2>3. ASSUME NEW code \in {"SUCCESS", "SYSTEM_ERROR"}, Settle(code)
          PROVE  SummaryInv'
      BY <2>3 DEF Settle, Answer
    <2>4. ASSUME NEW i \in Inputs, LateSettle(i) PROVE SummaryInv'
      BY <2>4 DEF LateSettle
    <2>5. CASE AssignHandler
      BY <2>5 DEF AssignHandler
    <2>6. QED BY <1>9, <2>1, <2>2, <2>3, <2>4, <2>5 DEF Payload
  <1>10. CASE Environment
    <2>1. CASE Tick
      BY <2>1 DEF Tick
    <2>2. CASE StepBack
      BY <2>2 DEF StepBack
    <2>3. ASSUME NEW i \in Inputs, InputArrives(i) PROVE SummaryInv'
      BY <2>3 DEF InputArrives
    <2>4. CASE CloseArrives
      BY <2>4 DEF CloseArrives
    <2>5. QED BY <1>10, <2>1, <2>2, <2>3, <2>4 DEF Environment
  <1>11. CASE UNCHANGED vars
    BY <1>11 DEF vars
  <1>12. QED BY <1>1, <1>2, <1>3, <1>4, <1>5, <1>6, <1>7, <1>8, <1>9, <1>10,
                <1>11 DEF Next, LoopStep

\* The reason the summary gives held, and its count is the number of inputs
\* that were answered with SUCCESS (run(), the summary).
THEOREM SummaryHolds == Spec => []SummaryTruthful
  <1>1. Init => SummaryInv /\ CountInv
    <2>1. Successes(<<>>) = {}
      BY DEF Successes
    <2>2. QED BY <2>1, FS_EmptySet, MaxMessagesType
              DEF Init, SummaryInv, CountInv, Elapsed
  <1>2. SummaryInv /\ CountInv => SummaryTruthful
    BY DEF SummaryInv, CountInv, SummaryTruthful, Successes
  <1>3. QED BY <1>1, <1>2, SessionTypeCorrect, StepSummary, StepCounts, PTL
            DEF Spec
=============================================================================
