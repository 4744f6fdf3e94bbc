------------------------------ MODULE TaskRun ------------------------------
(***************************************************************************)
(* The commands that run a task: ecld-run on the network (run.js and       *)
(* runReport.js), ecld-test and its local API on this machine (test.js),   *)
(* and the project's front end, which preStart.mjs sets up.                *)
(*                                                                         *)
(* The runner package is external: a task ends with a result, whose code   *)
(* the runner then knows, or without one, and it tells so by an event and  *)
(* by the promise of run().  Nothing is assumed of how the two agree: it   *)
(* may tell an error of a task that succeeded, and a success of one whose  *)
(* code it does not know.                                                  *)
(***************************************************************************)
EXTENDS CasConfig

CONSTANTS Requests, \* requests to the local API
          Callers,  \* the task callers requests name
          Default,  \* the caller resolveCaller finds
          None      \* nothing, or the null caller

ASSUME TaskAssumption ==
    /\ {"no", "other"} \cap (Callers \cup {Default, None}) = {}
    /\ None \notin Nat \cup {"SUCCESS", "returned", "ERROR", "TIMEOUT"}

VARIABLES
    args,       \* the command, its options and what .env says
    pc,         \* where the command is
    exit,       \* its exit code
    order,      \* what ecld-run or the front end asks of the runner
    taskCode,   \* the code of the task's result
    outcome,    \* what settled first: SUCCESS, ERROR, TIMEOUT or the promise
    asked,      \* the requests to the local API
    answers,    \* the status code each was answered with
    taskCaller, \* ecld_state.js: the caller it has for every task
    seen,       \* history: the callers a request's task was told
    overlapped  \* history: tasks that ran beside another

clientVars == <<order, taskCode, outcome>>
apiVars == <<asked, answers, taskCaller, seen, overlapped>>
vars == <<args, pc, exit, clientVars, apiVars>>

\* The options that decide something.
Arguments ==
    [command : {"run"}, env : blockchainNetworkOptions,
     network : blockchainNetworkOptions, unsafe : BOOLEAN, usage : BOOLEAN,
     installed : BOOLEAN, named : BOOLEAN, ipfs : {"intake", "own", "public"},
     token : BOOLEAN, esr : {TRUE}]
    \cup
    [command : {"test", "serve", "start"}, env : blockchainNetworkOptions,
     network : {"Bloxberg_Testnet"}, unsafe : {FALSE}, usage : BOOLEAN,
     installed : {TRUE}, named : {TRUE}, ipfs : {"intake"}, token : {FALSE},
     esr : BOOLEAN]

Init ==
    /\ args \in {a \in Arguments :
          /\ a.command = "run" =>
                a.network \in {a.env, "Bloxberg_Testnet", "IoTeX_Testnet"}
          /\ a.command # "start" =>
                a.command = "run" \/ a.env = "Bloxberg_Testnet"}
    /\ pc = "start" /\ exit = None
    /\ order = None /\ taskCode = None /\ outcome = None
    /\ asked = [r \in Requests |-> "no"] /\ answers = [r \in Requests |-> None]
    /\ taskCaller = None
    /\ seen = [r \in Requests |-> {}] /\ overlapped = {}

Exit(code) == pc' = "ended" /\ exit' = code

-----------------------------------------------------------------------------
(***************************************************************************)
(* ecld-run.                                                               *)
(***************************************************************************)

\* The network, or with --unsafe its variant; none when there is none.
RunNetworks ==
    IF args.unsafe THEN unsafeVariant(args.network) ELSE {args.network}

\* Mutant: the names are taken from .env as they are.
OrderOfEnvNames(network) ==
    [network |-> networkFor[network], securelock |-> Safe("project"),
     trustedzone |-> imageByNetwork[args.env]]

\* What the runner is asked to run on the network: the enclaves' names.
OrderOn(network) ==
    [network |-> networkFor[network],
     securelock |-> nameOnNetwork(Safe("project"), network),
     trustedzone |-> nameOnNetwork(imageByNetwork[args.env], network)]

\* No runner, no network, no securelock's name or no key.
SetupFails == ~args.installed \/ RunNetworks = {} \/ ~args.named

PublicWithoutToken == args.ipfs = "public" /\ ~args.token

\* main, up to the order.
SubmitOrder ==
    /\ pc = "start" /\ args.command = "run"
    /\ \/ /\ ~args.usage
          /\ Exit(2) /\ UNCHANGED order
       \/ /\ args.usage /\ SetupFails
          /\ Exit(1) /\ UNCHANGED order
       \/ /\ args.usage /\ ~SetupFails /\ PublicWithoutToken
          /\ Exit(2) /\ UNCHANGED order
       \/ /\ args.usage /\ ~SetupFails \* the runner cannot be initialised
          /\ Exit(1) /\ UNCHANGED order
       \/ /\ args.usage /\ ~SetupFails /\ ~PublicWithoutToken
          /\ \E network \in RunNetworks : order' = OrderOn(network)
          /\ pc' = "waiting" /\ UNCHANGED exit
    /\ UNCHANGED <<args, taskCode, outcome, apiVars>>

\* The runner: the task ends, and the event or the promise comes first.
TaskTerminates ==
    /\ pc = "waiting" /\ outcome = None
    /\ taskCode' \in {0, 4, None}
    /\ outcome' \in {"SUCCESS", "returned", "ERROR"}
    /\ UNCHANGED <<args, pc, exit, order, apiVars>>

TimeoutNever == FALSE /\ UNCHANGED vars

\* The timer of --timeout.
Timeout ==
    /\ pc = "waiting" /\ outcome = None
    /\ outcome' = "TIMEOUT"
    /\ UNCHANGED <<args, pc, exit, order, taskCode, apiVars>>

\* Mutant: the exit code follows the outcome, not the task's code.
reportOutcome == IF outcome \in {"ERROR", "TIMEOUT"} THEN 1 ELSE 0

\* reportRun: the exit code of a run that ended.
reportRun ==
    IF outcome = "TIMEOUT" \/ taskCode \notin {None, 0} \/ outcome = "ERROR"
    THEN 1 ELSE 0

\* The report; getting the result may fail.
Report ==
    /\ pc = "waiting" /\ outcome # None
    /\ Exit(reportRun) \/ Exit(1)
    /\ UNCHANGED <<args, clientVars, apiVars>>

-----------------------------------------------------------------------------
(***************************************************************************)
(* preStart.mjs: the front end runs what ecld-run runs.                    *)
(***************************************************************************)

PreStart ==
    /\ pc = "start" /\ args.command = "start"
    /\ \/ ~args.usage /\ Exit(1) /\ UNCHANGED order
       \/ args.usage /\ order' = OrderOn(args.env) /\ Exit(0)
    /\ UNCHANGED <<args, taskCode, outcome, apiVars>>

-----------------------------------------------------------------------------
(***************************************************************************)
(* ecld-test: one task, or the local API.                                  *)
(***************************************************************************)

\* The codes test.js has a name for.
TASK_STATUS_NAMES == (0 .. 8) \cup {28} \cup (32 .. 38)

\* Mutant: the emulator keeps its caller unless a request names one.
setTaskCallerNamed(caller) ==
    taskCaller' = IF args.esr /\ caller # Default THEN caller ELSE taskCaller

\* Where the state emulator is there, every task has its caller set.
setTaskCaller(caller) ==
    taskCaller' = IF args.esr THEN caller ELSE taskCaller

\* main of ecld-test with a payload.
TestTask ==
    /\ pc = "start" /\ args.command = "test"
    /\ \/ ~args.usage /\ Exit(2) /\ UNCHANGED <<taskCode, taskCaller>>
       \/ /\ args.usage
          /\ setTaskCaller(Default)
          /\ taskCode' \in TASK_STATUS_NAMES
          /\ Exit(IF taskCode' = 0 THEN 0 ELSE 1)
    /\ UNCHANGED <<args, order, outcome, asked, answers, seen, overlapped>>

Serve ==
    /\ pc = "start" /\ args.command = "serve"
    /\ pc' = "serving"
    /\ UNCHANGED <<args, exit, clientVars, apiVars>>

Running ==
    {r \in Requests : asked[r] \notin {"no", "other"} /\ answers[r] = None}

\* A request that runs no task: no route, a preflight, a probe, a body that is
\* not JSON or has no payload, a body that is null.
AskOther(r) ==
    /\ pc = "serving" /\ asked[r] = "no"
    /\ asked' = [asked EXCEPT ![r] = "other"]
    /\ \E status \in {404, 204, 200, 400, 500} :
          answers' = [answers EXCEPT ![r] = status]
    /\ UNCHANGED <<args, pc, exit, clientVars, taskCaller, seen, overlapped>>

\* runTask, up to the first await of executeTask: the request names its caller
\* or none, or leaves it to the default one.
AskTask(r) ==
    /\ pc = "serving" /\ asked[r] = "no"
    /\ \E caller \in Callers \cup {Default, None} :
          /\ asked' = [asked EXCEPT ![r] = caller]
          /\ setTaskCaller(caller)
    /\ overlapped' = IF Running = {} THEN overlapped
                     ELSE overlapped \cup Running \cup {r}
    /\ UNCHANGED <<args, pc, exit, clientVars, answers, seen>>

\* ecld_state.js: the task asks for its caller, or an ACL is decided for it.
UseCaller(r) ==
    /\ args.esr /\ r \in Running
    /\ seen' = [seen EXCEPT ![r] = @ \cup {taskCaller}]
    /\ UNCHANGED <<args, pc, exit, clientVars, asked, answers, taskCaller,
                   overlapped>>

\* The task ends, or throws what executeTask does not catch.
TaskEnds(r) ==
    /\ r \in Running
    /\ \E status \in {200, 500} : answers' = [answers EXCEPT ![r] = status]
    /\ UNCHANGED <<args, pc, exit, clientVars, asked, taskCaller, seen,
                   overlapped>>

-----------------------------------------------------------------------------

Next ==
    \/ SubmitOrder \/ TaskTerminates \/ Timeout \/ Report
    \/ PreStart
    \/ TestTask \/ Serve
    \/ \E r \in Requests :
          AskOther(r) \/ AskTask(r) \/ UseCaller(r) \/ TaskEnds(r)

Spec == Init /\ [][Next]_vars

\* The timer of --timeout fires, and the runner's answer to getResult comes.
\* No fairness for the task itself: it may never end.
FairSpec == Spec /\ WF_vars(SubmitOrder) /\ WF_vars(Timeout) /\ WF_vars(Report)

-----------------------------------------------------------------------------
(***************************************************************************)
(* Properties.                                                             *)
(***************************************************************************)

\* Types of the variables.
TypeOK ==
    /\ args \in Arguments
    /\ pc \in {"start", "waiting", "serving", "ended"}
    /\ exit \in {None, 0, 1, 2} /\ exit # None <=> pc = "ended"
    /\ order = None \/ order \in [network : {networkFor[n] : n \in
                                              blockchainNetworkOptions},
                                  securelock : {"project"} \X BOOLEAN,
                                  trustedzone : STRING \X BOOLEAN]
    /\ taskCode \in {None} \cup TASK_STATUS_NAMES
    /\ outcome \in {None, "SUCCESS", "returned", "ERROR", "TIMEOUT"}
    /\ \A r \in Requests :
          /\ asked[r] \in {"no", "other", Default, None} \cup Callers
          /\ answers[r] \in {None, 200, 204, 400, 404, 500}
          /\ seen[r] \subseteq {Default, None} \cup Callers
    /\ taskCaller \in {Default, None} \cup Callers
    /\ overlapped \subseteq Requests

\* runReport.js, test.js: a script that reads the exit code of ecld-run or
\* ecld-test takes no task for done whose code is another than SUCCESS, however
\* the runner told its end, nor one that timed out or failed without a code; of
\* a task without a code ecld-run has nothing but the runner's word.
ExitZeroMeansSuccess ==
    args.command \in {"run", "test"} /\ exit = 0 =>
        \/ taskCode = 0 /\ outcome \in {None, "SUCCESS", "returned"}
        \/ /\ args.command = "run" /\ taskCode = None
           /\ outcome \in {"SUCCESS", "returned"}

\* network.js, cas/config.js: on the project's own network, or with --unsafe on
\* its sibling, the runner is asked for the trustedzone ecld-init names for
\* that very network, and for a -unsafe securelock exactly where only such
\* run, and the tables of all the files that name networks agree on it.  The
\* front end is given the same.
RunsItsNetworksZone ==
    order # None =>
        /\ TablesConsistent
        /\ IsUnsafeName(order.securelock) <=> order.network.unsafe
        /\ args.network = args.env \/ args.command = "start" =>
              \A n \in blockchainNetworkOptions :
                  networkFor[n] = order.network =>
                      order.trustedzone = imageByNetwork[n]

\* test.js: a request to the local API whose task ran beside no other was told
\* no caller but its own, whatever requests came before it.  (The caller is
\* global: one that overlaps another may be told the other's.)
AloneSeesItsCaller ==
    \A r \in Requests \ overlapped : seen[r] \subseteq {asked[r]}

\* run.js: ecld-run ends, even when its task never does.
EveryRunEnds == args.command = "run" ~> pc = "ended"
=============================================================================
