--------------------------- MODULE TaskRun_proofs ---------------------------
(***************************************************************************)
(* Proofs about TaskRun, for any requests and callers: the exit code of a  *)
(* command, the caller a task of the local API is told, and what the       *)
(* runner is asked for.  The last rests on the tables of CasConfig, which  *)
(* agree with each other (TablesAgree).                                    *)
(***************************************************************************)
EXTENDS TaskRun, TLAPS

\* None is none of the values it stands beside.
LEMMA NoneIsNone ==
    /\ None # 0 /\ None # 1 /\ None # 2
    /\ None \notin {"SUCCESS", "returned", "ERROR", "TIMEOUT"}
BY TaskAssumption DEF TaskAssumption

-----------------------------------------------------------------------------
(***************************************************************************)
(* The exit code.                                                          *)
(***************************************************************************)

\* A command that has not ended has no exit code; only ecld-run has an outcome.
ExitInv ==
    /\ outcome # None => args.command = "run"
    /\ pc = "start" => outcome = None
    /\ pc = "waiting" => args.command = "run"
    /\ outcome \in {None, "SUCCESS", "returned", "ERROR", "TIMEOUT"}
    /\ ExitZeroMeansSuccess
    /\ pc # "ended" => exit = None

LEMMA ExitInit == Init => ExitInv
BY NoneIsNone DEF Init, ExitInv, ExitZeroMeansSuccess

\* reportRun gives the exit code 0 to the code SUCCESS, or to none, and only
\* without an error.
LEMMA ReportLemma ==
    ASSUME ExitInv, outcome # None, reportRun = 0
    PROVE  /\ taskCode \in {None, 0} /\ outcome \in {"SUCCESS", "returned"}
           /\ args.command = "run"
BY NoneIsNone DEF ExitInv, reportRun

LEMMA ExitStep == ExitInv /\ [Next]_vars => ExitInv'
<1> SUFFICES ASSUME ExitInv, [Next]_vars
             PROVE  ExitInv'
    OBVIOUS
<1>1. CASE SubmitOrder
    <2>1. /\ pc = "start" /\ args.command = "run" /\ outcome = None
          /\ pc' \in {"ended", "waiting"}
          /\ pc' = "waiting" => exit' = exit
          /\ pc' = "ended" => exit' \in {1, 2}
        BY <1>1 DEF SubmitOrder, Exit, ExitInv
    <2>2. UNCHANGED <<args, taskCode, outcome>>
        BY <1>1 DEF SubmitOrder
    <2>3. exit' # 0
        BY <2>1, NoneIsNone DEF ExitInv
    <2> QED
        BY <2>1, <2>2, <2>3 DEF ExitInv, ExitZeroMeansSuccess
<1>2. CASE TaskTerminates
    <2>1. /\ pc = "waiting" /\ UNCHANGED <<args, pc, exit>>
          /\ outcome' \in {"SUCCESS", "returned", "ERROR"}
        BY <1>2 DEF TaskTerminates
    <2>2. exit = None /\ args.command = "run"
        BY <2>1 DEF ExitInv
    <2> QED
        BY <2>1, <2>2, NoneIsNone DEF ExitInv, ExitZeroMeansSuccess
<1>3. CASE Timeout
    <2>1. /\ pc = "waiting" /\ UNCHANGED <<args, pc, exit>>
          /\ outcome' = "TIMEOUT"
        BY <1>3 DEF Timeout
    <2>2. exit = None /\ args.command = "run"
        BY <2>1 DEF ExitInv
    <2> QED
        BY <2>1, <2>2, NoneIsNone DEF ExitInv, ExitZeroMeansSuccess
<1>4. CASE Report
    <2>1. /\ outcome # None /\ (exit' = reportRun \/ exit' = 1)
          /\ pc' = "ended" /\ UNCHANGED <<args, taskCode, outcome>>
        BY <1>4 DEF Report, Exit, clientVars
    <2>2. exit' = 0 => /\ taskCode \in {None, 0}
                       /\ outcome \in {"SUCCESS", "returned"}
                       /\ args.command = "run"
        BY <1>4, <2>1, ReportLemma DEF Report
    <2> QED
        BY <2>1, <2>2 DEF ExitInv, ExitZeroMeansSuccess
<1>5. CASE PreStart
    <2>1. args' = args /\ args.command = "start" /\ pc' = "ended"
        BY <1>5 DEF PreStart, Exit
    <2>2. UNCHANGED <<taskCode, outcome>>
        BY <1>5 DEF PreStart
    <2> QED
        BY <2>1, <2>2 DEF ExitInv, ExitZeroMeansSuccess
<1>6. CASE TestTask
    <2>1. exit' = 0 => taskCode' = 0
        <3>1. CASE exit' = 2
            BY <3>1
        <3>2. CASE exit' = IF taskCode' = 0 THEN 0 ELSE 1
            BY <3>2
        <3> QED
            BY <1>6, <3>1, <3>2 DEF TestTask, Exit
    <2>2. /\ pc = "start" /\ pc' = "ended" /\ UNCHANGED <<args, outcome>>
        BY <1>6 DEF TestTask, Exit
    <2>3. outcome = None
        BY <2>2 DEF ExitInv
    <2> QED
        BY <2>1, <2>2, <2>3 DEF ExitInv, ExitZeroMeansSuccess
<1>7. CASE Serve
    BY <1>7 DEF ExitInv, Serve, clientVars, ExitZeroMeansSuccess
<1>8. CASE \E r \in Requests :
              AskOther(r) \/ AskTask(r) \/ UseCaller(r) \/ TaskEnds(r)
    BY <1>8 DEF ExitInv, AskOther, AskTask, UseCaller, TaskEnds, clientVars,
                ExitZeroMeansSuccess
<1>9. CASE UNCHANGED vars
    BY <1>9 DEF ExitInv, vars, clientVars, ExitZeroMeansSuccess
<1> QED
    BY <1>1, <1>2, <1>3, <1>4, <1>5, <1>6, <1>7, <1>8, <1>9 DEF Next

\* runReport.js, test.js: ecld-run and ecld-test never exit with 0 for a task
\* whose code is another than SUCCESS, or that timed out or failed.
THEOREM ZeroIsSuccess == Spec => []ExitZeroMeansSuccess
<1>1. ExitInv => ExitZeroMeansSuccess
    BY DEF ExitInv
<1> QED
    BY <1>1, ExitInit, ExitStep, PTL DEF Spec

-----------------------------------------------------------------------------
(***************************************************************************)
(* The caller of a task.                                                   *)
(***************************************************************************)

\* While a task runs beside no other the emulator has its caller: the next
\* task to start would make it one that overlaps.
CallerInv ==
    \A r \in Requests :
        /\ pc = "start" => asked[r] = "no"
        /\ asked[r] = "no" => seen[r] = {} /\ r \notin overlapped
        /\ asked[r] = "other" => seen[r] = {}
        /\ r \in Running /\ r \notin overlapped /\ args.esr =>
               taskCaller = asked[r]
        /\ r \notin overlapped => seen[r] \subseteq {asked[r]}

\* The histories are functions of the requests.
CallerTypes ==
    /\ asked \in [Requests -> {"no", "other", Default, None} \cup Callers]
    /\ DOMAIN answers = Requests
    /\ DOMAIN seen = Requests

LEMMA CallerInit == Init => CallerInv /\ CallerTypes
BY DEF Init, CallerInv, CallerTypes, Running

LEMMA CallerTypesStep == CallerTypes /\ [Next]_vars => CallerTypes'
<1> SUFFICES ASSUME CallerTypes, [Next]_vars
             PROVE  CallerTypes'
    OBVIOUS
<1>1. CASE UNCHANGED <<asked, answers, seen>>
    BY <1>1 DEF CallerTypes
<1>2. ASSUME NEW r \in Requests,
             AskOther(r) \/ AskTask(r) \/ UseCaller(r) \/ TaskEnds(r)
      PROVE  CallerTypes'
    BY <1>2 DEF CallerTypes, AskOther, AskTask, UseCaller, TaskEnds
<1> QED
    BY <1>1, <1>2 DEF Next, SubmitOrder, TaskTerminates, Timeout, Report,
                      PreStart, TestTask, Serve, vars, apiVars

LEMMA NotACaller ==
    ASSUME NEW caller \in Callers \cup {Default, None}
    PROVE  caller # "no" /\ caller # "other"
BY TaskAssumption DEF TaskAssumption

LEMMA CallerStep == CallerInv /\ CallerTypes /\ [Next]_vars => CallerInv'
<1> SUFFICES ASSUME CallerInv, CallerTypes, [Next]_vars
             PROVE  CallerInv'
    OBVIOUS
<1>1. ASSUME NEW q \in Requests, AskOther(q)
      PROVE  CallerInv'
    <2>1. /\ asked' = [asked EXCEPT ![q] = "other"]
          /\ q \notin overlapped /\ seen[q] = {}
          /\ UNCHANGED <<args, pc, taskCaller, seen, overlapped>>
          /\ pc = "serving"
        BY <1>1 DEF AskOther, CallerInv
    <2>2. q \notin Running' /\ \A r \in Requests \ {q} :
                                   r \in Running' <=> r \in Running
        BY <1>1, <2>1 DEF AskOther, Running, CallerTypes
    <2>3. ASSUME NEW r \in Requests, r # q
          PROVE  asked'[r] = asked[r]
        BY <2>1, <2>3 DEF CallerTypes
    <2>4. asked'[q] = "other"
        BY <2>1 DEF CallerTypes
    <2> QED
        BY <2>1, <2>2, <2>3, <2>4 DEF CallerInv
<1>2. ASSUME NEW q \in Requests, AskTask(q)
      PROVE  CallerInv'
    <2>1. PICK caller \in Callers \cup {Default, None} :
             /\ asked' = [asked EXCEPT ![q] = caller]
             /\ setTaskCaller(caller)
        BY <1>2 DEF AskTask
    <2>2. /\ q \notin overlapped /\ seen[q] = {}
          /\ UNCHANGED <<args, pc, answers, seen>> /\ pc = "serving"
          /\ overlapped' = IF Running = {} THEN overlapped
                           ELSE overlapped \cup Running \cup {q}
        BY <1>2 DEF AskTask, CallerInv
    <2>3. asked'[q] = caller /\ caller # "no" /\ caller # "other"
        BY <2>1, NotACaller DEF CallerTypes
    <2>4. ASSUME NEW r \in Requests, r # q
          PROVE  /\ asked'[r] = asked[r]
                 /\ r \in Running' <=> r \in Running
                 /\ r \in Running => r \in overlapped'
                 /\ asked[r] = "no" => r \notin overlapped'
                 /\ r \in overlapped => r \in overlapped'
        BY <2>1, <2>2, <2>4 DEF CallerTypes, Running, CallerInv
    <2>5. args'.esr => taskCaller' = caller
        BY <2>1, <2>2 DEF setTaskCaller
    <2> QED
        BY <2>2, <2>3, <2>4, <2>5 DEF CallerInv
<1>3. ASSUME NEW q \in Requests, UseCaller(q)
      PROVE  CallerInv'
    <2>1. /\ q \in Running /\ args.esr
          /\ seen' = [seen EXCEPT ![q] = @ \cup {taskCaller}]
          /\ UNCHANGED <<args, pc, asked, answers, taskCaller, overlapped>>
        BY <1>3 DEF UseCaller
    <2>2. Running' = Running
        BY <2>1 DEF Running
    <2>3. ASSUME NEW r \in Requests, r # q
          PROVE  seen'[r] = seen[r]
        BY <2>1, <2>3 DEF CallerTypes
    <2>4. seen'[q] = seen[q] \cup {taskCaller} /\ asked[q] \notin {"no", "other"}
        BY <2>1 DEF CallerTypes, Running
    <2> QED
        BY <2>1, <2>2, <2>3, <2>4 DEF CallerInv
<1>4. ASSUME NEW q \in Requests, TaskEnds(q)
      PROVE  CallerInv'
    <2>1. UNCHANGED <<args, pc, asked, taskCaller, seen, overlapped>>
        BY <1>4 DEF TaskEnds
    <2>2. \A r \in Requests : r \in Running' => r \in Running
        BY <1>4, <2>1 DEF TaskEnds, Running, CallerTypes
    <2> QED
        BY <2>1, <2>2 DEF CallerInv
<1>5. CASE TestTask
    <2>1. UNCHANGED <<args, asked, answers, seen, overlapped>>
        BY <1>5 DEF TestTask
    <2>2. pc = "start" /\ pc' = "ended"
        BY <1>5 DEF TestTask, Exit
    <2>3. Running' = Running
        BY <2>1 DEF Running
    <2>4. \A r \in Requests : r \notin Running
        BY <2>2 DEF CallerInv, Running
    <2> QED
        BY <2>1, <2>2, <2>3, <2>4 DEF CallerInv
<1>6. CASE UNCHANGED <<args, apiVars>> /\ (pc' = "start" => pc = "start")
    BY <1>6 DEF apiVars, CallerInv, Running
<1> QED
    BY <1>1, <1>2, <1>3, <1>4, <1>5, <1>6
    DEF Next, Exit, SubmitOrder, TaskTerminates, Timeout, Report, PreStart, Serve,
        vars

\* test.js: a task of the local API that runs beside no other is told no
\* caller but its request's, for any number of requests and callers.
THEOREM AloneIsTold == Spec => []AloneSeesItsCaller
<1>1. CallerInv => AloneSeesItsCaller
    BY DEF CallerInv, AloneSeesItsCaller
<1>2. CallerInv /\ CallerTypes /\ [Next]_vars => (CallerInv /\ CallerTypes)'
    BY CallerStep, CallerTypesStep
<1> QED
    BY <1>1, <1>2, CallerInit, PTL DEF Spec

-----------------------------------------------------------------------------
(***************************************************************************)
(* The tables of the networks.  The rows are read off first, one lemma for *)
(* each table; what the tables say of each other follows from the rows.    *)
(***************************************************************************)

LEMMA Unsafes ==
    /\ DOMAIN UNSAFE_NETWORKS =
          {"Bloxberg_Testnet_Unsafe", "LitVM_LiteForge_Unsafe",
           "Ethereum_Sepolia_Unsafe", "Polygon_Amoy_Testnet_Unsafe"}
    /\ UNSAFE_NETWORKS["Bloxberg_Testnet_Unsafe"] = "Bloxberg_Testnet"
    /\ UNSAFE_NETWORKS["LitVM_LiteForge_Unsafe"] = "LitVM_LiteForge"
    /\ UNSAFE_NETWORKS["Ethereum_Sepolia_Unsafe"] = "Ethereum_Sepolia"
    /\ UNSAFE_NETWORKS["Polygon_Amoy_Testnet_Unsafe"] = "Polygon_Amoy_Testnet"
BY DEF UNSAFE_NETWORKS

LEMMA Networks ==
    blockchainNetworkOptions =
        {"Bloxberg_Mainnet",
         "Bloxberg_Testnet",
         "Polygon_Mainnet",
         "Polygon_Amoy_Testnet",
         "IoTeX_Testnet",
         "Ethereum_Sepolia",
         "LitVM_LiteForge",
         "Bloxberg_Testnet_Unsafe",
         "LitVM_LiteForge_Unsafe",
         "Ethereum_Sepolia_Unsafe",
         "Polygon_Amoy_Testnet_Unsafe"}
BY Unsafes DEF blockchainNetworkOptions, MAINNETS, TESTNETS

LEMMA Images ==
    /\ imageByNetwork["Bloxberg_Mainnet"] = Safe("etny")
    /\ imageByNetwork["Bloxberg_Testnet"] = Safe("etny-testnet")
    /\ imageByNetwork["Polygon_Mainnet"] = Safe("ecld")
    /\ imageByNetwork["Polygon_Amoy_Testnet"] = Safe("ecld-amoy")
    /\ imageByNetwork["IoTeX_Testnet"] = Safe("ecld-iotex-testnet")
    /\ imageByNetwork["Ethereum_Sepolia"] = Safe("ecld-ethereum-sepolia")
    /\ imageByNetwork["LitVM_LiteForge"] = Safe("ecld-litvm-testnet")
    /\ imageByNetwork["Bloxberg_Testnet_Unsafe"] = Unsafe("etny-testnet")
    /\ imageByNetwork["LitVM_LiteForge_Unsafe"] = Unsafe("ecld-litvm-testnet")
    /\ imageByNetwork["Ethereum_Sepolia_Unsafe"] = Unsafe("ecld-ethereum-sepolia")
    /\ imageByNetwork["Polygon_Amoy_Testnet_Unsafe"] = Unsafe("ecld-amoy")
BY Networks DEF imageByNetwork

LEMMA Named ==
    \A x : /\ Safe(x)[1] = x /\ ~IsUnsafeName(Safe(x))
          /\ Unsafe(x)[1] = x /\ IsUnsafeName(Unsafe(x))
<1>1. \A x : Safe(x)[1] = x /\ Unsafe(x)[1] = x
    BY SMT DEF Safe, Unsafe
<1>2. \A x : ~IsUnsafeName(Safe(x)) /\ IsUnsafeName(Unsafe(x))
    BY Zenon DEF Safe, Unsafe, IsUnsafeName
<1> QED
    BY <1>1, <1>2

LEMMA ImageNames ==
    /\ imageByNetwork["Bloxberg_Mainnet"][1] = "etny"
    /\ imageByNetwork["Bloxberg_Testnet"][1] = "etny-testnet"
    /\ imageByNetwork["Polygon_Mainnet"][1] = "ecld"
    /\ imageByNetwork["Polygon_Amoy_Testnet"][1] = "ecld-amoy"
    /\ imageByNetwork["IoTeX_Testnet"][1] = "ecld-iotex-testnet"
    /\ imageByNetwork["Ethereum_Sepolia"][1] = "ecld-ethereum-sepolia"
    /\ imageByNetwork["LitVM_LiteForge"][1] = "ecld-litvm-testnet"
    /\ imageByNetwork["Bloxberg_Testnet_Unsafe"][1] = "etny-testnet"
    /\ imageByNetwork["LitVM_LiteForge_Unsafe"][1] = "ecld-litvm-testnet"
    /\ imageByNetwork["Ethereum_Sepolia_Unsafe"][1] = "ecld-ethereum-sepolia"
    /\ imageByNetwork["Polygon_Amoy_Testnet_Unsafe"][1] = "ecld-amoy"
BY Images, Named

\* A template ends in -unsafe exactly on the networks that do.
LEMMA UnsafeImages ==
    \A n \in blockchainNetworkOptions :
        /\ isUnsafeNetwork(n) =>
              imageByNetwork[n] = Unsafe(imageByNetwork[n][1])
        /\ ~isUnsafeNetwork(n) =>
              imageByNetwork[n] = Safe(imageByNetwork[n][1])
<1>1. \A n \in DOMAIN UNSAFE_NETWORKS :
         imageByNetwork[n] = Unsafe(imageByNetwork[n][1])
    BY Named, Unsafes, Images
<1>2. \A n \in blockchainNetworkOptions \ DOMAIN UNSAFE_NETWORKS :
         imageByNetwork[n] = Safe(imageByNetwork[n][1])
    BY Named, Unsafes, Networks, Images
<1> QED
    BY <1>1, <1>2 DEF isUnsafeNetwork

\* An -unsafe network has the template of the network it is a variant of.
LEMMA ImagesOfVariants ==
    \A u \in DOMAIN UNSAFE_NETWORKS :
        /\ UNSAFE_NETWORKS[u] \in blockchainNetworkOptions
        /\ imageByNetwork[u][1] = imageByNetwork[UNSAFE_NETWORKS[u]][1]
<1>1. \A u \in DOMAIN UNSAFE_NETWORKS :
         UNSAFE_NETWORKS[u] \in blockchainNetworkOptions
    BY Unsafes, Networks
<1> QED
    BY <1>1, Named, Unsafes, Images

LEMMA Chains ==
    /\ networkFor["Bloxberg_Mainnet"].chain = 8995
    /\ networkFor["Bloxberg_Testnet"].chain = 8995
    /\ networkFor["Polygon_Mainnet"].chain = 137
    /\ networkFor["Polygon_Amoy_Testnet"].chain = 80002
    /\ networkFor["IoTeX_Testnet"].chain = 4690
    /\ networkFor["Ethereum_Sepolia"].chain = 11155111
    /\ networkFor["LitVM_LiteForge"].chain = 4441
    /\ networkFor["Bloxberg_Testnet_Unsafe"].chain = 8995
    /\ networkFor["LitVM_LiteForge_Unsafe"].chain = 4441
    /\ networkFor["Ethereum_Sepolia_Unsafe"].chain = 11155111
    /\ networkFor["Polygon_Amoy_Testnet_Unsafe"].chain = 80002
BY Networks DEF networkFor

LEMMA Tokens ==
    \A n \in blockchainNetworkOptions :
        networkFor[n].token = IF n \in MAINNETS THEN "mainnet" ELSE "testnet"
BY Networks DEF networkFor, MAINNETS

LEMMA UnsafeFlags ==
    \A n \in blockchainNetworkOptions :
        networkFor[n].unsafe <=> isUnsafeNetwork(n)
<1>1. /\ networkFor["Bloxberg_Testnet_Unsafe"].unsafe
      /\ networkFor["LitVM_LiteForge_Unsafe"].unsafe
      /\ networkFor["Ethereum_Sepolia_Unsafe"].unsafe
      /\ networkFor["Polygon_Amoy_Testnet_Unsafe"].unsafe
    BY Networks DEF networkFor
<1>2. \A n \in blockchainNetworkOptions \ DOMAIN UNSAFE_NETWORKS :
         ~networkFor[n].unsafe
    BY Networks, Unsafes DEF networkFor
<1> QED
    BY <1>1, <1>2, Unsafes DEF isUnsafeNetwork

\* The runner's networks are told apart.
LEMMA NetworksApart ==
    \A n, other \in blockchainNetworkOptions :
        networkFor[n] = networkFor[other] => n = other
<1> SUFFICES ASSUME NEW n \in blockchainNetworkOptions,
                    NEW other \in blockchainNetworkOptions,
                    networkFor[n] = networkFor[other]
             PROVE  n = other
    OBVIOUS
<1>1. isUnsafeNetwork(n) <=> isUnsafeNetwork(other)
    BY UnsafeFlags
<1>2. networkFor[n].chain = networkFor[other].chain
    OBVIOUS
<1>3. n \in MAINNETS <=> other \in MAINNETS
    BY Tokens
<1> QED
    BY <1>1, <1>2, <1>3, Unsafes, Networks, Chains
    DEF isUnsafeNetwork, MAINNETS

\* The names of the templates of the testnets that have sessions, and of all.
TestnetNames ==
    {"etny-testnet", "ecld-litvm-testnet", "ecld-ethereum-sepolia",
     "ecld-amoy"}
ImageNameSet == TestnetNames \cup {"etny", "ecld", "ecld-iotex-testnet"}

LEMMA Templates ==
    /\ DOMAIN SESSION_REGISTRY = {Safe(name) : name \in TestnetNames}
    /\ DOMAIN CHAIN = {Safe(name) : name \in TestnetNames}
    /\ DOMAIN ECRunner = {Safe(name) : name \in ImageNameSet}
                         \cup {Unsafe(name) : name \in TestnetNames}
<1>1. DOMAIN SESSION_REGISTRY = {Safe(name) : name \in TestnetNames}
    BY SMT DEF SESSION_REGISTRY, TestnetNames
<1>2. DOMAIN CHAIN = {Safe(name) : name \in TestnetNames}
    BY SMT DEF CHAIN, TestnetNames
<1>3. DOMAIN ECRunner = {Safe(name) : name \in ImageNameSet}
                        \cup {Unsafe(name) : name \in TestnetNames}
    BY SMT DEF ECRunner, TestnetNames, ImageNameSet
<1> QED
    BY <1>1, <1>2, <1>3

\* Every template has addresses of its own.
LEMMA Registries ==
    /\ DOMAIN VALIDATOR_REGISTRY = {Safe(name) : name \in TestnetNames}
    /\ \A t \in DOMAIN SESSION_REGISTRY :
         /\ t[1] = "etny-testnet" => SESSION_REGISTRY[t] = "0x78f0"
         /\ t[1] = "ecld-litvm-testnet" => SESSION_REGISTRY[t] = "0xfA70"
         /\ t[1] = "ecld-ethereum-sepolia" => SESSION_REGISTRY[t] = "0xDbB2"
         /\ t[1] = "ecld-amoy" => SESSION_REGISTRY[t] = "0x0596"
    /\ \A t \in DOMAIN VALIDATOR_REGISTRY :
         /\ t[1] = "etny-testnet" => VALIDATOR_REGISTRY[t] = "0x8CC8"
         /\ t[1] = "ecld-litvm-testnet" => VALIDATOR_REGISTRY[t] = "0xbE37"
         /\ t[1] = "ecld-ethereum-sepolia" => VALIDATOR_REGISTRY[t] = "0x8ad2"
         /\ t[1] = "ecld-amoy" => VALIDATOR_REGISTRY[t] = "0x70bf"
<1>1. DOMAIN VALIDATOR_REGISTRY = {Safe(name) : name \in TestnetNames}
    BY SMT DEF VALIDATOR_REGISTRY, TestnetNames
<1>2. \A t \in DOMAIN SESSION_REGISTRY :
         /\ t[1] = "etny-testnet" => SESSION_REGISTRY[t] = "0x78f0"
         /\ t[1] = "ecld-litvm-testnet" => SESSION_REGISTRY[t] = "0xfA70"
         /\ t[1] = "ecld-ethereum-sepolia" => SESSION_REGISTRY[t] = "0xDbB2"
         /\ t[1] = "ecld-amoy" => SESSION_REGISTRY[t] = "0x0596"
    BY SMT DEF SESSION_REGISTRY
<1>3. \A t \in DOMAIN VALIDATOR_REGISTRY :
         /\ t[1] = "etny-testnet" => VALIDATOR_REGISTRY[t] = "0x8CC8"
         /\ t[1] = "ecld-litvm-testnet" => VALIDATOR_REGISTRY[t] = "0xbE37"
         /\ t[1] = "ecld-ethereum-sepolia" => VALIDATOR_REGISTRY[t] = "0x8ad2"
         /\ t[1] = "ecld-amoy" => VALIDATOR_REGISTRY[t] = "0x70bf"
    BY SMT DEF VALIDATOR_REGISTRY
<1> QED
    BY <1>1, <1>2, <1>3

\* No two templates share an address.
LEMMA AddressesApart ==
    \A t, u \in DOMAIN SESSION_REGISTRY :
         /\ SESSION_REGISTRY[t] # VALIDATOR_REGISTRY[u]
         /\ \/ SESSION_REGISTRY[t] = SESSION_REGISTRY[u]
            \/ VALIDATOR_REGISTRY[t] = VALIDATOR_REGISTRY[u]
            => t = u
<1> SUFFICES ASSUME NEW t \in DOMAIN SESSION_REGISTRY,
                    NEW u \in DOMAIN SESSION_REGISTRY
             PROVE  /\ SESSION_REGISTRY[t] # VALIDATOR_REGISTRY[u]
                    /\ \/ SESSION_REGISTRY[t] = SESSION_REGISTRY[u]
                       \/ VALIDATOR_REGISTRY[t] = VALIDATOR_REGISTRY[u]
                       => t = u
    OBVIOUS
<1>1. /\ t[1] \in TestnetNames /\ u[1] \in TestnetNames
      /\ t[1] = u[1] => t = u
      /\ t \in DOMAIN VALIDATOR_REGISTRY /\ u \in DOMAIN VALIDATOR_REGISTRY
  <2>1. \A w \in DOMAIN SESSION_REGISTRY :
            /\ w = Safe(w[1]) /\ w[1] \in TestnetNames
            /\ w \in DOMAIN VALIDATOR_REGISTRY
      BY Templates, Registries, Named
  <2> QED
      BY <2>1
<1> QED
    BY <1>1, Registries DEF TestnetNames

LEMMA ChainsOfTemplates ==
    \A t \in DOMAIN CHAIN :
         /\ t[1] = "etny-testnet" => CHAIN[t] = 8995
         /\ t[1] = "ecld-litvm-testnet" => CHAIN[t] = 4441
         /\ t[1] = "ecld-ethereum-sepolia" => CHAIN[t] = 11155111
         /\ t[1] = "ecld-amoy" => CHAIN[t] = 80002
BY SMT DEF CHAIN

LEMMA Runners ==
    \A t \in DOMAIN ECRunner :
         /\ t[1] = "etny" => ECRunner[t] = 8995
         /\ t[1] = "etny-testnet" => ECRunner[t] = 8995
         /\ t[1] = "ecld" => ECRunner[t] = 137
         /\ t[1] = "ecld-amoy" => ECRunner[t] = 80002
         /\ t[1] = "ecld-iotex-testnet" => ECRunner[t] = 4690
         /\ t[1] = "ecld-ethereum-sepolia" => ECRunner[t] = 11155111
         /\ t[1] = "ecld-litvm-testnet" => ECRunner[t] = 4441
BY SMT DEF ECRunner

LEMMA ChainIsRunner ==
    \A t \in DOMAIN CHAIN : CHAIN[t] = ECRunner[t]
<1>1. \A t \in DOMAIN CHAIN : t[1] \in TestnetNames /\ t \in DOMAIN ECRunner
    BY Templates, Named DEF ImageNameSet
<1> QED
    BY <1>1, ChainsOfTemplates, Runners DEF TestnetNames

LEMMA ChainsOfRunners ==
    \A n \in blockchainNetworkOptions :
        ECRunner[imageByNetwork[n]] = networkFor[n].chain
<1>1. \A n \in blockchainNetworkOptions : imageByNetwork[n] \in DOMAIN ECRunner
    BY Networks, Images, Templates DEF ImageNameSet, TestnetNames
<1> QED
    BY <1>1, Runners, ImageNames, Networks, Chains

LEMMA ImagesApart ==
    \A n, other \in blockchainNetworkOptions :
        imageByNetwork[n] = imageByNetwork[other] => n = other
<1> SUFFICES ASSUME NEW n \in blockchainNetworkOptions,
                    NEW other \in blockchainNetworkOptions,
                    imageByNetwork[n] = imageByNetwork[other]
             PROVE  n = other
    OBVIOUS
<1>1. isUnsafeNetwork(n) <=> isUnsafeNetwork(other)
    BY UnsafeImages, Named
<1>2. imageByNetwork[n][1] = imageByNetwork[other][1]
    OBVIOUS
<1> QED
    BY <1>1, <1>2, Unsafes, Networks, ImageNames DEF isUnsafeNetwork

\* cas/config.js, network.js, init.js, build.mjs: the tables agree on every
\* network: the registries are read on the chain the enclave is built for and
\* the task is run on, no two chains share the address of one, and no two
\* networks are taken for each other.
THEOREM TablesAgree == TablesConsistent
<1> SUFFICES ASSUME NEW n \in blockchainNetworkOptions
             PROVE  /\ SessionsHaveValidators(imageByNetwork[n])
                    /\ UnsafeHasNoCas(n)
                    /\ IsToldApart(n)
                    /\ ECRunner[imageByNetwork[n]] = networkFor[n].chain
    BY DEF TablesConsistent
<1>1. SessionsHaveValidators(imageByNetwork[n])
    BY Templates, Registries, ChainIsRunner, AddressesApart
    DEF SessionsHaveValidators
<1>2. isUnsafeNetwork(n) <=> IsUnsafeName(imageByNetwork[n])
    BY Named, UnsafeImages
<1>3. isUnsafeNetwork(n) => ~casProvisioned(imageByNetwork[n], n)
  <2>1. isUnsafeNetwork(n) => n \notin MAINNETS
      BY Unsafes DEF isUnsafeNetwork, MAINNETS
  <2>2. \A t \in DOMAIN SESSION_REGISTRY : ~IsUnsafeName(t)
      BY Templates, Named
  <2> QED
      BY <1>2, <2>1, <2>2 DEF casProvisioned
<1>4. \A u \in unsafeVariant(n) : networkFor[u].chain = networkFor[n].chain
    BY Unsafes, Chains DEF unsafeVariant, isUnsafeNetwork
<1>5. IsToldApart(n)
    BY ImagesApart, NetworksApart DEF IsToldApart
<1>6. ECRunner[imageByNetwork[n]] = networkFor[n].chain
    BY ChainsOfRunners
<1> QED
    BY <1>1, <1>2, <1>3, <1>4, <1>5, <1>6 DEF UnsafeHasNoCas

-----------------------------------------------------------------------------
(***************************************************************************)
(* What the runner is asked for.                                           *)
(***************************************************************************)

\* The networks the command may ask the runner for.
RunsOn == IF args.command = "start" THEN {args.env} ELSE RunNetworks

\* An order was made by OrderOn, for one of those.
ZoneInv ==
    /\ args.env \in blockchainNetworkOptions
    /\ args.network \in blockchainNetworkOptions
    /\ order # None => \E network \in RunsOn : order = OrderOn(network)

LEMMA ZoneInit == Init => ZoneInv
<1> SUFFICES ASSUME Init PROVE ZoneInv
    OBVIOUS
<1>1. args \in Arguments /\ order = None
    BY DEF Init
<1>2. "Bloxberg_Testnet" \in blockchainNetworkOptions
    BY Networks
<1> QED
    BY <1>1, <1>2 DEF ZoneInv, Arguments

\* No step but the order touches what it was made from.
LEMMA ZoneKept ==
    ASSUME ZoneInv, UNCHANGED <<args, order>> PROVE ZoneInv'
BY DEF ZoneInv, RunsOn, RunNetworks, OrderOn

LEMMA ZoneStep == ZoneInv /\ [Next]_vars => ZoneInv'
<1> SUFFICES ASSUME ZoneInv, [Next]_vars
             PROVE  ZoneInv'
    OBVIOUS
<1>1. CASE SubmitOrder
  <2>1. args' = args /\ args.command = "run"
      BY <1>1 DEF SubmitOrder
  <2>2. CASE order' = order
      BY <2>1, <2>2, ZoneKept
  <2>3. CASE \E network \in RunNetworks : order' = OrderOn(network)
      BY <2>1, <2>3 DEF ZoneInv, RunsOn, RunNetworks, OrderOn
  <2> QED
      BY <1>1, <2>2, <2>3 DEF SubmitOrder
<1>2. CASE PreStart
  <2>1. args' = args /\ args.command = "start"
      BY <1>2 DEF PreStart
  <2>2. CASE order' = order
      BY <2>1, <2>2, ZoneKept
  <2>3. CASE order' = OrderOn(args.env)
      BY <2>1, <2>3 DEF ZoneInv, RunsOn, OrderOn
  <2> QED
      BY <1>2, <2>2, <2>3 DEF PreStart
<1>3. CASE \/ TaskTerminates \/ Timeout \/ Report \/ TestTask \/ Serve
           \/ \E r \in Requests :
                 AskOther(r) \/ AskTask(r) \/ UseCaller(r) \/ TaskEnds(r)
           \/ UNCHANGED vars
  <2>1. UNCHANGED <<args, order>>
      BY <1>3 DEF TaskTerminates, Timeout, Report, TestTask, Serve, AskOther,
                  AskTask, UseCaller, TaskEnds, clientVars, vars
  <2> QED
      BY <2>1, ZoneKept
<1> QED
    BY <1>1, <1>2, <1>3 DEF Next

\* A variant is a network of its own, with the template of its sibling.
LEMMA Variants ==
    ASSUME NEW env \in blockchainNetworkOptions, NEW n \in unsafeVariant(env)
    PROVE  /\ n \in blockchainNetworkOptions /\ isUnsafeNetwork(n)
           /\ imageByNetwork[n] = Unsafe(imageByNetwork[env][1])
<1>1. CASE isUnsafeNetwork(env)
    BY <1>1, UnsafeImages DEF unsafeVariant
<1>2. CASE ~isUnsafeNetwork(env)
  <2>1. n \in DOMAIN UNSAFE_NETWORKS /\ UNSAFE_NETWORKS[n] = env
      BY <1>2 DEF unsafeVariant
  <2>2. n \in blockchainNetworkOptions /\ isUnsafeNetwork(n)
      BY <2>1, Unsafes, Networks DEF isUnsafeNetwork
  <2>3. imageByNetwork[n][1] = imageByNetwork[env][1]
      BY <2>1, ImagesOfVariants
  <2> QED
      BY <2>2, <2>3, UnsafeImages
<1> QED
    BY <1>1, <1>2

\* The name the runner is given for a network is the one ecld-init has for it.
LEMMA NamedOnNetwork ==
    ASSUME NEW env \in blockchainNetworkOptions,
           NEW n \in {env} \cup unsafeVariant(env)
    PROVE  nameOnNetwork(imageByNetwork[env], n) = imageByNetwork[n]
<1>1. PICK name : /\ name = imageByNetwork[env][1]
                  /\ isUnsafeNetwork(env) => imageByNetwork[env] = Unsafe(name)
                  /\ ~isUnsafeNetwork(env) => imageByNetwork[env] = Safe(name)
    BY UnsafeImages
<1>2. /\ nameOnNetwork(Unsafe(name), n) = Unsafe(name)
      /\ isUnsafeNetwork(n) => nameOnNetwork(Safe(name), n) = Unsafe(name)
      /\ ~isUnsafeNetwork(n) => nameOnNetwork(Safe(name), n) = Safe(name)
    BY DEF nameOnNetwork, Safe, Unsafe
<1>3. CASE n = env
    BY <1>1, <1>2, <1>3
<1>4. CASE n \in unsafeVariant(env)
  <2>1. isUnsafeNetwork(n) /\ imageByNetwork[n] = Unsafe(name)
      BY <1>1, <1>4, Variants
  <2> QED
      BY <1>1, <1>2, <2>1
<1> QED
    BY <1>3, <1>4

\* network.js, cas/config.js: what ecld-run asks the runner for fits the
\* network, in all the tables, and so does what the front end is given.
THEOREM RunsTheZone == Spec => []RunsItsNetworksZone
<1>1. ZoneInv => RunsItsNetworksZone
  <2> SUFFICES ASSUME ZoneInv, order # None
               PROVE  RunsItsNetworksZone
      BY DEF RunsItsNetworksZone
  <2>1. PICK n \in RunsOn : order = OrderOn(n)
      BY DEF ZoneInv
  <2>2. n \in blockchainNetworkOptions
      BY Variants DEF ZoneInv, RunsOn, RunNetworks
  <2>3. /\ order.network = networkFor[n]
        /\ order.securelock = nameOnNetwork(Safe("project"), n)
        /\ order.trustedzone = nameOnNetwork(imageByNetwork[args.env], n)
      BY <2>1 DEF OrderOn
  <2>4. IsUnsafeName(order.securelock) <=> order.network.unsafe
    <3>1. IsUnsafeName(nameOnNetwork(Safe("project"), n)) <=> isUnsafeNetwork(n)
        BY DEF IsUnsafeName, nameOnNetwork, Safe
    <3> QED
        BY <2>2, <2>3, <3>1, UnsafeFlags
  <2>5. ASSUME args.network = args.env \/ args.command = "start",
               NEW m \in blockchainNetworkOptions,
               networkFor[m] = order.network
        PROVE  order.trustedzone = imageByNetwork[m]
    <3>1. m = n
        BY <2>2, <2>3, <2>5, NetworksApart
    <3>2. n \in {args.env} \cup unsafeVariant(args.env)
        BY <2>5 DEF RunsOn, RunNetworks
    <3> QED
        BY <2>3, <3>1, <3>2, NamedOnNetwork DEF ZoneInv
  <2> QED
      BY <2>4, <2>5, TablesAgree DEF RunsItsNetworksZone
<1> QED
    BY <1>1, ZoneInit, ZoneStep, PTL DEF Spec
=============================================================================
