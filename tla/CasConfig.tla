----------------------------- MODULE CasConfig -----------------------------
(***************************************************************************)
(* The tables of the networks: cas/config.js, network.js and the tables    *)
(* ecld-init and ecld-build keep beside them.  A network is the value of   *)
(* BLOCKCHAIN_NETWORK.  An image name is a pair: the name and whether it   *)
(* ends in -unsafe.  A template (TRUSTED_ZONE_IMAGE) is named without its  *)
(* service, for which the tables agree.  An address is named by its first  *)
(* digits.                                                                 *)
(***************************************************************************)
EXTENDS Naturals, FiniteSets, TLC

Services == {"Nodenithy", "Pynithy"}

MAINNETS == {"Bloxberg_Mainnet", "Polygon_Mainnet"}

\* Each with the network it is the unsafe variant of.
UNSAFE_NETWORKS ==
    [n \in {"Bloxberg_Testnet_Unsafe", "LitVM_LiteForge_Unsafe",
           "Ethereum_Sepolia_Unsafe", "Polygon_Amoy_Testnet_Unsafe"} |->
       CASE n = "Bloxberg_Testnet_Unsafe" -> "Bloxberg_Testnet"
         [] n = "LitVM_LiteForge_Unsafe" -> "LitVM_LiteForge"
         [] n = "Ethereum_Sepolia_Unsafe" -> "Ethereum_Sepolia"
         [] n = "Polygon_Amoy_Testnet_Unsafe" -> "Polygon_Amoy_Testnet"]

isUnsafeNetwork(network) == network \in DOMAIN UNSAFE_NETWORKS

TESTNETS ==
    {"Bloxberg_Testnet", "Polygon_Amoy_Testnet", "IoTeX_Testnet",
     "Ethereum_Sepolia", "LitVM_LiteForge"} \cup DOMAIN UNSAFE_NETWORKS

\* What ecld-init offers.
blockchainNetworkOptions == MAINNETS \cup TESTNETS

Safe(name) == <<name, FALSE>>
Unsafe(name) == <<name, TRUE>>

\* TRUSTED_ZONE_IMAGE, as ecld-init writes it.
imageByNetwork ==
    [n \in blockchainNetworkOptions |->
       CASE n = "Bloxberg_Mainnet" -> Safe("etny")
         [] n = "Bloxberg_Testnet" -> Safe("etny-testnet")
         [] n = "Polygon_Mainnet" -> Safe("ecld")
         [] n = "Polygon_Amoy_Testnet" -> Safe("ecld-amoy")
         [] n = "IoTeX_Testnet" -> Safe("ecld-iotex-testnet")
         [] n = "Ethereum_Sepolia" -> Safe("ecld-ethereum-sepolia")
         [] n = "LitVM_LiteForge" -> Safe("ecld-litvm-testnet")
         [] n = "Bloxberg_Testnet_Unsafe" -> Unsafe("etny-testnet")
         [] n = "LitVM_LiteForge_Unsafe" -> Unsafe("ecld-litvm-testnet")
         [] n = "Ethereum_Sepolia_Unsafe" -> Unsafe("ecld-ethereum-sepolia")
         [] n = "Polygon_Amoy_Testnet_Unsafe" -> Unsafe("ecld-amoy")]

\* The name ends in -unsafe.
IsUnsafeName(name) == name[2]

\* The ValidatorRegistry of a template.
VALIDATOR_REGISTRY ==
    [t \in {Safe(name) : name \in {"etny-testnet", "ecld-litvm-testnet",
                                   "ecld-ethereum-sepolia", "ecld-amoy"}} |->
       CASE t[1] = "etny-testnet" -> "0x8CC8"
         [] t[1] = "ecld-litvm-testnet" -> "0xbE37"
         [] t[1] = "ecld-ethereum-sepolia" -> "0x8ad2"
         [] t[1] = "ecld-amoy" -> "0x70bf"]

\* The SessionRegistry of a template.
SESSION_REGISTRY ==
    [t \in {Safe(name) : name \in {"etny-testnet", "ecld-litvm-testnet",
                                   "ecld-ethereum-sepolia", "ecld-amoy"}} |->
       CASE t[1] = "etny-testnet" -> "0x78f0"
         [] t[1] = "ecld-litvm-testnet" -> "0xfA70"
         [] t[1] = "ecld-ethereum-sepolia" -> "0xDbB2"
         [] t[1] = "ecld-amoy" -> "0x0596"]

\* The chain the registries are read and written on.
CHAIN ==
    [t \in {Safe(name) : name \in {"etny-testnet", "ecld-litvm-testnet",
                                   "ecld-ethereum-sepolia", "ecld-amoy"}} |->
       CASE t[1] = "etny-testnet" -> 8995
         [] t[1] = "ecld-litvm-testnet" -> 4441
         [] t[1] = "ecld-ethereum-sepolia" -> 11155111
         [] t[1] = "ecld-amoy" -> 80002]

\* The chain a build bakes into the enclave.
ECRunner ==
    [t \in {Safe(name) : name \in {"etny", "etny-testnet", "ecld", "ecld-amoy",
                "ecld-iotex-testnet", "ecld-ethereum-sepolia",
                "ecld-litvm-testnet"}}
           \cup {Unsafe(name) : name \in {"etny-testnet", "ecld-amoy",
                    "ecld-ethereum-sepolia", "ecld-litvm-testnet"}} |->
       CASE t[1] = "etny" -> 8995
         [] t[1] = "etny-testnet" -> 8995
         [] t[1] = "ecld" -> 137
         [] t[1] = "ecld-amoy" -> 80002
         [] t[1] = "ecld-iotex-testnet" -> 4690
         [] t[1] = "ecld-ethereum-sepolia" -> 11155111
         [] t[1] = "ecld-litvm-testnet" -> 4441]

\* The networks a build of the service knows a published trustedzone for:
\* build.mjs of Pynithy leaves two of the unsafe networks out.
trustedZoneNetByBlockchain ==
    [service \in Services |->
        IF service = "Nodenithy" THEN blockchainNetworkOptions
        ELSE blockchainNetworkOptions
                 \ {"Ethereum_Sepolia_Unsafe", "Polygon_Amoy_Testnet_Unsafe"}]

casProvisioned(template, network) ==
    network \in MAINNETS \/ template \in DOMAIN SESSION_REGISTRY

\* A session admits debug-signed enclaves on a testnet only.
sessionAttestation(network) ==
    IF network \in TESTNETS THEN "debug" ELSE "production"

\* The name an image has on a network.
nameOnNetwork(name, network) ==
    <<name[1], name[2] \/ isUnsafeNetwork(network)>>

\* The network's part of a session name: the second word of the network.
sessionTag(network) ==
    << CASE network \in MAINNETS -> "mainnet"
         [] network \in {"Bloxberg_Testnet", "Bloxberg_Testnet_Unsafe",
                         "IoTeX_Testnet"} -> "testnet"
         [] network \in {"Polygon_Amoy_Testnet",
                         "Polygon_Amoy_Testnet_Unsafe"} -> "amoy"
         [] network \in {"Ethereum_Sepolia", "Ethereum_Sepolia_Unsafe"}
              -> "sepolia"
         [] network \in {"LitVM_LiteForge", "LitVM_LiteForge_Unsafe"}
              -> "liteforge",
       isUnsafeNetwork(network) >>

\* The services and settings a rendered compose keeps.
renderCompose(cas, unsafe) ==
    {"securelock", "trustedzone"}
    \cup (IF unsafe THEN {} ELSE {"las"})
    \cup (IF cas THEN {"casAddress"} ELSE {"noCas"})

\* The registry address a session sets; "none" for a comment.
esrSessionEnvironment(esr) == IF esr = "on" THEN "on" ELSE "none"

\* The runner's network: its token, by chain and type, and whether only
\* -unsafe trustedzones run.
networkFor ==
    LET of(chain, token, unsafe) ==
            [chain |-> chain, token |-> token, unsafe |-> unsafe]
    IN  [n \in blockchainNetworkOptions |->
           CASE n = "Bloxberg_Testnet" -> of(8995, "testnet", FALSE)
             [] n = "Bloxberg_Testnet_Unsafe" -> of(8995, "testnet", TRUE)
             [] n = "Bloxberg_Mainnet" -> of(8995, "mainnet", FALSE)
             [] n = "Polygon_Mainnet" -> of(137, "mainnet", FALSE)
             [] n = "Polygon_Amoy_Testnet" -> of(80002, "testnet", FALSE)
             [] n = "Polygon_Amoy_Testnet_Unsafe" -> of(80002, "testnet", TRUE)
             [] n = "IoTeX_Testnet" -> of(4690, "testnet", FALSE)
             [] n = "Ethereum_Sepolia" -> of(11155111, "testnet", FALSE)
             [] n = "Ethereum_Sepolia_Unsafe" -> of(11155111, "testnet", TRUE)
             [] n = "LitVM_LiteForge" -> of(4441, "testnet", FALSE)
             [] n = "LitVM_LiteForge_Unsafe" -> of(4441, "testnet", TRUE)]

\* The -unsafe variant of a network, or none.
unsafeVariant(network) ==
    IF isUnsafeNetwork(network) THEN {network}
    ELSE {n \in DOMAIN UNSAFE_NETWORKS : UNSAFE_NETWORKS[n] = network}

-----------------------------------------------------------------------------
(***************************************************************************)
(* What the tables must say alike of a network.                            *)
(***************************************************************************)

\* A template with sessions has validators and the chain its enclaves were
\* built for, and shares no address with a template of another chain.
SessionsHaveValidators(template) ==
    template \in DOMAIN SESSION_REGISTRY =>
        /\ template \in DOMAIN VALIDATOR_REGISTRY \cap DOMAIN CHAIN
        /\ CHAIN[template] = ECRunner[template]
        /\ \A other \in DOMAIN SESSION_REGISTRY :
              /\ SESSION_REGISTRY[template] # VALIDATOR_REGISTRY[other]
              /\ \/ SESSION_REGISTRY[template] = SESSION_REGISTRY[other]
                 \/ VALIDATOR_REGISTRY[template] = VALIDATOR_REGISTRY[other]
                 => CHAIN[template] = CHAIN[other]

\* An unsafe network has an -unsafe template, no CAS and its sibling's chain.
UnsafeHasNoCas(network) ==
    /\ isUnsafeNetwork(network) <=> IsUnsafeName(imageByNetwork[network])
    /\ isUnsafeNetwork(network) =>
          ~casProvisioned(imageByNetwork[network], network)
    /\ \A u \in unsafeVariant(network) :
          networkFor[u].chain = networkFor[network].chain

\* No other network has its template, or its runner's network.
IsToldApart(network) ==
    \A other \in blockchainNetworkOptions \ {network} :
        /\ imageByNetwork[other] # imageByNetwork[network]
        /\ networkFor[other] # networkFor[network]

TablesConsistent ==
    \A n \in blockchainNetworkOptions :
        /\ SessionsHaveValidators(imageByNetwork[n])
        /\ UnsafeHasNoCas(n)
        /\ IsToldApart(n)
        /\ ECRunner[imageByNetwork[n]] = networkFor[n].chain
=============================================================================
