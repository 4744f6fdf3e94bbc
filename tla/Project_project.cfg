\* Builds and publishes on four kinds of network, one change between two.
SPECIFICATION Spec
CONSTANTS
    Projects = {"app", "other"}
    Networks = {"Bloxberg_Mainnet", "Bloxberg_Testnet", "IoTeX_Testnet", "Ethereum_Sepolia_Unsafe"}
    Heaps = {256, 1024}
    MaxVersion = 3
    MaxChanges = 1
    None = None
INVARIANTS
    HandedIsOneBuild
    BuiltForItsNetwork
    UneditedBuildPublishes
PROPERTIES NamesAreNew
