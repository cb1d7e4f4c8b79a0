CONSTANTS
    CHAINS <- MCChains
    MINTED <- MCChains
    LADDER <- MCChains
    MaxCalls = 2
SPECIFICATION Spec
INVARIANTS TypeOK MixtureIsRefused MintedIsWhole BuiltLeafFitsItsCA AltSignatureCovers
