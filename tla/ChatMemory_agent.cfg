SPECIFICATION FairSpec
CONSTANTS
    Turns = {t1, t2}
    MaxMessages = 3
    MaxChainTurns = 1
    SeedExchanges = 1
    MaxStored = 2
    MaxToolRounds = 2
    Roles = {"client", "owner", "onboarding"}
    None = None
INVARIANTS TypeOK NothingForgotten NoDanglingChain ChainKnowsAll CallsBounded
PROPERTIES TurnEnds
CHECK_DEADLOCK FALSE
