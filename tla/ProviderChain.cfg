CONSTANTS
    claude = claude
    openai = openai
    typo = typo
    None = None
    Providers = {claude, openai}
    Unknown = {typo}
    Probed = {openai}
    Mode <- MCMode
    Fails <- MCFails
    Configs <- MCConfigs
    MaxAge = 1
SPECIFICATION FairSpec
INVARIANTS
    TypeOK
    ChainIsFollowed
    RetriesAreBounded
PROPERTIES
    SkipsAreFounded
    SilentIsTriedAgain
