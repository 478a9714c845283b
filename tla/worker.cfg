\* Every kind of image and asset request of one isolate, two redirects at most.
CONSTANTS
    Null = Null
    Undefined = Undefined
    LocalPatterns <- MCLocalPatterns
    RemotePatterns <- MCRemotePatterns
    Widths = {64}
    Qualities = {75}
    Formats <- MCFormats
    Requests = {r1}
    Inputs <- MCInputs
    Configs <- MCConfigs
    Files <- MCFiles
    MaxRedirects = 2
SPECIFICATION FairSpec
INVARIANTS TypeOK TrueImages RulesDecide
PROPERTY RequestEnds
CHECK_DEADLOCK FALSE
