SPECIFICATION Spec
CONSTANTS
    Manifests <- MCManifests
    Strings <- MCStrings
    Upper <- MCUpper
    Lower <- MCLower
    Prefixes <- MCPrefixes
    Number <- MCNumber
    Channels <- MCChannels
    MaxLines = 12
INVARIANTS
    TypeOK
    FetchesTheChannel
    ImagesAreStanzas
    CutSparesTheRest
CHECK_DEADLOCK FALSE
