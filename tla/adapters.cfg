CONSTANTS
    Tables <- MCTables
    Policies <- MCPolicies
    Requests <- MCRequests
    Answers <- MCAnswers
    Payloads <- MCPayloads
    DataUris <- MCDataUris
    Undecodable <- MCUndecodable
SPECIFICATION ForwardingSpec
INVARIANTS
    OnlyTextsAreRewritten
    EveryFileIsRead
    TheTrailNamesTheDestination
CHECK_DEADLOCK FALSE
