CONSTANTS
    ana = ana
    ben = ben
    Names <- MCNames
    MaxAccounts = 2
    CallId = 77
    Nobody = Nobody
SPECIFICATION Spec
INVARIANTS
    AnswersMatchTheirCalls
    StrangersGetNothing
    CredentialsLeadHome
PROPERTY CutCallsDoNothing
