CONSTANTS
    Ungated = {u1, u2}
    Background = {bg}
    Counting = {ct}
    Agent = agent
    Nobody = Nobody
    Threshold = 3
    AuthLimit = 2
    MaxErrors = 1
    MaxRestarts = 1
SPECIFICATION FairSpec
PROPERTY RecoversAfterOutage
PROPERTY AgentAuthenticates
INVARIANT TypeOK
INVARIANT ClosedBelowThreshold
