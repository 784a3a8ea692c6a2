SPECIFICATION Spec
CONSTANTS
    k1 = k1
    k2 = k2
    c1 = c1
    c2 = c2
    Secrets <- MCSecrets
    Blank = Blank
    Words <- MCWords
    SlotsPerDay = 2
    Callers <- MCCallers
    NoRow = NoRow
    Envs <- MCEnvs
    Worlds <- MCWorlds
    Edits <- MCEdits
    MaxSaves = 4
    MaxRestarts = 1
INVARIANTS
    TypeOK
    SecretsAreKept
    SavedLoads
    EchoChangesNothing
    TestAgreesWithRun
    NextRunIsNext
CHECK_DEADLOCK FALSE
