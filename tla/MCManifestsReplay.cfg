SPECIFICATION MCSpec
CONSTANTS
    Paths = {1, 2}
    Contents = {1}
    SizeOf <- MCSizeOf
    MimeOf <- MCMimeOf
    Configs <- MCConfigs
    InitialConfig <- MCInitialConfig
    RepoFuel = 20
    QuotaFuel = 8
    Refused <- MCRefused
    FuelNeeded <- MCFuelNeeded
    Starters <- MCStarters
    MinimalSchema <- MCMinimal
    StarterProbes <- MCStarterProbes
    InitialProbes <- MCInitialProbes
    ProbeBlobs <- MCProbeBlobs
    Outcome <- MCOutcome
    FieldOptions <- ArgumentFields
    InitialSchemas <- MCInitialSchemas
    Schemas <- MCSchemas
    Supplies <- MCSupplies
    Overrides = {0, 2}
    MaxStaged = 2
    MaxCommits = 3
INVARIANT ReplaysBitForBit
CHECK_DEADLOCK FALSE
