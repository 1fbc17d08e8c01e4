SPECIFICATION Spec
CONSTANTS
    Unlisted = unlisted
    LegacyShipments = {"pending", "partial", "exception", "reconciled", "complete", "failed", unlisted}
    LoadTables <- MCLoadTables
INVARIANTS
    RulingsSurvive
    RefusalsAreExplained
PROPERTIES
    UpgradesAreCoherent
    FailuresStayFailures
