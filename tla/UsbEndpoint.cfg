SPECIFICATION FairSpec
CONSTANT MaxReports = 2
INVARIANTS TogglesAgree CalmExactlyOnce
PROPERTY CalmSeen
