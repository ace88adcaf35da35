SPECIFICATION FileSpec
CONSTANTS
    Hardware = {videotoolbox, vaapi}
    Cpu = cpu
    None = none
    MaxRuns = 3
    NoFile = nofile
    Lines <- MCLines
    Worth <- MCWorth
    MaxLines = 4
    Limit = 9
    Bundles = {b1, b2}
    Targets = {mac, win, linux}
    WithInstaller = {mac, linux}
    Builds = {one, two}
    MaxChanges = 2
SYMMETRY HardwareSymmetry
INVARIANTS
    ProofIsOfItsRun
    AcceptedIsEarned
    ProvenOutputStays
    SummaryIsOfTheStream
    PackageSurvives
    PublishedIsWhole
    AcceptedRowIsOneBuild
CHECK_DEADLOCK FALSE
