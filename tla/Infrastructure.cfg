\* Every cron and account, two addresses, two pages of objects, one stopped
\* instance, two faults.
SPECIFICATION AwsSpec
CONSTANTS
    home = home
    away = away
    Settings <- MCSettings
    Addresses <- MCAddresses
    MaxPages = 2
    MaxStops = 1
    MaxFailures = 2
SYMMETRY MCSymmetry
INVARIANTS ProvisionIsComplete OneWorkerPerFault LaunchedIsEquipped TeardownIsComplete ScheduleHasItsTarget
PROPERTIES NothingElseWedges
