SPECIFICATION BootstrapSpec
CONSTANTS
    MaxJobs = 3
PROPERTY BootstrapKeepsData
CHECK_DEADLOCK FALSE
