SPECIFICATION Spec
CONSTANTS
    Generations <- MCGenerations
    Content <- MCContent
    Installed <- MCInstalled
    Contents <- MCContents
    Required <- MCRequired
    Absent = Absent
    MaxJobs = 4
    MaxUpsets = 1
INVARIANTS CatalogIsSound BuildsLoad
PROPERTIES RollbackIsExact CatalogArrives
CHECK_DEADLOCK FALSE
