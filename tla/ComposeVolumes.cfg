SPECIFICATION CoSpec
CONSTANTS
    Projects = {"web", "web-api"}
    NameMatches <- MCMatches
    NumVersions = 2
    Tasks = {1}
    MaxTries = 1
    MaxDowns = 2
    Faults = 1
PROPERTIES OwnVolumesOnly
CHECK_DEADLOCK FALSE
