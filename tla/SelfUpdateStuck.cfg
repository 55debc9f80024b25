\* One stop of the container or timeout at the wrong moment.
CONSTANTS
    Versions = {1, 2}
    Image = 1
    MaxFaults = 1
SPECIFICATION FairSpec
PROPERTY KeepsUp
