\* Three releases, the image with the first; two faults anywhere.
CONSTANTS
    Versions = {1, 2, 3}
    Image = 1
    MaxFaults = 2
SPECIFICATION FairSpec
INVARIANTS CurrentWhole PendingExactly
PROPERTIES  KeepsUpUnlessKilled
