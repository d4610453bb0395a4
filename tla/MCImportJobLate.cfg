SPECIFICATION Spec
CONSTANTS
    j1 = j1
    j2 = j2
    f1 = f1
    f2 = f2
    f3 = f3
    d1 = d1
    d2 = d2
    NoJob = NoJob
    NoFile = NoFile
    Idle = Idle
    Completing = Completing
    Jobs = {j1}
    Files = {f1}
    Digests = {d1, d2}
    Digest <- MCDigest
    Total = 3
    ChunkLen = 2
    MaxBuilds = 1
    MaxLate = 2
PROPERTIES QueuedUploadsAreWhole
