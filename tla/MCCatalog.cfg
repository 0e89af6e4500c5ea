SPECIFICATION Spec
CONSTANTS
    r1 = r1
    r2 = r2
    b1 = b1
    b2 = b2
    Dbs = {"sqlite", "postgres"}
    Projects = {"p"}
    Datasets = {"d1", "d2"}
    Tasks = {"t"}
    Names = {"x", "y"}
    Labels = {"l"}
    Blobs = {b1, b2}
    Missing = Missing
    Requests = {r1, r2}
    Batches <- MCBatches
    Ops = {"mkdir", "patch", "rmdir", "rmproject", "add", "rm", "derive", "submit", "build"}
    NoHash = NoHash
    None = None
    Gone = Gone
    MaxOps = 5
    MaxImages = 4
SYMMETRY RequestSymmetry
CHECK_DEADLOCK FALSE
INVARIANTS ManifestCurrent RefcountExact NoOrphans StampsHonest
