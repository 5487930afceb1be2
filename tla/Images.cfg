SPECIFICATION Spec
CONSTANTS
    r1 = r1 r2 = r2 a = a b = b
    Refs = {r1, r2}
    Contents = {a, b}
    Snap = Snap
    None = None
    CanFail = {"pull", "refuse", "download", "docker", "get_image", "unpause",
               "upload", "discard", "crash"}
    Mixes <- MCMixes
    MaxThreads = 4
CHECK_DEADLOCK FALSE
INVARIANTS DoneAsAsked 
PROPERTIES CommitResumes 
