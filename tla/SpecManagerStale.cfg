CONSTANTS
    Procs = {p1, p2}
    Revisions = {0, 1}
    Tags = {"approved"}
    MaxTagWrites = 2
SPECIFICATION Spec
INVARIANT ReadsAreFresh
