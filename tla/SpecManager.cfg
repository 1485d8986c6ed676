\* Two goroutines sharing one manager, one tag, and two revisions on both
\* sides of a change in digit count (9 and 10), where key order and numeric
\* order part unless the revision key is padded.
CONSTANTS
    Procs = {p1, p2}
    Revisions = {9, 10}
    Tags = {"approved"}
    MaxTagWrites = 2
SPECIFICATION Spec
INVARIANT TypeOK
INVARIANT CacheNeverAhead
INVARIANT NewestIsLastKey
INVARIANT IteratorsSelectTheirKeys
