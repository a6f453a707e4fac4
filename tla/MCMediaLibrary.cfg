\* Three uploads and two deletions at the same time, with every failure.
CONSTANTS
    Keys = {k1, k2, k3}
    Deleters = {d1, d2}
    None = None
SPECIFICATION Spec
INVARIANTS TypeOK RecordHasFile NoSilentOrphans
