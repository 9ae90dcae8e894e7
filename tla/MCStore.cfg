\* Two buckets and two keys over a backend of each kind.
SPECIFICATION Spec
CONSTANTS
    BucketID <- MCBucketID
    Key <- MCKey
    Byte = {1, 2}
    Value = {v1}
    Backends = {"goleveldb", "mapdb"}
    Absent = Absent
    Through = Through
INVARIANT
    FlushedHoldsNothing
PROPERTY
    ImplementsKeyValue
