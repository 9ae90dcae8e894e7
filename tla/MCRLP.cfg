\* Streams of three items, at every level they may have.
SPECIFICATION Spec
CONSTANTS
    Width = 3
    Lengths = {0, 2, 44, 54, 55, 56, 256}
    Strings <- MCStrings
    Ints <- MCInts
    MaxItems = 3
INVARIANTS
    ReadsBack
    NumbersReadBack
    KeysInOrder
CHECK_DEADLOCK FALSE
