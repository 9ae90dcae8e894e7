\* Strings around the lengths a header tells.
SPECIFICATION Spec
CONSTANTS
    Width = 3
    Lengths = {0, 2, 44, 45, 55, 56}
    Strings <- MCStrings
    Ints <- MCFewInts
    MaxItems = 3
INVARIANT
    DecodedIsSame
CHECK_DEADLOCK FALSE
