SPECIFICATION HashesSpec
CONSTANTS
    Block = 2
    Word = 4
    MaxInput = 16
    SBlock = 4
    SWord = 8
    SMaxInput = 24
INVARIANTS
    DigestIsOfPadded
PROPERTIES
    DigestIsOfInput
