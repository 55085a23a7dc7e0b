CONSTANTS
    Chars <- AllChars
    Inputs <- AllInputs
    Breaks = {"none", "space", "line"}
    Place <- PlaceOf
    Amount <- AmountOf
    Printed <- PrintedOf
    Less <- IsLess
    Equal <- IsEqual
    Blocks <- OwnedBlocks
    Used <- Kept
    Operands <- Added
    Values <- Composed
    Names <- Keyed
    MaxEdits = 2

SPECIFICATION ProgramSpec
INVARIANTS ReadsWithinBuffer ReadsWhatWasWritten WalksMeetAll NothingLeaks Ordered
PROPERTY ProgramEnds
CHECK_DEADLOCK FALSE
