CONSTANTS
    Sizes <- MCSizes
    HeaderLens <- MCHeaderLens
    LenBytes <- MCLenBytes
    ObjectLens <- MCObjectLens
    Sums <- MCSums
    Digits = {1, 7}
SPECIFICATION Spec
INVARIANTS
    ReadsBounded
    PositionsAgree
    NothingCutOff
    SoundAccepted
PROPERTIES
    Ends
