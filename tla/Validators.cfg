SPECIFICATION Spec
CONSTANTS
    Words <- MCWords
    Size <- Sizes
    Alnum <- MCAlnum
    Visible <- MCVisible
    Upper <- MCUpper
    Typed <- MCTyped
    Complaints <- MCComplaints
    Lines <- MCLines
    Payloads <- MCPayloads
INVARIANTS
    TypeOK
    SameMessage
    ReadBack
    ShownIsWhatCame
    FitsBuffer
PROPERTIES
    NameFollowsCommand
