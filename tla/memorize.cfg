SPECIFICATION Spec
CONSTANTS
    first = first
    second = second
    flushing = flushing
    ann = ann
    bob = bob
    Messages = {1, 2, 3}
    Calls = {first, second, flushing}
    Payload <- Requests
    Sender <- Speakers
    Settings <- Dialogues
    None = none
    MaxSends <- OneResend
INVARIANTS
    TypeOK
    AckedMessagesKept
    FoldedOnce
    AnsweredCellsHaveEpisodes
PROPERTIES
    FlushLeavesNoChat
CHECK_DEADLOCK FALSE
