SPECIFICATION MailSpec
CONSTANTS
    Chats = {s1, s2}
    Boxes = {1, 2}
    MaxBooks = 1
    MaxUid = 2
    MaxMail = 3
    MaxNumber = 3
INVARIANTS NumbersStand IdsStand NoQuietGaps
SYMMETRY Symmetry
CHECK_DEADLOCK FALSE
