CONSTANTS
    o1 = o1
    o2 = o2
    Objects <- MCObjects
    Lines = {"itemnew", "itemremove"}
    Notice = "notice"
    Size <- MCSize
    Chunk = 4
    Room = 4
    MaxLines <- MCMaxLines
SPECIFICATION FairSpec
INVARIANT TypeOK
INVARIANT WholeLines
PROPERTY OnlyOwnChild
 
PROPERTY StreamSpec
PROPERTY LinesArrive
CHECK_DEADLOCK FALSE
