CONSTANTS
    Names = {"web", "bob's"}
    Services <- MCServices
    Unquotable = {"bob's"}
    Page = page
    MaxNew = 3
SPECIFICATION FairSpec
INVARIANT TypeOK
 
 
CHECK_DEADLOCK FALSE
