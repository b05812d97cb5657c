SPECIFICATION ArchiveSpec
CONSTANTS
    Names <- MCNames
    Archives <- MCArchives
    Characters <- MCCharacters
    Texts <- MCTexts
    ExpectedTexts <- MCExpectedTexts
    MaxExtractedBytes = 2
    MaxTestCases = 1
    MaxFailures = 1
INVARIANTS
    Contained
    AcceptedUsable
    MatchIsLinewise
CHECK_DEADLOCK FALSE
