\* Only the canonical encoding of a list of capabilities, as documented.
SPECIFICATION MCSpec
CONSTANTS
    Parts = {"list"}
    PayloadBits = 2
    WordBits = 5
    Base = 3
    MaxLength = 1
    Texts <- MCTexts
    Known <- MCKnown
    MaxCaps = 3
    MaxTokens = 6
    Modules <- MCModules
    Requests <- MCRequests
    Authorizations <- MCAuthorizations
    Limits <- MCLimits
INVARIANTS OnlyCanonical
