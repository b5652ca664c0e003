\* Every input of up to five octets, every list of up to six tokens, every module.
SPECIFICATION MCSpec
CONSTANTS
    Parts = {"integers", "list", "module"}
    PayloadBits = 2
    WordBits = 5
    Base = 3
    MaxLength = 5
    Texts <- MCTexts
    Known <- MCKnown
    MaxCaps = 3
    MaxTokens = 6
    Modules <- MCModules
    Requests <- MCRequests
    Authorizations <- MCAuthorizations
    Limits <- MCLimits
INVARIANTS IntegersExact RequestIsList AdmittedOpens ImportsLinked EntriesAreGuestCode
