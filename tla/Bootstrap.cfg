CONSTANTS
    v = v
    Version = {v}
    NoVersion = NoVersion
    Command <- Commands
    None = None
    MaxFailures = 1
SPECIFICATION FairSpec
INVARIANTS TypeOK SuccessIsTrue OidcHasSecret
PROPERTIES ExportWritesNothing OidcKept EventuallyInstalled EventuallyOidc
