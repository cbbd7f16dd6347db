\* Two browsers, two users and a token: edits and deletions under a request.
CONSTANTS
    root = root
    ann = ann
    ci = ci
    b1 = b1
    b2 = b2
    t1 = t1
    read = read
    Names = {root, ann, ci}
    AdminUser = root
    Listed = {root}
    LocalNames = {ann}
    Legacy <- OldMapping
    LegacyAdmins = {}
    Browsers = {b1, b2}
    UsedBy <- OneEach
    Managed = {ann}
    Tokens = {t1}
    TokenName <- Labelled
    Scopes = {read}
    Needs <- AdminOrScope
    MaxRequests = 2
    MaxIds = 2
    MaxFailures = 1
SPECIFICATION Spec
INVARIANTS TypeOK AdmittedWasEntitled DeniedHadReason AdminFlagHasSource
