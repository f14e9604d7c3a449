SPECIFICATION RolesSpec
CONSTANTS
    src = src  SRC = SRC  test = test  prod2 = prod2  banned = banned  state = state
    m = m  o = o  g = g  NoResult = NoResult
    File <- Spelled
    Canonical <- Spelling
    AllowedPath = {src, test, banned, state}
    ForbiddenPath = {banned}
    Control = {state}
    UnderTests = {test}
    Criterion = {m, o}
    Mandatory = {m}
    Gate = {g}
    ImplementerReport <- ImplementerReports
    TesterReport <- TesterReports
    ReviewerReport <- ReviewerReports
    Dossier <- Dossiers
INVARIANTS HandoverIsAccepted ReadyIsProven
CHECK_DEADLOCK FALSE
