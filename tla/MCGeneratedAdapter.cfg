CONSTANTS
    Validates <- validate_mapping
    Canonical <- canonical_value
    Parses <- parse_json
    Atoms <- atoms
    NotUtf8 <- MCNotUtf8
    Evaluates <- evaluate
    ListsWithin <- lists_within
    Products <- MCProducts
    Answers <- MCAnswers
    Recognitions <- MCRecognitions
    DecimalTexts <- MCDecimalTexts
    DateTexts = {"2026-06-17"}
    AbsolutePaths = {"/v1", "//host"}
    SafePaths = {"/v1"}
    Reserved = {"Authorization", "AUTHORIZATION"}
    kMaximumDepth = 8
    kMaximumIdentifier = 2
    kMaximumMessage = 2
    kMaximumMinutes = 1440
    Int32Range = 4096
    None = None
SPECIFICATION Spec
INVARIANTS
    AcceptedProductBuilds
    EvaluatorHasTheDepth
    SnapshotIsWhole
    OnlyRefusalForgets
