SPECIFICATION MCSpec
CONSTANTS
    MAX_IDENTIFIER_BYTES = 2
    MAX_GRAPH_ID_BYTES = 1
    MAX_MESSAGE_BYTES = 2
    MAX_EVIDENCE_REFS = 2
    MAX_OBJECT_REFS = 2
    MAX_VIRTUAL_CONTEXTS = 2
    MAX_VIOLATION_SUMMARY = 2
    MAX_SEVERITY_BYTES = 1
    MAX_VIOLATION_MESSAGE_BYTES = 2
    MAX_REPORT_REFERENCE_BYTES = 2
    LastYear = 2
    Texts <- ByteTexts
    IdTexts <- ByteIds
    Operation <- Operations
CHECK_DEADLOCK FALSE
INVARIANTS EncodingsAreCanonical ReplayIsTheSameRequest VerdictIsTheValidators SummaryIsDeterministic
