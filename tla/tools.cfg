SPECIFICATION PolicySpec
CONSTANTS
    Names = {a, b, c}
    None = None
    Inputs <- MCInputs
    MaxChanges = 2
CHECK_DEADLOCK FALSE
INVARIANTS
    RelabelKeepsMeaning
PROPERTIES
    AnswersAsListed
