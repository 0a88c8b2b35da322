CONSTANTS
    Boards = {b1, b2}
    FieldTypes <- MCFieldTypes
    LabelInputs <- MCLabelInputs
    RegexInputs <- MCRegexInputs
    DefaultInputs <- MCDefaultInputs
    MaxFills = 1
    MaxEdits = 1
    MaxAdminEdits = 1
    None = None
SPECIFICATION Spec
SYMMETRY MCSymmetry
INVARIANT TypeOK
INVARIANT DiffOnlyEditedOrRemote
PROPERTY UntouchedDefaultAccepted
\* The pages stop after the edit page navigates away, or once the bounded
\* fills and edits are spent.
CHECK_DEADLOCK FALSE
