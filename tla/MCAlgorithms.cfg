\* The algorithms on every input that a few pieces make.
SPECIFICATION Spec
CONSTANTS
    Width = 4
    MaxExpansions = 1
    Lines <- MCLines
    QuotedTexts <- MCQuotedTexts
    Trees <- MCTrees
    Variables <- MCVariables
    SplitTexts <- MCSplitTexts
    Patterns <- MCPatterns
    Subjects <- MCSubjects
    WordPieces <- MCWordPieces
    Values <- MCValues
    BodyPieces <- MCBodyPieces
    ArgPieces <- MCArgPieces
    MaxPieces = 3
INVARIANTS
    LexingHasNoOtherState
    QuotingRoundTrip
    EvaluatorAgrees
    FieldSplitting
    PatternsMatch
    TextExpandsAsWritten
    OptionsAreDelivered
