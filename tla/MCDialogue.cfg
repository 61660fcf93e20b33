SPECIFICATION Spec
CONSTANTS
    MaxDepth = 3
    Billion = 100
    Ceiling = 200
    Words <- MCWords
    PlainNames <- MCPlainNames
    Questions <- MCQuestions
    Nodes <- MCNodes
    Replies <- MCReplies
    Refusals <- MCRefusals
    Redirects <- MCRedirects
    Probes = {0, 1, 2, 5, 255}
CHECK_DEADLOCK FALSE
INVARIANTS
    HeardAsAsked
    AnswersAreRead
    ValuesComeBack
    OnlyWholeValues
