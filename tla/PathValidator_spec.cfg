\* Every path of up to five segments over the tokens of MCPathValidator.
CONSTANTS
    Tokens <- MCTokens
    DotDotTokens <- MCDotDot
    MaxSegments = 5
SPECIFICATION Spec
\* One validation per path; nothing follows.
CHECK_DEADLOCK FALSE
INVARIANT ValidatorMatchesSpec
