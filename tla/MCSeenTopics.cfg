\* Up to five add_topic calls over three stream and four topic spellings.
CONSTANTS
    StreamNames <- MCStreamNames
    TopicNames <- MCTopicNames
    LowerChar <- MCLowerChar
    CodeUnit <- MCCodeUnit
    MaxAdds = 5
SPECIFICATION Spec
INVARIANT TypeOK
INVARIANT TopicsSeenForMatchesHistory
\* add_topic's callers stop once the bound on calls is reached.
CHECK_DEADLOCK FALSE
