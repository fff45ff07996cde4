SPECIFICATION TempFairSpec
CONSTANT Polls = 150
INVARIANT NeverSwapped
PROPERTY OwnInTheEnd
