CONSTANTS Modes = {"run"}
SPECIFICATION FairSpec
PROPERTY FailureRestarts
