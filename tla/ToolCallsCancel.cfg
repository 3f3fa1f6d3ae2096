SPECIFICATION Spec
CONSTANTS
    Strategies <- MCGraceful
    Kinds <- MCPlain
    Streaming <- MCQuiet
    Sizes <- MCSmall
    MaxRetries = 1
    ToolCallLimit = 2
INVARIANT CancelKeepsFinished
