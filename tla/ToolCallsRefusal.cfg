SPECIFICATION Spec
CONSTANTS
    Strategies <- MCGraceful
    Kinds <- MCHidden
    Streaming <- MCQuiet
    Sizes <- MCSmall
    MaxRetries = 1
    ToolCallLimit = 2
INVARIANT RefusalsExclusive
