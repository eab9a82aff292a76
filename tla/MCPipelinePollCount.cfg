SPECIFICATION PipelineSpec
CONSTANTS
    RateLimit = 1
    MaxPolls = 2
    MaxExtra = 0
    MaxReports = 2
    Retries = 0
INVARIANTS
    PollCountIsPolls
