\* Requests share nothing, so one is enough: four records and two slots, so
\* that jobs wait while others back off.
CONSTANTS
    Requests = {r1}
    MaxJobs = 4
    SlotLimit = 2
    EnrichRetries = 2
    ScrapeRetries = 3
    PageLimit = 3
    Page <- MCPage
    Untitled = 0
SPECIFICATION FairSpec
INVARIANTS
    ScrapeComplete
PROPERTIES
    RequestsAnswered
