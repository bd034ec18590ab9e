CONSTANTS
    Kinds = {"naive", "unscoped", "defended", "inspeximus", "inspeximus_label", "inspeximus_key",
             "inspeximus_unseeded", "mem0_local", "mem0", "langgraph_store", "letta_archival",
             "replacing", "no_filter", "filter_ignoring", "rewording", "flaky"}
    Fillers = {0, 6}
    MaxFixtures = 2
    MaxFailures = 2
    MaxUnseen = 1
SPECIFICATION Spec
INVARIANTS TypeOK SafeIsEarned ServedIsOfThisTrial ResultsAsPublished ScoredIsFound
