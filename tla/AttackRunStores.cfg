SPECIFICATION Spec
CONSTANTS
    CTX = ctxA
    OTHER_CTX = ctxB
    NONE = none
    SeedCount = 5
    MaxSeq = 6
    Targets = {"reference", "openfang", "openfang_strict", "langgraph_sqlite",
               "langgraph_postgres", "langgraph_redis", "crewai", "openai_agents",
               "llamaindex", "mem0", "letta", "vertex", "ledger", "inspeximus_default",
               "inspeximus_dir", "inspeximus_home", "atelya", "atelya_anchor", "continuum",
               "continuum_attest", "atmem", "atmem_checkpoint", "acrf", "blackbox",
               "blackbox_restart", "agent_memory"}
    Broken = FALSE
    MaxRuns = 3
INVARIANTS
    ScoresAsPublished
PROPERTY EveryRunReports
CHECK_DEADLOCK FALSE
