SPECIFICATION Spec
CONSTANTS
  CTX = ctxA
  OTHER_CTX = ctxB
  SeedCount = 2
  Kinds = {"langgraph_sqlite", "langgraph_postgres", "langgraph_redis", "crewai",
           "openai_agents", "llamaindex", "mem0", "letta", "vertex", "ledger",
           "inspeximus_default", "inspeximus_dir", "inspeximus_home",
           "atelya", "atelya_anchor", "continuum", "continuum_attest",
           "atmem", "atmem_checkpoint", "acrf", "blackbox", "blackbox_restart", "agent_memory"}
  MaxEdits = 2
  MaxAppends = 2
  MaxChanges = 3
INVARIANTS TypeOK AcceptedWasLeft AcceptedIsNewest AcceptedRowsAreSigned LatestIsLast
PROPERTIES OnlyTheseLaunder AppendOnlyAdds EditsHitTheirRow
CHECK_DEADLOCK FALSE
