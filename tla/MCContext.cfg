SPECIFICATION MCSpec
CONSTANTS
  Workers = {w1, w2}
  MaxWrites = 6
  MaxFiles = 2
  MaxScan = 2
  Numbers = {1, 2}
  MaxScore = 1
  Described = {}
  MaxResources = 1
  MaxEdits = 2
  Payloads = {"text", "record", "broken", "raw"}
  Commands = {"known", "unknown", "badcwd"}
  MaxLines = 3
  MaxReadFaults = 1
  SelectionIds = {i1, i2}
  Tools = {t1}
  MaxSelects = 3
  MaxFaults = 2
  MaxCrashes = 1
  Families = {"chat", "openai", "chatgpt", "anthropic", "gemini", "openrouter"}
  Cap = 1
  MaxMessages = 3
  None = None
CHECK_DEADLOCK FALSE
INVARIANTS  PromptIsFresh  
