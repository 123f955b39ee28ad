SPECIFICATION Spec
CONSTANTS
  server = server
  tool = tool
  tt = tt
  Instagram <- NoSession
  TikTok <- TheTikTok
  Preflight <- TheTikTok
  Procs <- TwoProcesses
  Ttl = 1
  MaxTime = 3
  WritesFail = TRUE
SYMMETRY Alike
INVARIANTS LiveIsBacked DeadStaysOut
