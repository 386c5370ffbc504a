CONSTANTS
  edit = edit
  rival = rival
  command = command
  fetch = fetch
  f = f
  ws = ws
  r1 = r1
  r2 = r2
  Call = {edit, rival, command, fetch}
  Workspace = {ws}
  File = {f}
  Tracked = {edit, rival}
  Arbitrated = {edit, rival, command}
  Unstable = Unstable
  Request = {r1, r2}
  NoRequest = NoRequest
  workspaceOf <- MCWorkspaceOf
  reach <- MCReach
  Budgets <- MCBudgets
SPECIFICATION FairSpec
CHECK_DEADLOCK FALSE
INVARIANTS CallsAreIdempotent ReceiptsAreTrue EditsAreFresh MutationsAreSerial
PROPERTIES InvocationsSettle
