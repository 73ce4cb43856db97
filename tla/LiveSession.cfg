SPECIFICATION FairSpec
CONSTANTS
  Low = Low
  High = High
  MaxCalls = 2
  Budgets <- MCBudgets
INVARIANTS TypeOK OneCallAtATime KeysAgree MessagesAreRead SecretsAgree
PROPERTIES CallsSettle PairingCompletes
CHECK_DEADLOCK FALSE
