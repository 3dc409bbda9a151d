CONSTANTS
  Call = {c1}
  In = in
  Actions = {"WHEN_ACTIVE", "WHEN_ALERTING"}
  Tries = 2
  Reload = 1
  MaxIncoming = 1
SPECIFICATION FairSpec
INVARIANTS TypeOK DialsANumber OneDialPerTry
PROPERTIES TakenIsLookedAfter HungUpAtRest CallsLeave
