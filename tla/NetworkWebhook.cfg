\* Three requests, one of which is no GET.
SPECIFICATION Spec
CONSTANTS
  Requests = {r1, r2, r3}
  Nobody = nobody
  Gets = {r1, r2}
  Healths = {"ok", "error"}
  MaxClock = 1
INVARIANTS TypeOK InOrderUnlessLate NotifiedAtMostOnce SameForClientAndWebhook
PROPERTY EveryClientAnswered
