SPECIFICATION Spec
CONSTANTS
  Fields = {1, 2}  Attempts = {1}  Ops = {o1}  Parts = {p1}
  WebSite = WebSite  WebEdits = {w1}  AuthorEdits = {a1}
  MaxGen = 1  MaxWire = 1  LateResume = FALSE  EditsInRollback = FALSE
  None = None
INVARIANTS TypeOK  BaseExact BaseHonest ReceiptsTrue VerdictFinal
PROPERTIES  BaselineForward
CHECK_DEADLOCK FALSE
