SPECIFICATION Spec
CONSTANTS
  Handle = {w1, w2, w3, w4}
  Null = Null
  Header = {version, content_type}
  Nul = Nul
  MaxLength = 2
  Type = {json, text}
  MaxOpens = 2
  None = None
INVARIANTS
  TypeOK
  OutcomeReported
  HeaderWhole
  HandlesOwned
  AcceptListGiven
