SPECIFICATION Spec
CONSTANTS
  Object = {o1, o2, o3}
  Url = {u1, u2}
  Nobody = Nobody
  NoUrl = NoUrl
INVARIANTS
  TypeOK
  NothingLeft
  DestructorsAssertNothing
PROPERTIES
  LeaseSpec
