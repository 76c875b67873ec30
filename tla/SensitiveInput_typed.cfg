SPECIFICATION MCSpec
CONSTANTS
  Elems <- MCElems
  Page <- MCPage
  Declares <- MCDeclares
  Keys = {"a", "b"}
  TextKeys = {"a", "b"}
  MaxLength = 1
  MaxKeysInFlight = 2
  MinHoled = 1
  MaxRemembered = 2
INVARIANTS TypeOK NoSecretInClear MasksAlike
CHECK_DEADLOCK FALSE
