SPECIFICATION Spec
CONSTANTS
  Routes = {"route"}
  Scopes = {"inner", "outer"}
  Types = {"T", "U"}
  MaxSaid = 2
  MaxServed = 2
  MaxDepth = 2
  Jsons = {"json"}
  Forms <- MCForms
  Fields <- MCFields
  Plans <- MCPlans
INVARIANTS
  TypeOK
  NearestState
  OnionOrder
  EncodingTold
  ArgumentsAreMeant
CHECK_DEADLOCK FALSE
