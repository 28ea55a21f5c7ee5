SPECIFICATION Spec
CONSTANTS
  Routes = {"route"}
  Scopes = {"inner", "outer"}
  Types = {"T", "U"}
  MaxSaid = 2
  MaxServed = 2
  MaxDepth = 2
  Jsons = {"json"}
  Forms <- MCForms
  Fields <- MCFields
  Plans <- MCPlans
INVARIANT TextBecomesBody
CHECK_DEADLOCK FALSE
