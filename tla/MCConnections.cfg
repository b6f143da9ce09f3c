CONSTANTS
  App = {"a1"}
  Methods = {"get_balance", "multi_pay_invoice"}
  Notifies = FALSE
  Amounts = {0, 1}
  Renewals = {"monthly", "never"}
  Days = {"day"}
  Others <- MCOthers
  Uses = 1
SPECIFICATION MCSpec
INVARIANTS TypeOK ViewIsTrue
PROPERTIES SavesWhatIsTouched CreatedAsAsked FirstUseIsSeen
CHECK_DEADLOCK FALSE
