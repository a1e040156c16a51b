SPECIFICATION MCSpec
CONSTANTS
  Payments = {1, 2, 3, 4}
  PlanOf <- MCPlanOf
  Slots = {1, 2}
  Refunds = {"a"}
  Net = 2
  Period = 2
  Couponed = {1}
  Bonus = 1
  FreeDays = 3
  Hold = 1
  Grace = 1
  MaxTime = 5
  Charges = {2, 3, 4}
  MaxRequests = 3
  LastStart = 2
  MaxCrashes = 1
PROPERTY CaptureHonoured
CHECK_DEADLOCK FALSE
