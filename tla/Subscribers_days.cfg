\* Payments, badges and cards of one viewer, told late and out of order.
SPECIFICATION SubFairSpec
CONSTANTS
  none = none
  Period = 30
  Delay = 2
  MaxEvents = 3
  NoDate = none
PROPERTIES PayingKept LapseNoticed
