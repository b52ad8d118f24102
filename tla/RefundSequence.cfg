SPECIFICATION SequenceSpec
CONSTANTS
  Items = {1, 2, 3}
  Amounts = {0, 50, 100, 199, 700}
  Quantities = {1, 3}
  Discounts = {0, 51, 100, 350}
INVARIANTS RefundsAddUp
CHECK_DEADLOCK FALSE
