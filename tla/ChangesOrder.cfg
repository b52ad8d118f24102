SPECIFICATION Spec
CONSTANTS
    Categories = {1}
    Products = {2}
    Sales = {3, 4}
    Returns = {5}
    Limit = 2
    PhoneTimes = {9}
    MaxWrites = 3
    MaxLost = 1
    None = None
INVARIANT AlwaysParentsFirst
