SPECIFICATION BusSpec
CONSTANT Width = 2
INVARIANTS BusTypes RefreshInPlace
