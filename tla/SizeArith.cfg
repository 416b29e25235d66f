SPECIFICATION EveryPair
CONSTANTS
    Half = 16
    Increment = 5
INVARIANTS UmullIsExact GrowthIsExact
