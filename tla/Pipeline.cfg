CONSTANTS
    CHAINS <- MCCHAINS
    Committed <- MCCommitted
    Variants <- MCVariants
    Control = "ecdsa"
    Ladder <- MCLadder
    Sans <- MCSans
    MlDsa <- MCMlDsa
    Spread = 2
    Averaged <- MCAveraged
    CvSizes <- MCCvSizes
    Tickets <- MCTickets
    Priced <- MCPriced
    DER <- MCDER
    Compressed <- MCCompressed
    MaxCalls = 4
SPECIFICATION Spec
INVARIANTS TypeOK FlightEndsWithFinished ReportIsRight FormulaGivesMeasurement
    WireFiguresAgree StructuralPredicts
PROPERTIES SizesAreExact CalculatorLosesNoChain
CHECK_DEADLOCK FALSE
