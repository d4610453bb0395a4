SPECIFICATION Spec
CONSTANTS
    Schemas <- MCSchemas
    IndexChoices <- MCIndexChoices
    MaxGenerations = 4
INVARIANTS PublishedVerify IndexesServeTheirData
