SPECIFICATION Spec
CONSTANTS
    Entity = {1, 2}
    Version = {1, 2}
    LongMax = 3
    NoVersion = NoVersion
    Nothing = Nothing
    Queries <- SomeQueries
    MaxWrites = 3
INVARIANTS
    WrittenAsAsked
    ScanIsExact
