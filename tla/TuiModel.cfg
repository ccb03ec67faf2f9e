\* Heights: no line for the table or the diagnostics; three lines for the
\* detail panel and two for the table under it.
CONSTANTS
    MaxRows = 3
    MaxDiagLines = 1
    BodyBudget = 50
    Row <- MCRow
    MaxTerm = 2
    Heights = {2, 10}
    Nil = Nil
SPECIFICATION Spec
INVARIANTS
    SelectionOnScreen
    FilterIsCurrent
    BodiesWithinBudget
    EveryLineCanBeRead
PROPERTIES
    ReadingUndisturbed
