\* Two openings of an event with two ticket types
SPECIFICATION Spec
CONSTANTS
    Tickets = {a, b}
    Sessions = {s1, s2}
    MaxWrites = 3
INVARIANTS
    TypeOK
    TermsTogether
    OpenedServes
    OffSale
