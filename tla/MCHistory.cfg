SPECIFICATION Spec
CONSTANTS
    c1 = c1
    c2 = c2
    a = a
    b = b
    None = None
    Clients = {c1, c2}
    Scans = {1, 2, 3, 4}
    Targets = {a, b}
    TargetOf <- MCTargetOf
    High <- MCHigh
    Latest = 2
    Policies <- MCPolicies
INVARIANTS
    AuditIsTrue
    KnownSchemaOnly
PROPERTIES
    PruneJustified
    ImplementsLedger
