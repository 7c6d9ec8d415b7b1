CONSTANTS
    Lots = {l1}
    Claims = {c1, c2}
    Variations = {v1}
    Dialogs = {d1, d2}
    Requests = {r1, r2}
    Payments = {p1, p2}
    Shares = {40, 60, 100}
    Amounts = {0, 40, 100}
    VariationValue = 20
    None = None
SPECIFICATION Spec
SYMMETRY Symmetry
INVARIANTS ClaimedLotsAreFullyClaimed
