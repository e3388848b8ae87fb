SPECIFICATION Spec
CONSTANTS
    None = None
    Account = {a1, a2}
    Conn = {c1, c2, c3}
    Gate = {g1, g2}
    MaxClients = 2
    MaxLogin = 2
    MaxSel = 3
SYMMETRY Symmetry
INVARIANTS TypeOK IndexSound OpenIndexed GhostsOnlyByRelogin
PROPERTY AnswerMatches
