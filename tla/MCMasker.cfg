CONSTANTS
    node = node
    host = host
    ip = ip
    wa = wa
    wb = wb
    wc = wc
    wab = wab
    dn = dn
    i1 = i1
    i2 = i2
    lo = lo
    Kind <- MCKind
    Piece <- MCPiece
    Special = {dn}
    Ip = {i1, i2, lo}
    Value <- MCValue
    Collected <- MCCollected
    Kept <- MCKept
    Short <- MCShort
    Inside <- MCInside
    Drafts <- MCDrafts
    MaxNames = 5
SPECIFICATION MSpec
CHECK_DEADLOCK FALSE
INVARIANTS
    MInv
    ReadsBack
    ReleasedWhenClean
PROPERTIES
    AliasesAreStable
