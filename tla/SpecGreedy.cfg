CONSTANTS
    r1 = r1
    r2 = r2
    a = a
    b = b
    e = e
    s1 = s1
    s2 = s2
    NoToken = none
    Seqs = {r1, r2}
    Slots = {s1, s2}
    Tokens = {a, b, e}
    Eos = e
    Greedy <- GreedyDef
    MaxTokens <- BudgetDef
    Window = 5
    TableLen = 6
    SpecK = 2
    Recurrent = TRUE
    Constrained = {r1}
    Language <- LanguageDef
    CloseWithCarry = FALSE
    Unprimed = FALSE
    Preemptible = {r2}
SPECIFICATION Spec
INVARIANTS
    SpecInv
    OutputIsGreedy
    RaisesOnlyNearEnd
