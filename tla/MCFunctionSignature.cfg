SPECIFICATION Spec
CONSTANTS
    Parameters <- MCParameters
    MaxParameters = 3
    Texts <- MCTexts
    OddTexts <- MCOddTexts
    MaxLine = 2
    Bodies <- MCBodies
    Exprs <- MCExprs
    Stmts <- MCStmts
    Height <- MCHeight
INVARIANTS
    TypesExact
    ContradictionsReported
    SignaturesRead
    BodiesExact
