SPECIFICATION Spec
CONSTANTS
    Handler = {h1, h2, h3}
    Key = {k1, k2}
    Quote = {q1, q2}
    MayRefuse = TRUE
    MaxCrashes = 1
    None = None
SYMMETRY Symmetry
INVARIANTS
    TypeOK
    OnePaymentPerKey
    CachedErrorMeansUnpaid
