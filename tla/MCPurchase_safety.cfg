CONSTANTS
    p1 = p1
    p2 = p2
    visa = visa
    master = master
    typo = typo
    ana = ana
    beto = beto
    r1 = r1
    r2 = r2
    r3 = r3
    None = None
    Process = {p1, p2}
    Purchases = {r1, r2, r3}
    Services = {visa, master}
    Names = {visa, master, typo}
    Accounts = {ana, beto}
    Asked <- AskedOf
    Account <- AccountOf
    Price <- PriceOf
    Unit = 2
    Misspelt = {}
    Holders <- Known
    Opening <- Money
    Tries = 1
SPECIFICATION Spec
SYMMETRY Symmetric
INVARIANTS
    MoneyIsNotLost
PROPERTY
    ImplementsMovieSale
