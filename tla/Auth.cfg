SPECIFICATION Spec
CONSTANTS
    Wallets = {alice, bob}
    Nonces = {n1, n2}
    Handlers = {h1, h2}
    Roles = {"property_owner", "investor"}
    MaxNumber = 2
    None = None
SYMMETRY Symmetric
INVARIANTS
    TypeOK
    NonceOnce
    SessionsAgree
    DisplayIdsUnique
PROPERTIES
    KeepsPromise
