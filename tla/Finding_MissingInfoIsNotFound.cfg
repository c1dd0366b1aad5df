SPECIFICATION Spec
CONSTANTS
    c1 = c1
    c2 = c2
    id1 = id1
    Clients <- MCClients
    Identifiers = {id1}
    MaxVersion = 1
    Kinds <- MCKinds
INVARIANT
    MissingInfoIsNotFound
