\* Every failure but those of deleting and reading, a crash at any moment.
SPECIFICATION Spec
CONSTANTS
    k1 = k1
    k2 = k2
    publish = publish
    pubrel = pubrel
    pub = pub
    Keys = {k1, k2}
    Requests = {publish}
    Releases = {pubrel}
    Publications = {pub}
    None = None
    Torn = Torn
    Faults <- MCFaults
INVARIANTS
    TypeOK
    RestoresLatest
PROPERTIES
    ImplementsAtomicStore
