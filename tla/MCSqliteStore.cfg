SPECIFICATION Spec
CONSTANTS
    Events <- MCEvents
    Limit = 2
INVARIANTS
    StoreInv
    ReopensItsOwn
    RefusedUntouched
    OpenMeansValidated
PROPERTIES
    ImplementsAtomicStore
