SPECIFICATION Spec
CONSTANTS
    Main = main
    Worker = worker
    Supervisor = supervisor
    None = None
    BridgeObjects = {b1, b2}
    Objects = {o1, o2, o3}
SYMMETRY MCSymmetry
INVARIANTS
    AttachedShown
    LostAuthShown
    OrphanShown
PROPERTIES
    StoppedIsSilent
