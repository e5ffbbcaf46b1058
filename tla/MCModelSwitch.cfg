SPECIFICATION Spec
CONSTANTS
    Models = {A, B}
    NonCommercial = {B}
    Initial = A
    Faces = {f1, f2, f3}
    Arriving = {f2}
    Lost = {f3}
    Requests = {r1, r2, r3}
    MaxFaults = 1
    NoModel = NoModel
SYMMETRY Symmetry
INVARIANT TypeOK
INVARIANT CarriedOver
INVARIANT MovedIsRescored
INVARIANT LiveGalleryCurrent
INVARIANT LicenceCoherent
PROPERTY RevokedStays
CHECK_DEADLOCK FALSE
