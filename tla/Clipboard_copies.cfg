SPECIFICATION Spec
SYMMETRY AppSymmetry
CONSTANTS
  Clients = {c1, c2}
  Apps = {a1, a2}
  MayCut = {c1}
  SetPrimary = TRUE
  SendPrimary = FALSE
  Vnc = Vnc
  Nobody = Nobody
  Offers <- SomeOffers
  MaxCopies = 3
INVARIANTS ClientBehind CopyArrived
