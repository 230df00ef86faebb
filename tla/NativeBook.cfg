CONSTANTS
  Window = 2
  Id = {o1, o2, o3}
  NoOrder = none
  MaxPrice = 4
  MaxQuantity = 2
SPECIFICATION Spec
SYMMETRY MCSymmetry
INVARIANTS SidesWellFormed CoreCoherent ViewsAgree
PROPERTY ImplementsReference
