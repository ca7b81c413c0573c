CONSTANTS
  Item = {a, b, c}
  Zero = zero
  Size = 3
SPECIFICATION Spec
PROPERTY ImplementsBoundedQueue
SYMMETRY Symmetry
