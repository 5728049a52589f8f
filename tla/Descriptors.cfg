SPECIFICATION Spec
CONSTANTS
  h1 = h1
  h2 = h2
  h3 = h3
  Handles <- MCHandles
  Fds = {0, 1, 2}
SYMMETRY HandlesAlike
INVARIANTS
  OneOwner
