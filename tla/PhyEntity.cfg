SPECIFICATION Spec
CONSTANTS
  God = God
  Nobody = Nobody
  Owners = {Alice, Bob, God}
  Operators = {Alice, Bob, God}
  Qubits = {q1, q2}
  MaxTime = 4
SYMMETRY Symmetry
INVARIANTS
  DecoherenceAccounted
  ReadsAreCurrent
CHECK_DEADLOCK FALSE
