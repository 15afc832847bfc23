CONSTANTS
  Width = 6
  Lanes = 2
  Setups <- MCSetups
SPECIFICATION Spec
INVARIANTS ErrorsReal FaultsFound NobodyStranded
