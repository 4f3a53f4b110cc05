CONSTANTS
  Specialists = {s1, s2}
  ClimateTurns = 3
  EnergyTurns = 2
  SynthesizeTurns = 3
  SpecialistTurns = 1
  ClimateCalls = 2
  EnergyCalls = 1
  SynthesizeCalls = 2
  SpecialistCalls = 1
  MaxBatch = 2
  MaxCost = 3
SPECIFICATION Spec
INVARIANTS AccountsAreClosed
PROPERTIES NoTurnBeyondTheCostLimit TheGraphEnds
