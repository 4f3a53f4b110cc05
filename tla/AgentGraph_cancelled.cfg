CONSTANTS
  Specialists = {s1}
  ClimateTurns = 2
  EnergyTurns = 1
  SynthesizeTurns = 1
  SpecialistTurns = 1
  ClimateCalls = 1
  EnergyCalls = 1
  SynthesizeCalls = 1
  SpecialistCalls = 1
  MaxBatch = 1
  MaxCost = 3
SPECIFICATION Spec
INVARIANTS CancelledRunReportsSettledUsage
