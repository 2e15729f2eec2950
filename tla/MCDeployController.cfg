SPECIFICATION Spec
CONSTANTS
  MaxRelease = 3
  Mixed = Mixed
INVARIANTS TypeOK NoOverlap SelectedWereReady HealthyMeansRunning MigratedBeforeUp
