SPECIFICATION Spec
CONSTANTS
  app = app
  sidecar = sidecar
  Containers <- TwoContainers
SYMMETRY ContainerSymmetry
INVARIANTS
  StoppedIsTrue
  RunningIsTrue
