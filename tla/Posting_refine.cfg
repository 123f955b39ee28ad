SPECIFICATION Spec
CONSTANTS
  Batches = {b1, b2}
  NoBatch = NoBatch
  Faults = {"kill", "io", "tear"}
  MaxFaults = 3
  MaxManual = 1
SYMMETRY Symmetry
INVARIANTS MediaSurvives ActiveMediaPresent
PROPERTIES PostsOnlyWhatIsWanted ImplementsLifecycle
