SPECIFICATION Spec
CONSTANTS
  NCalls = 2
INVARIANTS ExactlyOneResult NoReentry UnwindsInOrder ClosedDefectReported
