CONSTANT BytesPerMiB = 1
SPECIFICATION Spec
INVARIANT PickAtThresholdMatchesSpec
