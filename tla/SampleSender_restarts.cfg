SPECIFICATION SampleSpec
CONSTANT NumSets = 3
INVARIANT KeyHeals
