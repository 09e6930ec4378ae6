SPECIFICATION SensorsSpec
CONSTANTS Ids = {m1, m2, m3, m4}
          None = None
          Measured = {n1, n2, n3}
          Nothing = Nothing
          Depth = 3
SYMMETRY Symmetry
INVARIANTS RightPage SampleWhole SampleUntorn ReadyIsSetUp
PROPERTIES FreshSample ForcedIsFresh FreshReading NewestSample AbsentChipNoticed
