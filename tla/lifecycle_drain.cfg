CONSTANTS
  Null = Null
  Instances = {i1, i2}
  Attempts = 2
  MaxStarts = 2
  MaxRotations = 1
SPECIFICATION Spec
PROPERTIES
  DrainsInFlight
