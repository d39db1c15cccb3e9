SPECIFICATION Spec
CONSTANTS
  Base = 3
  MaxPayload = 1
  CompressMin = 8
  Clients = {1, 2}
  Batches <- SomeBatches
  MaxData = 7
INVARIANTS RoundTrip UnmarshalIsExact
