CONSTANTS
  Kms = {20, 100}
  Calls = {"DeviceLocked"}
SPECIFICATION Spec
INVARIANT RequestsArrive
