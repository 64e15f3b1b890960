SPECIFICATION ClientsSpec
CONSTANTS
  Installations = {1, 2}
  Callers = {"handler", "other handler", "worker"}
  MaxRefusals = 3
INVARIANTS
  ClientsTypeOK
  OneClientPerRefusal
