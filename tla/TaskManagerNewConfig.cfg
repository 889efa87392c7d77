\* A section added to config.conf after the program started.
CONSTANTS
  Configs = {aws1}
  Registered = {}
  Handlers = {h1, h2}
  Workers = {w1, w2}
  Requests = {"change_ip", "change_whitelist"}
SPECIFICATION Spec
SYMMETRY ThreadSymmetry
INVARIANTS
  BusyHasWorker
  OneTaskPerConfig
  LastTaskReported
