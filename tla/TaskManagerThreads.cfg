CONSTANTS
  Configs = {aws1}
  Registered = {aws1}
  Handlers = {h1, h2}
  Workers = {w1, w2}
  Requests = {"change_ip", "reset"}
SPECIFICATION Spec
SYMMETRY ThreadSymmetry
INVARIANTS
  TypeOK
  BusyHasWorker
  IdleWhenQuiet
  OneTaskPerConfig
  LastTaskReported
