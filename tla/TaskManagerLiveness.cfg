\* aws2 was added to config.conf after the program started.
CONSTANTS
  Configs = {aws1, aws2}
  Registered = {aws1}
  Handlers = {h1}
  Workers = {w1, w2}
  Requests = {"change_region", "get_config"}
SPECIFICATION FairSpec
PROPERTY BusyClears
