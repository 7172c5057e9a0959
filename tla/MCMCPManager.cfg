SPECIFICATION Spec
SYMMETRY MCSymmetry
CONSTANTS
  fs = fs
  web = web
  search = search
  fetch = fetch
  Servers = {fs, web}
  Names <- MCNames
  Builtins = {search}
  Configs <- MCConfigs
  Yaml <- MCYaml
  Ops = {o1, o2}
  Main = Main
  ClientIds = {1, 2, 3}
  MaxBoots = 2
  None = None
INVARIANTS
  MappedClientsAreOpen
  ClientsLeakByRacesOnly
  RegistryInStep
  StoredServersAreKept
  CallsReachTheirServer
CHECK_DEADLOCK FALSE
