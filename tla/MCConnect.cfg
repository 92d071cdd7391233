CONSTANTS
  Conns = {c1, c2}
  Hosts = {"api", "web", "dev"}
  Intercepted = {"api"}
  HostsFile = {"api", "web"}
  Answer <- MCAnswer
  Client = Client
  None = None
SPECIFICATION LiveSpec
INVARIANTS
  OneKeyPerHost
  NoRedirectLoop
PROPERTIES
  ImplementsTunnel
  SetupEnds
