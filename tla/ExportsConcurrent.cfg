\* Three calls in flight on two volumes, all operations, two servers, one client.
CONSTANTS
  Volumes = {v1, v2}
  Hosts = {h1}
  Calls = {c1, c2, c3}
  Servers = {s1, s2}
  Clients = {q1}
  Ops = {"attach", "detach", "destroy"}
  NoServer = NoServer
  NoCall = NoCall
  NoVolume = NoVolume
  NoHost = NoHost
SPECIFICATION Spec
SYMMETRY Symmetry
INVARIANTS TypeOK NoUseAfterClose PublishedServes OwnedOnce
PROPERTY ImplementsRegistry
