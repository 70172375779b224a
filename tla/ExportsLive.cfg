\* Calls return; what they need of the clients is in the properties.
CONSTANTS
  Volumes = {v1}
  Hosts = {h1}
  Calls = {c1, c2}
  Servers = {s1, s2, s3}
  Clients = {q1}
  Ops = {"attach", "detach", "destroy"}
  NoServer = NoServer
  NoCall = NoCall
  NoVolume = NoVolume
  NoHost = NoHost
SPECIFICATION FairSpec
PROPERTIES CallsReturn AttachReturns
