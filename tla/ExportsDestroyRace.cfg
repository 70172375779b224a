\* DestroyVolume against an AttachVolume in flight.
CONSTANTS
  Volumes = {v1}
  Hosts = {h1}
  Calls = {c1, c2}
  Servers = {s1, s2, s3}
  Clients = {q1}
  Ops = {"attach", "destroy"}
  NoServer = NoServer
  NoCall = NoCall
  NoVolume = NoVolume
  NoHost = NoHost
SPECIFICATION Spec
INVARIANT DestroyStopsAttachments
