SPECIFICATION Spec
CONSTANTS
  Ids = {"a", "b"}
  CollectionIds = {"k1", "k2"}
  DefaultTenant = "home"
  DefaultDatabase = "default"
  ShortNames = {"ab"}
  BadId = "bad"
  NoId = ""
  DefaultResults = 1
  Requests <- MCRequests
  None = None
CONSTRAINT Focus
INVARIANTS
  LayersAgree
PROPERTIES
  RequestsMeanWhatTheySay
