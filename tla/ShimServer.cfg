SPECIFICATION Spec
CONSTANTS
  Handles = {h1, h2}
  Ports = {web, alt}
  Clients = {c1}
  None = None
INVARIANTS
  QuietAfterFree
PROPERTIES
  ServerContract
  StopTakesEffect
  CallsReturn
