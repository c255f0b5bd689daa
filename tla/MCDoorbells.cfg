SPECIFICATION DoorbellSpec
CONSTANTS
  hiprio = hiprio
  request = request
  NoQueue = NoQueue
  Queue = {hiprio, request}
INVARIANTS RegisteredAsGuarded
PROPERTIES DoorbellsGo
