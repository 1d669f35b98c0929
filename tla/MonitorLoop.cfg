SPECIFICATION Spec
CONSTANTS MaxDevices = 2
CHECK_DEADLOCK FALSE
INVARIANTS CallbackOnLiveObject NoHandleLeft
PROPERTIES RunningLoopStops
