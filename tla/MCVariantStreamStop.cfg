\* A stop while one of two endpoints is tried.
SPECIFICATION Spec
CONSTANT MaxEndpoints = 2
PROPERTY StopIsImmediate
