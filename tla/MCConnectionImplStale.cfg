\* Two calls on one connection object.
SPECIFICATION Spec
CONSTANT Calls = {1, 2}
INVARIANT AnswersOwnRequest
CHECK_DEADLOCK FALSE
