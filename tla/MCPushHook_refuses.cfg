CONSTANT UserHooks = 1
SPECIFICATION Spec
INVARIANTS RefusedOnFindings
