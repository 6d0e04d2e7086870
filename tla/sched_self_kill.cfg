CONSTANTS
    Envs = {e1, e2, e3, e4}
    NoEnv = NoEnv
SPECIFICATION Spec
INVARIANTS ReturnsToReady
