SPECIFICATION Spec
INVARIANT SandboxBindingsComplete
CHECK_DEADLOCK FALSE
