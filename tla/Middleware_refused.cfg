SPECIFICATION Spec
CONSTANT Stacks <- MCStacks
INVARIANT RefusedIsNotServed
CHECK_DEADLOCK FALSE
