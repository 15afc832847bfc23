CONSTANT N = 3
SPECIFICATION Spec
INVARIANTS Inv
PROPERTIES ImplementsBarrier
