\* All function bodies of at most ten tokens: two nested constructs with
\* statements before, in and after them, or an if, an else if and an else.
CONSTANT MaxTokens = 10
SPECIFICATION Spec
INVARIANT TypeOK
INVARIANT NothingAfterTerminator
INVARIANT BuilderAtOpenEnd
INVARIANT EveryBlockTerminated
INVARIANT ControlFlowPreserved
CHECK_DEADLOCK FALSE
