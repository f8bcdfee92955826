\* if { stmt } else { stmt } needs six tokens.
CONSTANT MaxTokens = 6
SPECIFICATION Spec
INVARIANT ElseIsNotTheBlockAfter
CHECK_DEADLOCK FALSE
