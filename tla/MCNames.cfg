\* Two identifiers.  Four items of code are a function with a variable in a
\* block, another one of the same name after it and a use of it; a scope of
\* the module, of the function and of a block in it.
CONSTANTS
  Name = {x, y}
  Constant = Constant
  MaxCode = 4
  MaxDepth = 3
  MaxParams = 1
SYMMETRY Symmetry
SPECIFICATION Spec
INVARIANT TypeOK
INVARIANT NameOpenOnce
INVARIANT CodegenFindsTheVariable
 
INVARIANT DanglingOnlyAfterAbandonedFunction
CHECK_DEADLOCK FALSE
