CONSTANTS
  Function = {f, g}
  LinkPath = {lib}
  MaxVersion = 2
SPECIFICATION Spec
INVARIANTS
  TypeOK
  StaleOnlyAfterFailedEmission
  

  
