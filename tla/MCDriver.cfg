\* Four files in a directory and one below it, at most two imports in the root
\* and one other: chains, diamonds, cycles, missing files, names that both
\* directories have, and a name with a directory, which adds that directory to
\* the import paths unless the command line gave it; and two targets with one
\* file that may be missing, unreadable or malformed.
CONSTANTS
  d = d
  sub = sub
  deep = deep
  m = m
  n = n
  subN = subN
  t = t
  u = u
  Dir = {d, sub, deep}
  Cwd = d
  Path <- Files
  ImportName = {m, n, subN}
  PathIn <- Canonical
  DirOf <- Dirname
  Target = {t, u}
  Fault = {"unreadable", "syntax"}
  MaxImports = 2
SPECIFICATION SpecMC
INVARIANT TypeOK
INVARIANT EveryImportMergedOnce
INVARIANT DeclarationsBeforeUses
INVARIANT StatusOfSingleTarget
PROPERTY ResolutionIsStable
PROPERTY CompilerEnds
CHECK_DEADLOCK FALSE
