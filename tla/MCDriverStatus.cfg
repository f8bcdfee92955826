\* The runs of MCDriver, with every command line for two targets and a source
\* file that may be missing, unreadable, malformed or import itself.
CONSTANTS
  d = d
  sub = sub
  deep = deep
  m = m
  n = n
  subN = subN
  t = t
  u = u
  Dir = {d, sub, deep}
  Cwd = d
  Path <- Files
  ImportName = {m, n, subN}
  PathIn <- Canonical
  DirOf <- Dirname
  Target = {t, u}
  Fault = {"unreadable", "syntax"}
  MaxImports = 2
SPECIFICATION SpecMC
INVARIANT StatusOfCompilation
CHECK_DEADLOCK FALSE
