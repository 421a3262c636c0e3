CONSTANTS
  t1 = t1
  t2 = t2
  n1 = n1
  Tasks = {t1, t2}
  Namespaces = {n1}
  NsOf <- SharedNs
  MaxPR = 1
  Faults = {}
SPECIFICATION Spec
INVARIANT SandboxIsOwn
