CONSTANTS
  t1 = t1
  t2 = t2
  n1 = n1
  Tasks = {t1}
  Namespaces = {n1}
  NsOf <- OneNs
  MaxPR = 1
  Faults = {"ignoredError", "podLag"}
SPECIFICATION Spec
VIEW CoreView
INVARIANT TypeOK
PROPERTIES ImplementsLifecycle
