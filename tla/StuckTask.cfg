CONSTANTS
  t1 = t1
  n1 = n1
  Tasks = {t1}
  Namespaces = {n1}
  NsOf <- OneNs
  MaxPR = 1
  Faults = {"abort"}
SPECIFICATION LiveSpec
PROPERTY TaskSettles
