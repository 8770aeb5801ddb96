SPECIFICATION Spec
CONSTANTS
  Nodes = {n1, n2, n3}
  Names = {1, 2, 3}
  Q = 2
  Null = Null
  Raw = Raw
  Fresh = {Null}
  n1 = n1
  n2 = n2
  n3 = n3
INVARIANT NoDataMeansEmpty
