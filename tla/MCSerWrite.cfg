SPECIFICATION Spec
CONSTANTS
  Bytes = {0, 1, 2}
  Size = 5
  Bufs <- FewBufs
PROPERTIES IsSink
