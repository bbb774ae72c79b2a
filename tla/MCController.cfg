SPECIFICATION CtlSpec
CONSTANTS
  None = None
  Ports = {1, 2}
  RouteBounds <- RBounds
  TransitBounds <- TBounds
 
PROPERTIES ControllerSettles
CHECK_DEADLOCK FALSE
