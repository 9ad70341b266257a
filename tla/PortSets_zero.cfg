SPECIFICATION PortSpec
CONSTANTS
  PortIds = {p1, p2}
  MaxPort = 9
  PortTexts <- MCZeroTexts
PROPERTIES NoPortIsMadeUp
