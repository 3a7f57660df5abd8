CONSTANTS
  r1 = r1  c1 = c1  c2 = c2  c3 = c3  read = read  write = write
  NoTool = NoTool  Wildcard = Wildcard  NoClient = NoClient  NoShape = NoShape
  Requests = {r1}
  Shapes <- AllShapes
  Clients <- ThreeClients
  Tools <- TwoTools
  Grants <- DefaultGrants
  Answers = {200, 403}
  MaxEvents = 2
SPECIFICATION Spec
PROPERTIES RegularRequestsFinish
