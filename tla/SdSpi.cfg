SPECIFICATION Spec
CONSTANTS
  NBits = 3
  MaxDiv = 1
  Payload <- WalkingOnes
PROPERTIES
  Mode0
  ImplementsExchange
  CallReturns
