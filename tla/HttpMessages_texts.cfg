SPECIFICATION Spec
CONSTANTS
  Numbers <- MCNumbers
  ValueOf <- MCValueOf
  DefaultPort <- MCDefaultPort
  Ints <- MCInts
  Floats <- MCFloats
  Doubles <- MCDoubles
  Printed <- MCPrinted
  AsDouble <- MCAsDouble
  Tokens <- MCTokens
  Calls <- MCCalls
INVARIANTS
  UrlIsWhatItSays
  PrintedUrlLeadsBack
  RequestIsReadAsAsked
  AskedAndAnswered
  ReplyIsReadAsAnswered
  ValuesComeBack
CHECK_DEADLOCK FALSE
