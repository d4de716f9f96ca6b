SPECIFICATION LiveSpec
CONSTANTS
  Models = {a, b}
  Texts = {hi}
  Kinds <- MCKinds
  BodyLimit <- MCBodyLimit
  MaxImages <- MCMaxImages
  MaxCalls <- MCMaxCalls
  MaxLines <- MCMaxLines
  MaxMoves <- MCMaxMoves
  FirstStates <- MCFirstStates
  FirstRoutes <- MCFirstRoutes
  Away = Away
  Bare = Bare
  Loading = Loading
  NoModel = NoModel
  NoCall = NoCall
  NoText = NoText
  Image = Image
INVARIANTS
  OneTask
  ReplyIsStream
PROPERTIES
  ImplementsConversation
  OperationsEnd
CHECK_DEADLOCK FALSE
