SPECIFICATION Spec
CONSTANTS
  Msgs <- MCMsgs
  SizeOf <- MCSize
  ReplySize <- MCReplySize
  AnswerSets <- MCAnswers
  BUF_SIZE = 7
  Defrag = {TRUE, FALSE}
  Loads <- MCLoads
INVARIANTS ReceivedIntact EmptyBufferReceives StreamInOrder RoomForReply
PROPERTY EveryRequestAnswered
CHECK_DEADLOCK FALSE
