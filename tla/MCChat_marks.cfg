\* One conversation, two messages, two calls at a time.
CONSTANTS
  Conversation = {c1}
  Request = {r1, r2}
  MaxMessage = 2
  NoRequest = NoRequest
  NoConversation = NoConversation
  NoJob = NoJob
SPECIFICATION Spec
SYMMETRY Symmetric
INVARIANTS TypeOK NumbersGapless CatchUpMissesNothing ReadReceiptsTrue
PROPERTIES MarksNeverFall ImplementsThread
CHECK_DEADLOCK FALSE
