SPECIFICATION ChatSpec
CONSTANTS
  NoStream = NoStream
  NoConfirm = NoConfirm
  Streams = {s1}
  Sockets = {k1, k2}
  Confirms = {q1}
  Answers = {yes, no}
  MaxEvents = 3
  MaxCrashes = 1
INVARIANT ChatTypeOK
INVARIANT NoGap
INVARIANT AnswersAgree
PROPERTY StreamsSettle
CHECK_DEADLOCK FALSE
