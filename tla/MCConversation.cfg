CONSTANTS
  Streams <- MCStreams
  Codes <- MCCodes
  Ready <- MCReady
  Quit <- MCQuit
  Bye <- MCBye
  Reason <- MCReason
  Greetings <- MCGreetings
  MaxBasic = 3
  KeyBytes = 2
  MaxMessage = 5
  MaxHeader = 20
  MaxRead = 21
  Key3Bytes = 2
  BodyLength = 3
SPECIFICATION Spec
CHECK_DEADLOCK FALSE
INVARIANTS TypeOK Answered Decoded MessageBounded Understood Replied
PROPERTY EverythingHandled
