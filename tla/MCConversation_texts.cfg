CONSTANTS
  Streams <- MCTexts
  Codes <- MCCodes
  Ready <- MCReady
  Quit <- MCQuit
  Bye <- MCBye
  Reason <- MCReason
  Greetings <- MCGreetings
  MaxBasic = 3
  KeyBytes = 2
  MaxMessage = 5
  MaxHeader = 8
  MaxRead = 9
  Key3Bytes = 2
  BodyLength = 3
SPECIFICATION Spec
CHECK_DEADLOCK FALSE
INVARIANT TextsEndWhole
