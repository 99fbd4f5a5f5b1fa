SPECIFICATION PadSpec
CONSTANTS
 Pads = {pad1, pad2}
 MaxReports = 3
 MaxVibrations = 2
 MaxReloads = 1
 Vacant = Vacant
 pad1 = pad1
 pad2 = pad2
INVARIANTS AnswerIsOwn
CHECK_DEADLOCK FALSE
