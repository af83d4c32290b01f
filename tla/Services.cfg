SPECIFICATION MCSpec
INVARIANTS SlotsBalance AnswersRight UploadsRight SettingsKept EmergencyComputed
PROPERTIES ImplementsFIFO SignsAgree
CONSTANTS
    m1 = m1
    m2 = m2
    m3 = m3
    Messages <- MCMessages
    Capacity = 3
    NoMsg = NoMsg
    EarlyPackets = TRUE
CHECK_DEADLOCK FALSE
