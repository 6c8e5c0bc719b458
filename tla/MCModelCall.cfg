\* Two workers share the store; one may store the other's payload.  Calls end, so the
\* system may stop.
CONSTANTS
    Callers = {c1, c2}
    Payloads = {d1, d2}
    Nothing = Nothing
    RequestsMade <- const_Requests
    MaxItems = 3
    MaxEvents = 2
SPECIFICATION FairCallSpec
INVARIANTS CallTypeOK AcceptedAnswerIsFinal EndedCallLeavesNoProcess RowsReferToWholeObjects
PROPERTIES EveryCallEnds
CHECK_DEADLOCK FALSE
