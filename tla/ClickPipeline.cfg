\* Two widgets of the page and one of another tab; two attempts of two polls.
SPECIFICATION FairSpec
CONSTANTS
    OwnWidgets = {w1, w2}
    OtherWidgets = {w3}
    NoWidget = NoWidget
    MaxClickAttempts = 2
    MaxNoCheckbox = 1
    MaxPolls = 2
INVARIANTS
    ClicksOwnPage
    NoButtonHeld
    CreditIsEarned
    QuietClick
PROPERTY
    DispatchOver
