\* A phone that is an accessory at times, and another phone that never is.
SPECIFICATION Spec
CONSTANTS
    phone = phone
    accessory = accessory
    other = other
    phoneSerial = phoneSerial
    otherSerial = otherSerial
    Impls = {phone, accessory, other}
    Serials = {phoneSerial, otherSerial}
    SerialOf <- SerialNumbers
    Accessory = {accessory}
    None = None
    MaxEvents = 2
INVARIANTS
    StaleSessionNeverUsed
PROPERTIES
    RemovedHasLeft
    DetachWithdraws
\* After stopWaitingForDevices nothing has to happen any more.
CHECK_DEADLOCK FALSE
