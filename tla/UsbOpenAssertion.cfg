\* UsbDevice.open asserts that the device is closed.
SPECIFICATION Spec
CONSTANTS
    phone = phone
    accessory = accessory
    other = other
    phoneSerial = phoneSerial
    otherSerial = otherSerial
    Impls = {phone, accessory}
    Serials = {phoneSerial, otherSerial}
    SerialOf <- SerialNumbers
    Accessory = {accessory}
    None = None
    MaxEvents = 3
INVARIANTS
    OpenAssertion
CHECK_DEADLOCK FALSE
