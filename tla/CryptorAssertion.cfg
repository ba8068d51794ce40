\* A Bluetooth device and a wired one.
SPECIFICATION Spec
CONSTANTS
    d1 = d1
    d2 = d2
    d3 = d3
    n1 = n1
    n2 = n2
    Devices = {d1, d2}
    NoDevice = NoDevice
    Bluetooth = {d2}
    Names = {n1, n2}
    NameOf <- TwoNames
    MaxPending = 3
    NumServices = 2
    FaultyServices = {}
PROPERTIES
    CryptorStartAssertion
