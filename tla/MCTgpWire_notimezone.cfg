\* A timestamp without a timezone is accepted: the hyphens of its date pass for one.
SPECIFICATION Spec
CONSTANTS
    None = None
    Rejected = Rejected
    AmountSpace = 65536
    Triples <- Texts
    Amounts <- SomeAmounts
    Addresses <- SomeAddresses
    Hashes <- SomeHashes
    Fees <- SomeFees
    Expiries <- SomeExpiries
    Heads <- SomeHeads
    Hellos <- SomeHellos
    MaxNow = 3
INVARIANT AcceptedHasTimezone
CHECK_DEADLOCK FALSE
