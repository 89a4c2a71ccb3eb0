\* Every message of both implementations through an envelope, read up to two seconds later.
SPECIFICATION Spec
CONSTANTS
    None = None
    Rejected = Rejected
    AmountSpace = 65536
    Triples <- Texts
    Amounts <- SomeAmounts
    Addresses <- SomeAddresses
    Hashes <- SomeHashes
    Fees <- SomeFees
    Expiries <- SomeExpiries
    Heads <- SomeHeads
    Hellos <- SomeHellos
    MaxNow = 3
INVARIANTS TypeOK RoundTrip AnswersFit ImplementationsAgree OfferTermsHold
CHECK_DEADLOCK FALSE
