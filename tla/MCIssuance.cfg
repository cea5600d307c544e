SPECIFICATION FairSpec
CONSTANTS
    r1 = r1
    r2 = r2
    r3 = r3
    k1 = k1
    noKey = noKey
    e1 = e1
    noEmail = noEmail
    ann = ann
    bob = bob
    y1 = y1
    y2 = y2
    nobody = nobody
    none = none
    Requests = {r1, r2, r3}
    Keys = {k1}
    NoKey = noKey
    Emails = {e1}
    NoEmail = noEmail
    Names = {ann, bob}
    Years = {y1, y2}
    KeyOf <- MCKeyOf
    EmailOf <- MCEmailOf
    NameOf <- MCNameOf
    YearOf <- MCYearOf
    Limit = 1
    Workers = 2
    LastMonth = 2
    MaxSeq = 2
    Nobody = nobody
    None = none
INVARIANTS
    NumbersSequential
    CertificatesDistinct
    SameKeySameCertificate
    QuotaOvershootBounded
    UsageExact
PROPERTIES
    ImplementsRegistry
    EveryRequestEnds
CHECK_DEADLOCK FALSE
