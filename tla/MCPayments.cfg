SPECIFICATION Spec
CONSTANTS
    c1 = c1
    c2 = c2
    c3 = c3
    o1 = o1
    pro = pro
    free = free
    nobody = nobody
    noPayment = noPayment
    noSub = noSub
    Payments = {1, 2}
    Callbacks = {c1, c2, c3}
    Orgs = {o1}
    Plans = {pro}
    FreePlan = free
    ApiPlans = {pro}
    OrgOf <- MCOneOrg
    PlanOf <- MCOnePlan
    GatewayOf <- MCGateways
    Months <- MCMonths
    Price <- MCPrice
    Amounts = {14, 20}
    Horizon = 2
    Nobody = nobody
    NoPayment = noPayment
    NoSub = noSub
SYMMETRY Symmetry
INVARIANTS
    GrantsAccounted
    StaleOnlyAcrossPayments
    PaidMeansMoneyMoved
PROPERTIES
    GrantGivesFullPeriod
    ImplementsLedger
CHECK_DEADLOCK FALSE
