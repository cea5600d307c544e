SPECIFICATION FairSpec
CONSTANTS
    c1 = c1
    c2 = c2
    c3 = c3
    o1 = o1
    pro = pro
    free = free
    nobody = nobody
    noPayment = noPayment
    noSub = noSub
    Payments = {1, 2}
    Callbacks = {c1, c2}
    Orgs = {o1}
    Plans = {pro}
    FreePlan = free
    ApiPlans = {pro}
    OrgOf <- MCOneOrg
    PlanOf <- MCOnePlan
    GatewayOf <- MCZibal
    Months <- MCMonths
    Price <- MCPrice
    Amounts = {2, 20}
    Horizon = 0
    Nobody = nobody
    NoPayment = noPayment
    NoSub = noSub
INVARIANT PaidMeansMoneyMoved
PROPERTIES
    EveryCallbackAnswered
    ConfirmedIsApplied
CHECK_DEADLOCK FALSE
