SPECIFICATION Spec
CONSTANTS
    c1 = c1 s1 = s1 s2 = s2 o1 = o1 o2 = o2
    NoEvent = NoEvent NoOrganization = NoOrganization NoRecord = NoRecord
    NoState = NoState Torn = Torn
    Event = {1, 2, 3, 4, 5}
    Customer = {c1}
    Subscription = {s1, s2}
    Organization = {o1, o2}
    Content <- MCContent
INVARIANTS AnsweredIsStored FollowsStripe
