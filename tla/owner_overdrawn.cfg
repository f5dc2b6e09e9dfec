SPECIFICATION Spec
CONSTANTS
    owner = owner
    member = member
    group = group
    c1 = c1
    c2 = c2
    NoGroup = NoGroup
    NoOwner = NoOwner
    Unread = Unread
    Users <- MCUsers
    Groups = {group}
    GroupOf <- MCGroupOf
    OwnerOf <- MCOwnerOf
    Admins = {owner}
    Refills = {r1}
    Calls = {c1, c2}
    Callers = {owner}
    Kinds <- MCKinds
    Unopened = {owner}
    Tiers = {group}
    Costs = {2}
    Gifts = {1}
    Policies <- MCPolicies
    System <- MCSystem
    Estimate = 1
    Opening = 1
    MaxDay = 2
    MaxBudget = 2
    MaxBalance = 1
INVARIANTS
    FundedRefillsSucceed
CHECK_DEADLOCK FALSE
