CONSTANTS
    Products = {wallet}
    Fetchers = {"send"}
    ScopeTypes = {"global", "fetcher"}
    Admins = {admin}
    MaxCommits = 2
    MaxFaults = 2
    Stops = {"suspended"}
    Treasury = {fees}
    Rules = {block}
    MaxChanges = 1
    MaxEvents = 3
SPECIFICATION ControlFairSpec
INVARIANTS ControlTypeOK ServesWithApprover AwakeHoldsAnswer UnheardNeverServes
PROPERTIES StopsReachProduct OffReachesFetcher PolicyReachesApprover
