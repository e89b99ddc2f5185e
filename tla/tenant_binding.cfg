\* Every request over every chain.
SPECIFICATION Spec
CONSTANTS
    Merchant <- TwoMerchants
    SuperMerchants <- OneMerchant
    Namespace = "n"
    Chains <- RouteChains
INVARIANTS TypeOK HeaderMatchesContext TokenDecides UntrustedBindsNothing SuperIsVerified WildcardIsViewAll GuardedScope AttributionFollowsBinding
PROPERTIES RebindingIsStable
CHECK_DEADLOCK FALSE
