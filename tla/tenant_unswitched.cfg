\* An unswitched super-admin with a tenant header.
SPECIFICATION Spec
CONSTANTS
    Merchant <- TwoMerchants
    SuperMerchants <- OneMerchant
    Namespace = "n"
    Chains <- ConsoleChain
INVARIANTS UnswitchedKeepsToken
CHECK_DEADLOCK FALSE
