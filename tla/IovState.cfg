SPECIFICATION StateSpec
CONSTANTS
  NGT = 1
  NVF = 1
  Guests = {1}
  NHosts = 1
  MaxFlr = 2
  MaxActs = 3
INVARIANT FlrInStep
PROPERTY DropOnlyAtFinish
PROPERTY Settles
\* A PF with its FLRs, operations and suspends used up may rest.
CHECK_DEADLOCK FALSE
