\* The requests are answered and nothing is left to do.
CHECK_DEADLOCK FALSE
CONSTANTS
  Tenants = {t1, t2}
  SipCalls = {s1}
  TestKeys = {k1}
  Admissions = {q1, q2, q3}
  Nothing = nothing
  MaxMoves = 2
  MaxFaults = 1
SYMMETRY MCSymmetry
SPECIFICATION AdmissionSpec
INVARIANTS
  AdmittedOnce
  CallIsOfItsTenant
  OneAgentEach
