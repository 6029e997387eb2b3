SPECIFICATION GrpcSpec
CONSTANTS
  Call = {q1, q2}
  Service = {svc}
  Check = {k1, k2}
  MaxStarts = 2
  MaxStops = 2
INVARIANT AdmittedRequestsHandled
CHECK_DEADLOCK FALSE
