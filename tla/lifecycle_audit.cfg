CONSTANTS
  r1 = r1  r2 = r2  r3 = r3  call = call
  Requests = {r1, r2}
  Calls = {call}
SPECIFICATION Spec
INVARIANTS EveryAccessAudited
