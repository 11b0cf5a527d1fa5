SPECIFICATION CacheSpec
CONSTANT Requests = {r1, r2}
INVARIANT RealIds
