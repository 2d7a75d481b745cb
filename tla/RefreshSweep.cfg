\* Requests, failed Docker calls and the periodic sweep together.
SPECIFICATION Spec
CONSTANTS
  Containers = {c1}
  Handlers = {h1, h2}
  Workers = {w1, w2}
  Tickers = {t1}
  MaxOps = 2
  MaxFaults = 1
INVARIANT NoLostTrigger
PROPERTIES CacheNeverGoesBack CacheConverges
