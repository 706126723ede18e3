CONSTANTS
  t1 = t1
  t2 = t2
  match = match
  other = other
  H = H
  Thread <- MCThread
  TimerName <- MCTimerName
  Histogram <- MCHistogram
  Route <- MCRoute
  DirectLatencies <- MCDirectLatencies
  Percentiles <- MCPercentiles
  NumBuckets = 3
  BucketWidth = 2
  Huge = 100
  MaxTime = 2
  MaxSamples = 3
SYMMETRY Symmetry
SPECIFICATION Spec
INVARIANT TypeOK
INVARIANT PercentileBracketed
INVARIANT HistogramIsExact
