SPECIFICATION Spec
CONSTANTS
  t1 = t1
  t2 = t2
  Text = {t1, t2}
  Max = 3
PROPERTIES
  ImplementsStream
\* every goroutine of a call ends
CHECK_DEADLOCK FALSE
