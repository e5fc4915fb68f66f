\* More tasks than slots, so that tasks are shed while others leave.
CONSTANTS
  Task = {t1, t2, t3, t4, t5}
  Limits = {0, 1, 2, 3}
SPECIFICATION Spec
INVARIANT CapHolds
INVARIANT CounterExact
