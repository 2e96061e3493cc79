\* Three messages and two slots for outflows, so that a slot is used again and
\* the record fills up; a pause or two changes of the setup.
CONSTANTS
  bank = bank
  d1 = d1
  d2 = d2
  Self = receiver
  Programs = {bank}
  Emitters = {d1, d2}
  Sequences = {m1, m2, m3}
  Carried <- MCCarried
  Setup <- MCSetup
  Delays = {1, 2}
  Windows = {1, 2}
  Caps = {1, 2, 3}
  Amounts = {1, 2}
  Entries = 2
  Start <- MCStart
  MaxSetup = 1
  MaxTime = 4
SPECIFICATION Spec
INVARIANTS TypeOK
PROPERTIES RollingCapHeld RunsOnceInTime
SYMMETRY MCSymmetry
CHECK_DEADLOCK FALSE
