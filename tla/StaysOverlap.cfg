\* Two nights, two clerks: one reads the customer before the other's
\* reservation is committed.
SPECIFICATION StaysSpec
CONSTANTS
  Units = {u1}
  Nights = {1, 2}
  Bookings = {b1, b2}
  Items = {i1}
  Capacities = {1}
  Desks = {k1, k2}
  NoRow = NoRow
INVARIANTS
  NoDoubleBooking
CHECK_DEADLOCK FALSE
