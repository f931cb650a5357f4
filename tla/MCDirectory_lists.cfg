\* Three governments, a city, a specialization and a sub, two
\* workers, three rows of another table, two calls.
CONSTANTS
  g1 = g1  g2 = g2  g3 = g3  c1 = c1  m1 = m1  x1 = x1  w1 = w1  w2 = w2
  e1 = e1  e2 = e2  e3 = e3
  Government = {g1, g2, g3}
  City = {c1}
  Specialization = {m1}
  Sub = {x1}
  Profile = {w1, w2}
  Entry = {e1, e2, e3}
  GovernmentOf <- CityOf
  MainOf <- SubOf
  Day = {0, 1}
  Limit = {1, 2}
  DefaultLimit = 2
  MaxPicks = 1
  MaxPage = 4
  Request = {r1, r2}
  NoJob = NoJob
  NoRow = NoRow
  NoWalk = NoWalk
SPECIFICATION Spec
SYMMETRY Symmetric
CONSTRAINTS OneAtATime Alone SideBySide
INVARIANTS TypeOK PagesAddUp
 
