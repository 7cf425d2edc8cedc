SPECIFICATION HostSpec
CONSTANTS
  c1 = c1
  c2 = c2
  c3 = c3
  Installer = {i1}
  Name = {1, 2, 3}
  Clsid = {c1, c2, c3}
  Nothing = Nothing
  Duty <- DutyMC
  Host = {h1}
  Length <- LengthMC
  MaxLoads = 1
INVARIANTS LoadHonest
