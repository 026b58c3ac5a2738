SPECIFICATION ArpSpec
CONSTANTS
  h1 = h1
  h2 = h2
  h3 = h3
  Hosts = {h1, h2, h3}
  ZeroHalf = {h3}
  m1 = m1
  m2 = m2
  Macs = {m1, m2}
  Router = h1
  UIP_ARPTAB_SIZE = 2
  UIP_ARP_MAXAGE = 3
  WIDTH = 5
  NoAddr = NoAddr
INVARIANTS TableCurrent ForgottenUnlessWrapped
PROPERTIES OldestThrownAway
