CONSTANTS
  l1 = l1
  l2 = l2
  l3 = l3
  NoLaunch = NoLaunch
  Launches = {l1, l2, l3}
  MaxByHand = 2
SPECIFICATION LaunchSpec
CHECK_DEADLOCK FALSE
PROPERTY StopsAfterApp
