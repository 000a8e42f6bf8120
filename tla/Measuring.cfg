SPECIFICATION MeasuringSpec
CONSTANTS
  Programs <- MCPrograms
  Options <- MCOptions
  MaxPackets = 2
  Scripts = {"process_suit_combi_4", "ps_combi_2_stress_non", "check_improved_plot"}
  Loads <- MCLoads
  nbr_iteration = 3
  thresholds <- MCThresholds
INVARIANTS IntervalsDisjoint ZeroedPerPair FiguresOfRank
PROPERTIES LeftByWhom CtrlCEnds
CHECK_DEADLOCK FALSE
