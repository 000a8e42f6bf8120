SPECIFICATION AnalysisSpec
CONSTANTS
  Programs <- MCPrograms
  Options <- MCOptions
  MaxPackets = 2
  Scripts = {"process_suit_combi_4", "ps_combi_2_stress_non", "check_improved_plot"}
  Loads <- MCLoads
  nbr_iteration = 2
  thresholds <- MCThresholds
INVARIANT LossIsShown
CHECK_DEADLOCK FALSE
