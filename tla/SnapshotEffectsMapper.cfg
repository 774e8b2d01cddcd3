\* A registration of extensions that fails half-way.
SPECIFICATION EffectsSpec
CONSTANTS
  Slots = {}
  Globs = {}
  Extensions = {"vue", "svelte"}
  MaxUpdates = 3
  MaxFailures = 1
  MaxAdoptions = 0
INVARIANTS RetriedByNextUpdate
CHECK_DEADLOCK FALSE
