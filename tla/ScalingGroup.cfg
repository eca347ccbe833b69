SPECIFICATION Spec
CONSTANTS
  h1 = h1
  h2 = h2
  Policies <- UpAndDown
  AdjustmentType <- UpByHalf
  ScalingAdjustment <- DownByTwo
  Properties <- TwoTemplates
  Instances <- FourInstances
  Handlers <- TwoHandlers
  GroupCooldown = 1
  WithCooldown <- UpCools
SYMMETRY Symmetric
INVARIANTS TypeOK  InstancesAccounted
PROPERTY CooldownKept
CHECK_DEADLOCK FALSE
CONSTRAINT OnCourse
VIEW Relevant
