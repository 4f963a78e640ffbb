SPECIFICATION Spec
CONSTANTS
  Identity = {i1, i2}
  None = none
  Uncatchable = FALSE
PROPERTY DamagedRemainsRemovable
