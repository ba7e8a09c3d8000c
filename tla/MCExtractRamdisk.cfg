\* WritesOnlyRamdisk over header versions 0-4.
CONSTANTS
  Versions <- MCVersions
  PageSizes <- MCPageSizes
  KernelSizes <- MCKernelSizes
  RamdiskSizes <- MCRamdiskSizes
  HeaderSizeV3 = 1580
SPECIFICATION Spec
INVARIANT WritesOnlyRamdisk
\* The script exits after writing the ramdisk or on an error.
CHECK_DEADLOCK FALSE
