\* Header versions 3 and 4: the page size is fixed and no longer in the header.
CONSTANTS
  Versions <- MCVersions34
  PageSizes <- MCPageSizes
  KernelSizes <- MCKernelSizes
  RamdiskSizes <- MCRamdiskSizes
  HeaderSizeV3 = 1580
SPECIFICATION Spec
INVARIANT ExtractsRamdisk
\* The script exits after writing the ramdisk or on an error.
CHECK_DEADLOCK FALSE
