CONSTANTS
  ID_MOD = 16
  MAXCONFREQS = 3
  MAXTERMREQS = 2
  MAXNAKLOOPS = 2
  LOOPBACKFAIL = 2
  MAXECHOFAILS = 1
  MAXTRANSMITS = 2
  Ctl = {1}
  PPP_DEFMRU = 3
  PPP_MINMRU = 2
  Nets <- MCNets
SPECIFICATION Spec
INVARIANTS
  
  Layers
  Agree
PROPERTIES
  Settles
CHECK_DEADLOCK FALSE
