\* Three reads of one socket in two groups; two bytes are sent.  Timers fire and
\* the executor runs.
SPECIFICATION FairReadSpec
CONSTANTS
  r1 = r1
  r2 = r2
  r3 = r3
  g1 = g1
  g2 = g2
  Readers = {r1, r2, r3}
  Groups = {g1, g2}
  GroupOf <- MCGroupOf
  MaxSent = 2
INVARIANTS
  ReadTypeOK
  BytesConserved
  OneWinner
PROPERTIES
  GroupCompletes
