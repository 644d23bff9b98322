------------------------ MODULE MCConversionPackage ------------------------
\* Settings of a conversion for TLC.
EXTENDS ConversionPackage

Setting(tee, kinds, max) == [tee |-> tee, faults |-> kinds, max |-> max]

\* Both modes where the computer stops, the converter fails or the password is
\* missing, where the application dies and leaves its converter, and where
\* the user only pauses.
AllSettings ==
  UNION {{Setting(tee, FaultKinds \ {"crash"}, 3),
          Setting(tee, {"pause", "crash"}, 2),
          Setting(tee, {"pause"}, 3)} : tee \in BOOLEAN}
=============================================================================
