SPECIFICATION FairSpec
CONSTANTS
  k1 = k1 k2 = k2 k3 = k3
  c1 = c1 c2 = c2 c3 = c3 c4 = c4
  t1 = t1 t2 = t2
  Keys = {k1, k2, k3}
  Unextractable = {k3}
  Contents = {c1}
  Texts = {t1, t2}
  TextOf <- TextOfContents
  EmptyText = EmptyText ErrText = ErrText None = None
  Workers = {w1}
  MaxChanges = 1
  MaxRestarts = 1
  MaxToggles = 1
  Faults = FALSE
  EditsDuringJob = TRUE
  RemovalsUnseen = FALSE
CONSTRAINT OneDisturbance
INVARIANT NothingForgotten
PROPERTY EventuallyTakenCareOf
CHECK_DEADLOCK FALSE
