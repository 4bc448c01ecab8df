SPECIFICATION Spec
CONSTANTS
  A = A
  B = B
  a = a
  m1 = m1
  m2 = m2
  i1 = i1
  Eids = {A, B, a}
  FormEids = {A}
  Upper <- MCUpper
  Eims = {m1, m2}
  Iccids = {i1}
  EimLists <- MCEimLists
  PreloadSets <- MCPreloadSets
  TestDevices <- MCNoDevices
  CreateTestData = TRUE
  ClonesEdited = FALSE
  EcoLists <- MCEcoLists
  Added <- MCAdded
  MaxCounter = 1
  MaxSeq = 1
INVARIANT NothingForgotten
