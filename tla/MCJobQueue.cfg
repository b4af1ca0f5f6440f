SPECIFICATION Spec
CONSTANTS
  Workers = {w1, w2}
  Posters = {net, db}
  MaxPosts = 2
  NoThread = NoThread
  NoJob = NoJob
PROPERTIES
  ImplementsSerializer
