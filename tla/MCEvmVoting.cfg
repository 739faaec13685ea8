SPECIFICATION FairSpec
CONSTANTS
  d1 = d1
  d2 = d2
  d3 = d3
  m1 = m1
  Direct = {d1, d3}
  Melts = {m1}
  Tiny = {d3}
  Time <- MCTime
  EnvTime = 0
  MaxFaults = 1
INVARIANTS AckedMeansVoted MarksExplained ReplayResumes
PROPERTIES EventuallyAttempted LateVoteAcked
