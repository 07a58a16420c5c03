SPECIFICATION FairSpec
CONSTANTS
    h1 = h1
    h2 = h2
    r1 = r1
    c1 = c1
    Handlers = {h1, h2}
    Runners = {r1}
    Contents = {c1}
    MaxJobs = 2
INVARIANTS
    ScheduleFollowsRow
PROPERTY EnabledPolicyRuns
