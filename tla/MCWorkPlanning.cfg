\* Two tabs ask for outlines; workers fail, crash, outlive their leases and are resumed.
\* A run that awaits review and asks nothing more is a legitimate end.
CONSTANTS
    Tabs = {t1, t2}
    Workers = {w1, w2}
    Runs = {r1, r2}
    Keys = {k1, k2}
    Outlines = {o1, o2}
    PriorLimit = 1
    Quota = 2
    Nothing = Nothing
SPECIFICATION FairPlanningSpec
INVARIANTS PlanningTypeOK ReviewHasOwnCandidate OnePlanningPerKey SettledRunRests
PROPERTIES AnnouncedCandidateStays FetchedOutlineIsNew PlanningEndsOrCanResume
CHECK_DEADLOCK FALSE
