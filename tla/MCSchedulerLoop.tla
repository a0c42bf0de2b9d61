--------------------------- MODULE MCSchedulerLoop ---------------------------
EXTENDS SchedulerLoop

\* Workers and critics share one model, the planner and its critic another.
TwoPairs == [worker |-> "w", critic |-> "w", plan_critic |-> "p", planner |-> "p"]
=============================================================================
