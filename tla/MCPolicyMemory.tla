--------------------------- MODULE MCPolicyMemory ---------------------------
(* Every configuration the workers and drivers accept.                     *)
EXTENDS PolicyMemory

MCJobs == {j \in JobType : JobAssumptions(j)}

\* The three kinds in which a call does not find what it needs.
MCOptimizerLeft == {j \in MCJobs : OptimizerLeft(j)}
MCBuffersLeft == {j \in MCJobs : BuffersLeft(j)}
MCParamsLeft == {j \in MCJobs : ParamsLeft(j)}

=============================================================================
