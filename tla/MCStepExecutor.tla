--------------------------- MODULE MCStepExecutor ---------------------------
EXTENDS WorkflowExecution

CONSTANTS s1, s2, s3

MCListed == <<s1, s2, s3>>

\* At most two dependencies, in either order.
ListsOver(S) == {<<>>} \cup {<<a>> : a \in S} \cup {<<a, b>> : a, b \in S}

Once(S) == {l \in ListsOver(S) : Len(l) = 2 => l[1] # l[2]}

\* s2 may name a dependency twice, or one that is not a step.
MCWorkflow ==
    {[s \in Step |-> IF s = s2 THEN l ELSE f[s]] :
        l \in ListsOver(Step \cup {NoStep}), f \in [{s1, s3} -> Once(Step)]}

=============================================================================
